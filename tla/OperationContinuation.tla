------------------------ MODULE OperationContinuation ------------------------
(* packages/db/src/operation-continuation: the repository of continuation rows *)
(* of ONE Operation.  A call of claim, heartbeat, release or settle samples    *)
(* its clock, checks the Operation and only then issues a conditional UPDATE;  *)
(* READ COMMITTED lets other calls commit in between, so each such call is two *)
(* steps here and any number of them (MaxInflight) may be under way.  The      *)
(* other calls are one statement or hold an advisory lock: one step.           *)
EXTENDS ContinuationRow, FiniteSets

CONSTANTS
    Workers,         \* lease owner ids
    Calls,           \* Tool Calls of the Operation, each with its approval
    NoCall,
    MaxSequence,     \* limit on continuations of an Operation (1 000 in the code)
    MaxGeneration,   \* CHECK lease_generation <= 1 000 000
    LeaseDuration,
    ApprovalExpiry   \* gateway_approvals.expires_at

ASSUME OwnersAssumption == NoOwner \notin Workers /\ NoCall \notin Calls
ASSUME BoundsAssumption ==
    MaxSequence \in Nat /\ MaxGeneration \in Nat /\ ApprovalExpiry \in Nat
ASSUME LeaseAssumption == LeaseDuration \in Nat \ {0}

Seqs == 1..MaxSequence
SettleFailure == "adapter_unavailable"

VARIABLES
    clock,
    op,            \* [status, cancel]: agent_operations, written by the Gateway
    approval,      \* [Calls -> {"pending", "approved", "denied"}]
    pendingCalls,  \* Tool Calls still in status "pending"
    access,        \* the actor's membership, agent and conversation are active
    rows,          \* [Seqs -> row]
    inflight,      \* calls that passed their checks and have not committed
    granted,       \* history: <<seq, generation, owner>> returned by a claim
    settledBy      \* history: [Seqs -> {} or {<<generation, owner>>}]

env == <<op, approval, pendingCalls, access>>
vars == <<clock, op, approval, pendingCalls, access, rows, inflight, granted, settledBy>>

NoRow == [status |-> "absent", call |-> NoCall, owner |-> NoOwner,
          gen |-> 0, expires |-> 0, failure |-> "none"]

Row == [status : {"absent", "waiting_approval", "ready", "running"} \cup Terminal,
        call : Calls \cup {NoCall}, owner : Workers \cup {NoOwner},
        gen : 0..MaxGeneration, expires : Nat, failure : {"none", SettleFailure}]

LeaseCall == [kind : {"claim", "heartbeat", "release", "complete", "fail"},
              seq : Seqs, owner : Workers, gen : 0..MaxGeneration, now : Nat]

TypeOK ==
    /\ clock \in Nat
    /\ op \in [status : {"running", "completed", "failed", "cancelled"},
               cancel : BOOLEAN]
    /\ approval \in [Calls -> {"pending", "approved", "denied"}]
    /\ pendingCalls \subseteq Calls
    /\ access \in BOOLEAN
    /\ rows \in [Seqs -> Row]
    /\ inflight \subseteq LeaseCall
    /\ granted \subseteq Seqs \X (1..MaxGeneration) \X Workers
    /\ settledBy \in [Seqs -> SUBSET ((0..MaxGeneration) \X Workers)]

Init ==
    /\ clock = 1
    /\ op = [status |-> "running", cancel |-> FALSE]
    /\ approval = [c \in Calls |-> "pending"]
    /\ pendingCalls = Calls
    /\ access = TRUE
    /\ rows = [s \in Seqs |-> NoRow]
    /\ inflight = {}
    /\ granted = {}
    /\ settledBy = [s \in Seqs |-> {}]

-------------------------------------------------------------------------------
(* Calls that are one step.                                                    *)

\* The early return every call but cancel starts with.
OperationOpen == op.status = "running" /\ ~op.cancel

\* The sequence number a new row gets: max(sequence) + 1.
NextSeq(s) ==
    /\ rows[s].status = "absent"
    /\ \A t \in 1..(s - 1) : rows[t].status # "absent"

\* Mutant: the latest row may still be active.
createWaitingBeside(c) ==
    /\ OperationOpen /\ c \in pendingCalls
    /\ \A s \in Seqs : rows[s].call # c
    /\ \E s \in Seqs :
        /\ NextSeq(s)
        /\ rows' = [rows EXCEPT ![s] =
                      [NoRow EXCEPT !.status = "waiting_approval", !.call = c]]
    /\ UNCHANGED <<clock, env, inflight, granted, settledBy>>

\* A second call for the same Tool Call is a replay and writes nothing.
createWaiting(c) ==
    /\ OperationOpen
    /\ c \in pendingCalls
    /\ \A s \in Seqs : rows[s].call # c
    /\ \E s \in Seqs :
        /\ NextSeq(s)
        /\ \A t \in Seqs : t = s - 1 => rows[t].status \notin Active
        /\ rows' = [rows EXCEPT ![s] =
                      [NoRow EXCEPT !.status = "waiting_approval", !.call = c]]
    /\ UNCHANGED <<clock, env, inflight, granted, settledBy>>

\* Mutant: nobody asks for the decision.
markReadyUnasked(s) ==
    /\ OperationOpen
    /\ rows[s].status = "waiting_approval"
    /\ rows' = [rows EXCEPT ![s].status = "ready"]
    /\ UNCHANGED <<clock, env, inflight, granted, settledBy>>

markReady(s) ==
    /\ OperationOpen
    /\ rows[s].status = "waiting_approval"
    /\ approval[rows[s].call] = "approved"
    /\ ApprovalExpiry > clock
    /\ rows' = [rows EXCEPT ![s].status = "ready"]
    /\ UNCHANGED <<clock, env, inflight, granted, settledBy>>

\* Mutant: a final row is cancelled like an active one.
cancelAny(s) ==
    /\ rows[s].status # "absent"
    /\ rows' = [rows EXCEPT ![s] = Unleased(rows[s], "cancelled", "none")]
    /\ UNCHANGED <<clock, env, inflight, granted, settledBy>>

\* cancelContinuation asks nothing of the Operation.
cancel(s) ==
    /\ rows[s].status \in Active
    /\ rows' = [rows EXCEPT ![s] = Unleased(rows[s], "cancelled", "none")]
    /\ UNCHANGED <<clock, env, inflight, granted, settledBy>>

-------------------------------------------------------------------------------
(* First step of a lease call: sample the clock, pass the checks.              *)

Start(call) ==
    /\ inflight' = inflight \cup {call}
    /\ UNCHANGED <<clock, env, rows, granted, settledBy>>

ClaimCall(s, w) ==
    [kind |-> "claim", seq |-> s, owner |-> w, gen |-> 0, now |-> clock]

claim(s, w) ==
    /\ OperationOpen
    /\ rows[s].status # "absent"
    /\ Start(ClaimCall(s, w))

\* The worker's claim also re-derives the whole authorization from the database.
claimForExecution(s, w) ==
    /\ OperationOpen
    /\ rows[s].status # "absent"
    /\ ~(rows[s].status = "running" /\ Live(rows[s], clock))
    /\ access
    /\ approval[rows[s].call] = "approved"
    /\ Start(ClaimCall(s, w))

\* heartbeat, release and settle present the owner and generation of a claim.
present(kind, grant) ==
    /\ OperationOpen
    /\ Start([kind |-> kind, seq |-> grant[1], owner |-> grant[3],
              gen |-> grant[2], now |-> clock])

-------------------------------------------------------------------------------
(* Second step: the conditional UPDATE.  When its WHERE matches nothing the    *)
(* call returns or throws without a write.                                     *)

Write(call, matches, row) ==
    /\ rows' = IF matches THEN [rows EXCEPT ![call.seq] = row] ELSE rows
    /\ inflight' = inflight \ {call}
    /\ UNCHANGED <<clock, env>>

\* A claim beyond the CHECK on lease_generation aborts its transaction.
claimRow(call) ==
    LET row == rows[call.seq]
        matches == Claimable(row, call.now) /\ row.gen < MaxGeneration
    IN  /\ call.kind = "claim"
        /\ Write(call, matches, Claimed(row, call.owner, call.now + LeaseDuration))
        /\ granted' = IF matches
                      THEN granted \cup {<<call.seq, row.gen + 1, call.owner>>}
                      ELSE granted
        /\ UNCHANGED settledBy

MatchesLease(call) == HeldBy(rows[call.seq], call.owner, call.gen, call.now)

heartbeatContinuation(call) ==
    /\ call.kind = "heartbeat"
    /\ Write(call, MatchesLease(call),
             Renewed(rows[call.seq], call.now + LeaseDuration))
    /\ UNCHANGED <<granted, settledBy>>

releaseContinuation(call) ==
    /\ call.kind = "release"
    /\ Write(call, MatchesLease(call), Unleased(rows[call.seq], "ready", "none"))
    /\ UNCHANGED <<granted, settledBy>>

settleContinuation(call) ==
    /\ call.kind \in {"complete", "fail"}
    /\ Write(call, MatchesLease(call),
             IF call.kind = "complete"
             THEN Unleased(rows[call.seq], "completed", "none")
             ELSE Unleased(rows[call.seq], "failed", SettleFailure))
    /\ settledBy' = IF MatchesLease(call)
                    THEN [settledBy EXCEPT ![call.seq] = {<<call.gen, call.owner>>}]
                    ELSE settledBy
    /\ UNCHANGED granted

\* The process dies, or its transaction is rolled back, before the UPDATE.
Lose(call) ==
    /\ inflight' = inflight \ {call}
    /\ UNCHANGED <<clock, env, rows, granted, settledBy>>

-------------------------------------------------------------------------------
(* What the rest of the system does to the facts the repository reads.         *)

Unchanged == UNCHANGED <<rows, inflight, granted, settledBy>>

operationTerminal(status) ==
    /\ op.status = "running"
    /\ op' = [op EXCEPT !.status = status]
    /\ UNCHANGED <<clock, approval, pendingCalls, access>> /\ Unchanged

requestCancellation ==
    /\ OperationOpen
    /\ op' = [op EXCEPT !.cancel = TRUE]
    /\ UNCHANGED <<clock, approval, pendingCalls, access>> /\ Unchanged

decide(c, status) ==
    /\ approval[c] = "pending"
    /\ ApprovalExpiry > clock
    /\ approval' = [approval EXCEPT ![c] = status]
    /\ UNCHANGED <<clock, op, pendingCalls, access>> /\ Unchanged

markCallRunning(c) ==
    /\ c \in pendingCalls
    /\ pendingCalls' = pendingCalls \ {c}
    /\ UNCHANGED <<clock, op, approval, access>> /\ Unchanged

revokeAccess ==
    /\ access
    /\ access' = FALSE
    /\ UNCHANGED <<clock, op, approval, pendingCalls>> /\ Unchanged

Tick ==
    /\ clock' = clock + 1
    /\ UNCHANGED env /\ Unchanged

-------------------------------------------------------------------------------
Repository ==
    \/ \E c \in Calls : createWaiting(c)
    \/ \E s \in Seqs : markReady(s) \/ cancel(s)
    \/ \E s \in Seqs, w \in Workers : claim(s, w) \/ claimForExecution(s, w)
    \/ \E g \in granted, kind \in {"heartbeat", "release", "complete", "fail"} :
            present(kind, g)
    \/ \E call \in inflight :
            \/ claimRow(call)
            \/ heartbeatContinuation(call)
            \/ releaseContinuation(call)
            \/ settleContinuation(call)
            \/ Lose(call)

Environment ==
    \/ \E status \in {"completed", "failed", "cancelled"} : operationTerminal(status)
    \/ requestCancellation
    \/ \E c \in Calls : markCallRunning(c) \/ \E d \in {"approved", "denied"} : decide(c, d)
    \/ revokeAccess
    \/ Tick

Next == Repository \/ Environment

Spec == Init /\ [][Next]_vars
-------------------------------------------------------------------------------
(* At most one continuation of the Operation is active, and it is the last one *)
(* created: createWaiting looks only at the latest row, so every earlier row   *)
(* must already be final for that look to be enough.                           *)
OneActiveContinuation ==
    \A s, t \in Seqs :
        s < t /\ rows[t].status # "absent" => rows[s].status \in Terminal

(* Every row the repository can write satisfies the CHECK constraints of the   *)
(* table, so no call is rolled back by them: the lease columns are set exactly *)
(* while the row runs, and a failure code is there exactly when it failed.     *)
RowChecks == \A s \in Seqs : LeaseCheck(rows[s]) /\ TerminalCheck(rows[s])

(* A generation is handed to one owner only, though two workers may claim the  *)
(* same row with checks and clocks taken before either of them committed.      *)
GenerationIssuedOnce ==
    \A g, h \in granted : g[1] = h[1] /\ g[2] = h[2] => g[3] = h[3]

(* The owner recorded in a running row is the one that was told it owns the    *)
(* row's generation, and nobody was told of a later generation.                *)
OwnerHoldsLatestGrant ==
    \A s \in Seqs :
        /\ rows[s].status = "running" => <<s, rows[s].gen, rows[s].owner>> \in granted
        /\ \A g \in granted : g[1] = s => g[2] <= rows[s].gen

(* A worker whose lease was taken over, or was released, never decides how the *)
(* continuation ends: the lease that settled it is the last one granted.       *)
SettledByLatestGrant ==
    \A s \in Seqs : \A f \in settledBy[s] :
        /\ <<s, f[1], f[2]>> \in granted
        /\ \A g \in granted : g[1] = s => g[2] <= f[1]

(* Nothing runs, or has run, without the approval of its own Tool Call having  *)
(* been recorded as approved.                                                  *)
RunsOnlyApproved ==
    \A s \in Seqs :
        rows[s].status \in {"ready", "running", "completed", "failed"}
            => approval[rows[s].call] = "approved"

(* A lease that has not expired on the shared clock is not taken by another    *)
(* claim, however old the clock sample of that claim is.                       *)
LiveLeaseKept ==
    [][\A s \in Seqs :
         rows[s].status = "running" /\ Live(rows[s], clock)
            => rows'[s].gen = rows[s].gen]_vars

(* Final rows never change again, and a generation is never taken back.        *)
FinalRowsKept ==
    [][\A s \in Seqs :
         /\ rows[s].status \in Terminal => rows'[s] = rows[s]
         /\ rows[s].gen <= rows'[s].gen]_vars

(* The inductive invariant: what the properties above need to know of rows     *)
(* that do not exist yet, of settled rows and of the calls under way.          *)
RowsBound ==
    \A s \in Seqs :
        IF rows[s].status = "absent" THEN rows[s] = NoRow ELSE rows[s].call \in Calls

SettledRows ==
    \A s \in Seqs : settledBy[s] # {} => rows[s].status \in {"completed", "failed"}

CallsInPast == \A call \in inflight : call.now <= clock

IInv ==
    /\ TypeOK
    /\ RowsBound
    /\ SettledRows
    /\ CallsInPast
    /\ RowChecks
    /\ OneActiveContinuation
    /\ GenerationIssuedOnce
    /\ OwnerHoldsLatestGrant
    /\ SettledByLatestGrant
    /\ RunsOnlyApproved

-------------------------------------------------------------------------------
(* The repository implements a fenced lease per continuation.                  *)
OutcomeOf(row) ==
    IF row.status \in {"completed", "failed"} THEN row.status
    ELSE IF row.status = "cancelled" THEN "abandoned" ELSE "open"

Lease == INSTANCE FencedLease WITH
    Resources <- Seqs, Clients <- Workers, Nobody <- NoOwner,
    term <- [s \in Seqs |-> rows[s].gen],
    holder <- [s \in Seqs |-> rows[s].owner],
    outcome <- [s \in Seqs |-> OutcomeOf(rows[s])],
    issued <- granted,
    finisher <- settledBy

(* Implementation: every step is a grant, a yield, a finish by the holder of   *)
(* the current term, an abandonment, or leaves the abstract lease alone.       *)
ImplementsFencedLease == Lease!Spec
==============================================================================

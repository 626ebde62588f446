---------------------------- MODULE McpContinuation ----------------------------
(* An approved Tool Call of a suspended Operation, carried out by Graphile     *)
(* workers: the task of apps/worker/src/tasks/continue-operation.ts, the MCP   *)
(* adapter with its three ledgers (intent, Tool Call, effect) and the call to  *)
(* the external tool, over the transactions of GatewayStore.  Every statement  *)
(* of the adapter is its own transaction, so each is one step of its worker.   *)
(* What happens between the statements of a claim or of a release is the       *)
(* matter of OperationContinuation; here each is one step.                     *)
EXTENDS GatewayStore, FiniteSets

CONSTANTS
    Hazards,       \* what happens to the workers besides their work
    MaxFaults,     \* bound on the faults among them
    MaxAttempts    \* max_attempts of the Graphile job (25 in the code)

Faults == {"crash", "stall", "error", "lost_ack"}

ASSUME HazardsAssumption ==
    /\ Hazards \subseteq Faults \cup {"cancel", "read", "revoke", "expire", "unregistered"}
    /\ MaxFaults \in Nat /\ MaxAttempts \in Nat \ {0}

VARIABLES
    ledger,     \* [intent, call, effect, dispatched]: tables and the outside world
    worker,     \* [Workers -> what the task's process knows]
    attempts,   \* attempts of the queued job
    faults      \* faults so far

vars == <<store, ledger, worker, attempts, faults>>

\* Inside the adapter; "return" and "throw" are the task after it.
AdapterPcs == {"open", "markRunning", "intend", "failEffect", "failCall", "failIntent",
               "dispatch", "callTool", "commitEffect", "succeedCall", "completeIntent",
               "settleAnswer", "reconcile", "unknownEffect", "unknownCall",
               "unknownIntent", "unknownAnswer"}
Leased == AdapterPcs \cup {"return", "throw"}

Ledgers == [intent : {"prepared", "dispatching", "completed", "failed", "outcome_unknown"},
            call : {"pending", "running", "succeeded", "failed", "outcome_unknown"},
            effect : {"none", "intended", "committed", "failed", "outcome_unknown"},
            dispatched : Nat]

\* What the adapter, or the task without one, lets the continuation settle as.
Settled == {"completed", "RUNTIME_FAILED", "FORBIDDEN", "CAPABILITY_UNAVAILABLE"}

Processes == [pc : {"idle", "cancel", "reject"} \cup Leased,
              gen : Nat,                \* generation of its claim
              valid : BOOLEAN,          \* the intent validated when it was opened
              recovering : BOOLEAN,     \* outside of the try block of resume
              aborted : BOOLEAN,        \* its AbortSignal
              queued : BOOLEAN,         \* its job is still the one of the job key
              outcome : {"none"} \cup Settled]

NoWork == [pc |-> "idle", gen |-> 0, valid |-> FALSE, recovering |-> FALSE,
           aborted |-> FALSE, queued |-> FALSE, outcome |-> "none"]

Settlements == [op : {"settleContinuation"}, owner : Workers, gen : Nat,
                outcome : Settled]

TypeOK ==
    /\ db \in Facts
    /\ tx \in {Idle} \cup [op : {"requestCancellation"}] \cup Settlements
    /\ ledger \in Ledgers
    /\ worker \in [Workers -> Processes]
    /\ attempts \in 0..MaxAttempts
    /\ faults \in 0..MaxFaults

\* What resolveApproval left behind, for a Tool Call the adapter prepared.
Init ==
    /\ db = ApprovedFacts
    /\ tx = Idle
    /\ ledger = [intent |-> "prepared", call |-> "pending", effect |-> "none",
                 dispatched |-> 0]
    /\ worker = [w \in Workers |-> NoWork]
    /\ attempts = 0
    /\ faults = 0

Fault(kind) == kind \in Hazards /\ faults < MaxFaults /\ faults' = faults + 1

Goes(w, pc) == worker' = [worker EXCEPT ![w].pc = pc]

OperationOpen == db.status = "running" /\ ~db.cancel

Held(w) == HeldBy(db.cont, w, worker[w].gen, 0)

\* The lease row names a process that still runs, so a heartbeat renews it.
Attended ==
    \E w \in Workers :
        worker[w].pc \in Leased /\ db.cont.owner = w /\ db.cont.gen = worker[w].gen

-------------------------------------------------------------------------------
(* The task: claim, and what it does when there is nothing to resume.          *)

\* A live lease makes the task throw; backoff brings its job back after the
\* lease, so that is no step here and no attempt.  A worker that is configured
\* without the adapter settles at once.
claimForExecution(w) ==
    /\ worker[w].pc = "idle"
    /\ db.job
    /\ attempts' = attempts + 1
    /\ LET taken == [db EXCEPT !.job = FALSE]
           started == [NoWork EXCEPT !.queued = TRUE]
           Takes(d, process) == db' = d /\ worker' = [worker EXCEPT ![w] = process]
       IN  IF db.status # "running" THEN Takes(taken, NoWork)
           ELSE IF db.cancel THEN Takes(taken, [started EXCEPT !.pc = "cancel"])
           ELSE /\ ~(db.cont.status = "running" /\ Live(db.cont, 0))
                /\ IF ~(db.access /\ db.approval = "approved")
                   THEN Takes(taken, [started EXCEPT !.pc = "reject"])
                   ELSE IF ~Claimable(db.cont, 0) THEN Takes(taken, NoWork)
                   ELSE \E adapter \in {TRUE, "unregistered" \notin Hazards} :
                        Takes([taken EXCEPT !.cont = Claimed(@, w, 1)],
                              [started EXCEPT
                                 !.gen = db.cont.gen + 1,
                                 !.pc = IF adapter THEN "open" ELSE "return",
                                 !.outcome = IF adapter THEN @ ELSE "CAPABILITY_UNAVAILABLE"])
    /\ UNCHANGED <<tx, ledger, faults>>

\* Mutant: one attempt too many.
RequeuedOnce(d, w) ==
    [d EXCEPT !.job = @ \/ (worker[w].queued /\ attempts <= MaxAttempts)]

\* A failed or dead attempt gives the job back, unless recovery replaced it.
Requeued(d, w) ==
    [d EXCEPT !.job = @ \/ (worker[w].queued /\ attempts < MaxAttempts)]

Stops(w) == worker' = [worker EXCEPT ![w] = NoWork]

\* cancelContinuation or rejectContinuationAuthorization; no release after it.
withdraw(w) ==
    /\ worker[w].pc \in {"cancel", "reject"}
    /\ LET t == [op |-> IF worker[w].pc = "cancel" THEN "cancelContinuation"
                        ELSE "rejectContinuationAuthorization"]
       IN  \/ Commits(t) /\ UNCHANGED faults
           \/ Finishing(t) /\ Pending(t) = {} /\ db' = Requeued(db, w) /\ UNCHANGED faults
           \/ Fault("error") /\ tx = Idle /\ db' = Requeued(db, w) /\ UNCHANGED tx
    /\ Stops(w)
    /\ UNCHANGED <<ledger, attempts>>

-------------------------------------------------------------------------------
(* The adapter.                                                                *)

\* getForResume, and validation of what it returns: not expired, and registered
\* with the same semantics in the configuration of this worker process.
open(w) ==
    /\ worker[w].pc = "open"
    /\ \E valid \in {~db.expired, ~db.expired /\ "unregistered" \notin Hazards} :
        worker' = [worker EXCEPT ![w] =
          CASE ledger.intent = "prepared" -> [@ EXCEPT !.pc = "markRunning", !.valid = valid]
            [] ledger.intent = "completed" -> [@ EXCEPT !.pc = "succeedCall", !.recovering = TRUE]
            [] ledger.intent = "dispatching" -> [@ EXCEPT !.pc = "reconcile", !.recovering = TRUE]
            [] OTHER -> [@ EXCEPT !.pc = "return", !.outcome = "RUNTIME_FAILED"]]
    /\ UNCHANGED <<store, ledger, attempts, faults>>

callSettle(l, status) == {IF l.call = "running" THEN [l EXCEPT !.call = status] ELSE l}

\* Mutant: an unknown outcome is not accepted.
intentSettleKnown(l, status) ==
    {IF l.intent = "dispatching" /\ status # "outcome_unknown"
     THEN [l EXCEPT !.intent = status] ELSE l}

intentSettle(l, status) ==
    {IF l.intent \in (IF status = "failed" THEN {"prepared", "dispatching"} ELSE {"dispatching"})
     THEN [l EXCEPT !.intent = status] ELSE l}

\* Mutant: not conditional on the current status.
effectSettleLast(l, status) == {[l EXCEPT !.effect = status]}

effectSettle(l, status) ==
    CASE l.effect = "intended" -> {[l EXCEPT !.effect = status]}
      [] l.effect = status -> {l}
      [] OTHER -> {}

effectIntend(l) ==
    IF l.call # "running" \/ db.status # "running" THEN {}
    ELSE {IF l.effect = "none" THEN [l EXCEPT !.effect = "intended"] ELSE l}

markRunning(l) == {IF l.call = "pending" THEN [l EXCEPT !.call = "running"] ELSE l}

\* Mutant: the dispatch is not recorded before it is made.
markDispatchingLater(l) == {l}

\* Whether it took place, "transitioned", is not looked at.
markDispatching(l) ==
    {IF l.intent = "prepared" THEN [l EXCEPT !.intent = "dispatching"] ELSE l}

\* The statement at each pc: what it may make of the ledgers, none if it throws.
Statement(l, pc) ==
    CASE pc = "markRunning" -> markRunning(l)
      [] pc = "intend" -> effectIntend(l)
      [] pc = "failEffect" -> effectSettle(l, "failed")
      [] pc = "failCall" -> callSettle(l, "failed")
      [] pc = "failIntent" -> intentSettle(l, "failed")
      [] pc = "dispatch" -> markDispatching(l)
      [] pc = "commitEffect" -> effectSettle(l, "committed")
      [] pc = "succeedCall" -> callSettle(l, "succeeded")
      [] pc = "completeIntent" -> intentSettle(l, "completed")
      [] pc = "unknownEffect" -> effectSettle(l, "outcome_unknown")
      [] pc = "unknownCall" -> callSettle(l, "outcome_unknown")
      [] pc = "unknownIntent" -> intentSettle(l, "outcome_unknown")

Then == [markRunning |-> "intend", failEffect |-> "failCall", failCall |-> "failIntent",
         failIntent |-> "return", dispatch |-> "callTool", commitEffect |-> "succeedCall",
         succeedCall |-> "completeIntent", completeIntent |-> "settleAnswer",
         unknownEffect |-> "unknownCall", unknownCall |-> "unknownIntent",
         unknownIntent |-> "unknownAnswer", settleAnswer |-> "return",
         unknownAnswer |-> "return"]

Answers == [settleAnswer |-> "completed", unknownAnswer |-> "RUNTIME_FAILED",
            failIntent |-> "FORBIDDEN"]

Advance(w) ==
    LET pc == worker[w].pc
    IN  worker' = [worker EXCEPT
          ![w].pc = IF pc # "intend" THEN Then[pc]
                    ELSE IF worker[w].valid THEN "dispatch" ELSE "failEffect",
          ![w].outcome = IF pc \in DOMAIN Answers THEN Answers[pc] ELSE @]

\* The try block of resume hands its errors to the reconciliation.
Catch(w) ==
    IF worker[w].pc \in {"commitEffect", "succeedCall", "completeIntent", "settleAnswer"}
          /\ ~worker[w].recovering
    THEN worker' = [worker EXCEPT ![w].pc = "reconcile", ![w].recovering = TRUE]
    ELSE Goes(w, "throw")

ledgerStep(w) ==
    /\ worker[w].pc \in (DOMAIN Then \cup {"intend"}) \ {"settleAnswer", "unknownAnswer"}
    /\ LET pc == worker[w].pc
           results == Statement(ledger, pc)
           \* another dispatch committed with another receipt
           disputed == pc = "commitEffect" /\ ledger.effect = "committed"
       IN  \/ ledger' \in results /\ Advance(w) /\ UNCHANGED faults
           \/ (results = {} \/ disputed) /\ Catch(w) /\ UNCHANGED <<ledger, faults>>
           \/ Fault("error") /\ Catch(w) /\ UNCHANGED ledger
           \/ Fault("lost_ack") /\ ledger' \in results /\ Catch(w)
    /\ UNCHANGED <<store, attempts>>

\* The tool may have run whether the call returns or throws; an aborted signal
\* makes it throw.
callTool(w) ==
    /\ worker[w].pc = "callTool"
    /\ \/ ~worker[w].aborted /\ Goes(w, "commitEffect")
       \/ worker' = [worker EXCEPT ![w].pc = "reconcile", ![w].recovering = TRUE]
    /\ \/ ledger' = [ledger EXCEPT !.dispatched = @ + 1]
       \/ worker'[w].pc = "reconcile" /\ UNCHANGED ledger
    /\ UNCHANGED <<store, attempts, faults>>

\* Mutant: an effect that is still intended is left as it is.
reconcileCall(w) ==
    /\ worker[w].pc = "reconcile"
    /\ Goes(w, IF ledger.effect = "committed" THEN "succeedCall" ELSE "unknownCall")
    /\ UNCHANGED <<store, ledger, attempts, faults>>

\* reconcileMcpDispatch reads the effect and settles around it.
reconcile(w) ==
    /\ worker[w].pc = "reconcile"
    /\ \/ /\ Goes(w, CASE ledger.effect = "committed" -> "succeedCall"
                       [] ledger.effect = "intended" -> "unknownEffect"
                       [] OTHER -> "unknownCall")
          /\ UNCHANGED faults
       \/ Fault("error") /\ Goes(w, "throw")
    /\ UNCHANGED <<store, ledger, attempts>>

\* settleTurn of the assistant message, with the terminal intent.
answer(w) ==
    /\ worker[w].pc \in {"settleAnswer", "unknownAnswer"}
    /\ LET results == settlePlatformTurn(db, Answers[worker[w].pc])
       IN  \/ db' \in results /\ Advance(w) /\ UNCHANGED faults
           \/ results = {} /\ Catch(w) /\ UNCHANGED <<db, faults>>
           \/ Fault("error") /\ Catch(w) /\ UNCHANGED db
           \/ Fault("lost_ack") /\ db' \in results /\ Catch(w)
    /\ UNCHANGED <<tx, ledger, attempts>>

-------------------------------------------------------------------------------
(* The task again: settle, or give the lease and the job back.                 *)

Settlement(w) == [op |-> "settleContinuation", owner |-> w, gen |-> worker[w].gen,
                  outcome |-> worker[w].outcome]

settleBegins(w) ==
    /\ worker[w].pc = "return" /\ ~worker[w].aborted
    /\ Begins(Settlement(w))
    /\ UNCHANGED <<ledger, worker, attempts, faults>>

settle(w) ==
    /\ worker[w].pc = "return"
    /\ LET t == Settlement(w)
       IN  \/ worker[w].aborted /\ tx # t /\ Goes(w, "throw") /\ UNCHANGED <<store, faults>>
           \/ /\ ~worker[w].aborted \/ tx = t
              /\ \/ Commits(t) /\ Stops(w) /\ UNCHANGED faults
                 \/ Throws(t) /\ Goes(w, "throw") /\ UNCHANGED faults
                 \/ Fault("error") /\ RollsBack(t) /\ Goes(w, "throw")
                 \/ Fault("lost_ack") /\ Commits(t) /\ Goes(w, "throw")
    /\ UNCHANGED <<ledger, attempts>>

\* Mutant: the task swallows the error that it should rethrow.
releaseSwallowing(w) ==
    /\ worker[w].pc = "throw"
    /\ db' = [db EXCEPT !.cont = IF OperationOpen /\ Held(w)
                                THEN Unleased(@, "ready", "none") ELSE @]
    /\ Stops(w)
    /\ UNCHANGED <<tx, ledger, attempts, faults>>

\* Errors of the release are swallowed; the task rethrows either way.
release(w) ==
    /\ worker[w].pc = "throw"
    /\ \/ /\ db' = Requeued([db EXCEPT !.cont = IF OperationOpen /\ Held(w)
                                                THEN Unleased(@, "ready", "none") ELSE @], w)
          /\ UNCHANGED faults
       \/ Fault("error") /\ db' = Requeued(db, w)
    /\ Stops(w)
    /\ UNCHANGED <<tx, ledger, attempts>>

\* A heartbeat finds the lease or the Operation gone, or fails.  Without an
\* adapter the settlement is sent before the first heartbeat, and not aborted.
heartbeat(w) ==
    /\ worker[w].pc \in Leased \ {"throw"} /\ ~worker[w].aborted
    /\ worker[w].outcome # "CAPABILITY_UNAVAILABLE"
    /\ \/ ~(OperationOpen /\ Held(w)) /\ UNCHANGED faults
       \/ Fault("error")
    /\ worker' = [worker EXCEPT ![w].aborted = TRUE]
    /\ UNCHANGED <<store, ledger, attempts>>

crash(w) ==
    /\ worker[w].pc # "idle"
    /\ Fault("crash")
    /\ tx' = IF tx = Settlement(w) THEN Idle ELSE tx
    /\ db' = Requeued(db, w)
    /\ Stops(w)
    /\ UNCHANGED <<ledger, attempts>>

-------------------------------------------------------------------------------
(* Time, maintenance and the other requests.                                   *)

\* The lease of a dead process runs out; that of a live one when it stalls.
lapse ==
    /\ db.cont.status = "running" /\ Live(db.cont, 0)
    /\ IF Attended THEN Fault("stall") ELSE UNCHANGED faults
    /\ db' = [db EXCEPT !.cont.expires = 0]
    /\ UNCHANGED <<tx, ledger, worker, attempts>>

\* add_job with job_key_mode "replace" disowns the attempts of the old job.
requeueExpiredForExecution ==
    /\ db.cont.status = "running" /\ ~Live(db.cont, 0)
    /\ db.status = "running"
    /\ db' = [db EXCEPT !.job = TRUE]
    /\ attempts' = 0
    /\ worker' = [w \in Workers |-> [worker[w] EXCEPT !.queued = FALSE]]
    /\ UNCHANGED <<tx, ledger, faults>>

Cancelling == [op |-> "requestCancellation"]

cancellationBegins ==
    /\ "cancel" \in Hazards /\ db.access
    /\ Begins(Cancelling)
    /\ UNCHANGED <<ledger, worker, attempts, faults>>

requestCancel ==
    /\ "cancel" \in Hazards /\ db.access
    /\ Commits(Cancelling) \/ Throws(Cancelling)
    /\ UNCHANGED <<ledger, worker, attempts, faults>>

read ==
    /\ "read" \in Hazards /\ db.access
    /\ reconciled(db) # db
    /\ Commits([op |-> "read"])
    /\ UNCHANGED <<ledger, worker, attempts, faults>>

revokeAccess ==
    /\ "revoke" \in Hazards /\ db.access /\ tx # Cancelling
    /\ db' = [db EXCEPT !.access = FALSE]
    /\ UNCHANGED <<tx, ledger, worker, attempts, faults>>

expire ==
    /\ "expire" \in Hazards /\ ~db.expired
    /\ db' = [db EXCEPT !.expired = TRUE]
    /\ UNCHANGED <<tx, ledger, worker, attempts, faults>>

abandonExpiredPrepared ==
    /\ db.expired /\ ledger.intent = "prepared"
    /\ ledger' = [ledger EXCEPT !.intent = "failed"]
    /\ UNCHANGED <<store, worker, attempts, faults>>

-------------------------------------------------------------------------------
WorkerStep(w) ==
    \/ claimForExecution(w) \/ withdraw(w)
    \/ open(w) \/ ledgerStep(w) \/ callTool(w) \/ reconcile(w) \/ answer(w)
    \/ settleBegins(w) \/ settle(w) \/ release(w)

Maintenance == requeueExpiredForExecution \/ lapse

Next ==
    \/ \E w \in Workers : WorkerStep(w) \/ heartbeat(w) \/ crash(w)
    \/ Maintenance \/ abandonExpiredPrepared
    \/ cancellationBegins \/ requestCancel \/ read \/ revokeAccess \/ expire

\* Processes run, Graphile polls its queue and its cron, leases run out; strong
\* because PostgreSQL queues the waiters of a lock.  None on requests and faults.
Fairness ==
    /\ \A w \in Workers : SF_vars(WorkerStep(w))
    /\ WF_vars(requeueExpiredForExecution) /\ WF_vars(lapse /\ ~Attended)
    /\ WF_vars(requestCancel /\ tx # Idle)

Spec == Init /\ [][Next]_vars /\ Fairness
-------------------------------------------------------------------------------
(* The external tool is called at most once, whatever happens to the workers   *)
(* (a comment of dispatch-reconciliation.ts and ADR-0006 promise it).          *)
AtMostOneDispatch == ledger.dispatched <= 1

(* AtMostOneDispatch made inductive, for workers that keep the leases they     *)
(* hold: one worker at a time is past its claim, the lease names it while the  *)
(* Operation runs, and one that may still dispatch finds no earlier dispatch.  *)
OneWorker ==
    /\ \A v, w \in Workers : worker[v].pc \in Leased /\ worker[w].pc \in Leased => v = w
    /\ \A w \in Workers : worker[w].pc \in Leased /\ db.status = "running" => Held(w)
    /\ \A w \in Workers :
          /\ worker[w].pc \in {"markRunning", "intend", "dispatch", "callTool"}
                => ledger.dispatched = 0
          /\ worker[w].pc = "callTool" => ledger.intent # "prepared"
    /\ ledger.dispatched > 0 => ledger.intent # "prepared"
    /\ AtMostOneDispatch

(* No ledger claims more than the one below it can prove: the Operation is     *)
(* completed only with its answer, the answer only with its intent and call,   *)
(* and these only with a committed effect of a call that was dispatched.       *)
SuccessIsProved ==
    /\ db.status = "completed" \/ db.intent = "completed" => db.assistant = "completed"
    /\ db.assistant = "completed" => ledger.intent = "completed" /\ ledger.call = "succeeded"
    /\ ledger.intent = "completed" \/ ledger.call = "succeeded" => ledger.effect = "committed"
    /\ ledger.effect = "committed" => ledger.dispatched > 0

Refuted == {"failed", "outcome_unknown"}

\* What a worker at pc relies on, whatever other workers did to the ledgers.
AgreesWith(l, pc) ==
    /\ pc \in AdapterPcs \ {"open", "markRunning", "intend"} => l.effect # "none"
    /\ pc \in AdapterPcs \ {"open", "markRunning", "intend", "dispatch", "failEffect",
                           "failCall", "failIntent"} => l.intent # "prepared"
    /\ pc = "commitEffect" => l.dispatched > 0
    /\ pc \in {"succeedCall", "completeIntent", "settleAnswer"} => l.effect = "committed"
    /\ pc \in {"completeIntent", "settleAnswer"} => l.call = "succeeded"
    /\ pc = "settleAnswer" => l.intent = "completed"
    /\ pc \in {"failCall", "failIntent", "unknownCall", "unknownIntent", "unknownAnswer"}
         => l.effect \in Refuted

\* The ledgers advance in one order, and the effect decides the other two.
InOrder(l) ==
    /\ l.intent # "prepared" => l.effect # "none"
    /\ l.effect # "none" => l.call # "pending"
    /\ l.effect = "committed" => l.dispatched > 0
    /\ l.call = "succeeded" => l.effect = "committed"
    /\ l.intent = "completed" => l.call = "succeeded"
    /\ l.intent \in Refuted \/ l.call \in Refuted => l.effect \in Refuted

(* SuccessIsProved made inductive: the ledgers are in order and every worker   *)
(* is right about them when it is about to execute its next statement.         *)
LedgersAgree ==
    /\ SuccessIsProved
    /\ ~db.expired
    /\ InOrder(ledger)
    /\ \A w \in Workers : AgreesWith(ledger, worker[w].pc)

(* A ledger that says the Tool Call failed, or was never sent, is right: after *)
(* a dispatch the only honest outcomes are committed and outcome_unknown.      *)
FailureIsHonest ==
    ledger.dispatched > 0 =>
        /\ ledger.intent \notin {"prepared", "failed"}
        /\ ledger.call \notin {"pending", "failed"}
        /\ ledger.effect \notin {"none", "failed"}

(* FailureIsHonest made inductive: with one registration for all workers no    *)
(* statement ever records a failure, and only a recorded dispatch is made.     *)
NothingFails ==
    /\ LedgersAgree
    /\ "failed" \notin {ledger.intent, ledger.call, ledger.effect}
    /\ ledger.dispatched > 0 => ledger.intent # "prepared"
    /\ \A w \in Workers :
          /\ worker[w].pc \notin {"failEffect", "failCall", "failIntent"}
          /\ worker[w].pc \in {"markRunning", "intend"} => worker[w].valid

(* The event stream of a resumed Operation ends with one terminal event.       *)
TerminalUnique == OneTerminalEvent(db)

(* Whatever becomes of the workers, a client sees a turn that goes on from its *)
(* approval as the abstract lifecycle of an Operation does.                    *)
ImplementsLifecycle == Lifecycle!ResumedSpec

\* What the implementation rests on: nobody takes the approval back, and the
\* answer that a running Operation has is its intent.
Telling ==
    /\ db.approval = "approved"
    /\ Lifecycle!Coherent
    /\ db.status = "running" =>
          db.assistant = IF db.intent = "none" THEN "pending" ELSE db.intent

(* The inductive invariant: a queued job has an attempt left, and a worker     *)
(* that returns to its task knows how the continuation ends; unless workers    *)
(* stall, they follow each other.                                              *)
IInv ==
    /\ TypeOK
    /\ TerminalUnique
    /\ db.job => attempts < MaxAttempts
    /\ \A w \in Workers : worker[w].pc = "return" => worker[w].outcome # "none"
    /\ "stall" \notin Hazards => OneWorker
    /\ Telling

(* The answer that the adapter settled is the answer of the Operation.         *)
SettledAnswerStands == AnswerAgrees(db) /\ ~conflicts(db)

(* An Operation that ended has no active continuation that nobody will end:    *)
(* some process is still at it, or a job or the recovery will be.              *)
NoStaleContinuation ==
    db.status # "running" /\ db.cont.status \in Active
        => db.job \/ \E w \in Workers : worker[w].pc # "idle"

(* Nobody leaves a dispatched call unexplained: once the Operation ended, not  *)
(* withdrawn from the adapter by a cancellation or a lost membership, its      *)
(* ledgers are settled, if only as outcome_unknown, whoever is still at it.    *)
Accounted(l) == l.intent # "dispatching" /\ l.effect # "intended" /\ l.call # "running"
DispatchAccounted ==
    db.status # "running" /\ ~db.cancel /\ db.access => Accounted(ledger)

\* Nothing is left to settle, also of a call that was never dispatched.
Explained(l) ==
    /\ l.intent \notin {"prepared", "dispatching"}
    /\ l.effect \notin {"none", "intended"}
    /\ l.call \notin {"pending", "running"}

(* DispatchAccounted made inductive: a decision that is no withdrawal comes    *)
(* from a worker that left the ledgers settled, and the intent is the last of  *)
(* them.                                                                       *)
Accounts ==
    /\ db.approval = "approved"
    /\ (db.status # "running" \/ db.intent # "none") /\ ~db.cancel /\ db.access
          => Explained(ledger)
    /\ ledger.intent \notin {"prepared", "dispatching"} => Explained(ledger)
    /\ \A w \in Workers :
          /\ worker[w].pc \in {"return", "settleAnswer", "unknownAnswer"} => Explained(ledger)
          /\ worker[w].pc = "unknownIntent" => ledger.call \notin {"pending", "running"}
          /\ worker[w].pc = "cancel" => db.cancel
          /\ worker[w].pc = "reject" => ~db.access

(* What holds of the ledgers while intents do not expire and all workers have  *)
(* the same registration, whichever of them stall or die.                      *)
LedgersInv == NothingFails /\ Accounts

(* An approved Tool Call is decided, although workers die in the middle of it. Unless the *)
(* adapter refused it as expired or changed: when one of the ledger updates that follow   *)
(* the refusal fails, no retry gets past it.                                              *)
ContinuationDecides ==
    db.cont.status \in {"ready", "running"} ~>
        (db.status # "running" \/ db.intent # "none" \/ ledger.effect = "failed")
==============================================================================

------------------------------ MODULE GatewayTurn ------------------------------
(* One turn Operation from operation.accepted to its terminal event or to its  *)
(* suspension: GatewayService.handle (packages/gateway-runtime) racing the     *)
(* Turn runner against a cancellation signal, the runner settling the answer   *)
(* on its own, the control plane of other requests, and GatewayStore under     *)
(* them.  The runner is modelled by what it may offer and settle; it keeps     *)
(* running after the loop gave it up (iterator.return is not awaited).         *)
EXTENDS GatewayStore, FiniteSets

CONSTANTS
    FaultKinds,   \* subset of {"rollback", "lost_ack", "crash"}
    MaxFaults     \* bound on their number

ASSUME FaultsAssumption ==
    FaultKinds \subseteq {"rollback", "lost_ack", "crash"} /\ MaxFaults \in Nat

VARIABLES
    handle,    \* [pc, event, terminalSeen, approvalPending]: the handle loop
    runner,    \* what the runner does next; .overtook is history: it settled while
               \* a store transaction was past its reconciliation
    attached,  \* the loop still consumes the runner
    signal,    \* the AbortSignal of the cancellation registry
    faults     \* failures so far

turn == <<handle, runner, attached, signal>>
vars == <<store, turn, faults>>

Offers == Outcomes \cup {"message.citation", "approval.required", "extension"}

TypeOK ==
    /\ db \in Facts
    /\ tx \in {Idle} \cup [op : {"append"}, event : Events]
                     \cup [op : {"requestCancellation"}]
    /\ handle \in [pc : {"race", "append", "catch", "recover", "last", "closed"},
                   event : {"none"} \cup Events,
                   terminalSeen : BOOLEAN, approvalPending : BOOLEAN]
    /\ runner \in [pc : {"working", "completing", "failing", "cancelling", "offering",
                         "threw", "done"},
                   offer : {"none"} \cup Offers, cites : BOOLEAN,
                   overtook : BOOLEAN]
    /\ attached \in BOOLEAN /\ signal \in BOOLEAN
    /\ faults \in 0..MaxFaults

Init ==
    /\ db = NewFacts
    /\ tx = Idle
    /\ handle = [pc |-> "race", event |-> "none", terminalSeen |-> FALSE,
                 approvalPending |-> FALSE]
    /\ runner \in [pc : {"working"}, offer : {"none"}, cites : BOOLEAN, overtook : {FALSE}]
    /\ attached = TRUE
    /\ signal = FALSE
    /\ faults = 0

Fault(kind) == kind \in FaultKinds /\ faults < MaxFaults /\ faults' = faults + 1

-------------------------------------------------------------------------------
(* The runner.  Terminals are settled before they are offered, and so are the  *)
(* citations of an answer (completion.ts yields what settle returned).         *)

Runner(pc, offer) == runner' = [runner EXCEPT !.pc = pc, !.offer = offer]
Settles(pc, offer) ==
    runner' = [runner EXCEPT !.pc = pc, !.offer = offer, !.overtook = @ \/ tx # Idle]

\* The engine reaches its end: an answer, a failure, a cancellation it has seen
\* in the database, a Tool Call to approve, or an event no client asked for.
runnerDecides ==
    /\ runner.pc = "working"
    /\ \/ Runner("completing", "none") \/ Runner("failing", "none")
       \/ db.cancel /\ Runner("cancelling", "none")
       \/ attached /\ Runner("offering", "approval.required")
       \/ attached /\ Runner("offering", "extension")
       \/ ~attached /\ Runner("done", "none")
    /\ UNCHANGED <<store, handle, attached, signal, faults>>

Settling == [completing |-> "completed", failing |-> "RUNTIME_FAILED",
             cancelling |-> "cancelled"]

\* lifecycle.settle; any error sends the runner to its catch, which settles a
\* failure, and an error there leaves the generator.
settle ==
    /\ runner.pc \in DOMAIN Settling
    /\ LET outcome == Settling[runner.pc]
           results == settlePlatformTurn(db, outcome)
           caught == IF runner.pc = "failing" THEN "threw" ELSE "failing"
       IN  \/ /\ db' \in results
              /\ IF ~attached THEN Settles("done", "none")
                 ELSE Settles("offering", IF runner.cites /\ outcome = "completed"
                                          THEN "message.citation" ELSE outcome)
              /\ UNCHANGED faults
           \/ results = {} /\ Runner(caught, "none") /\ UNCHANGED <<db, faults>>
           \/ Fault("rollback") /\ Runner(caught, "none") /\ UNCHANGED db
           \/ Fault("lost_ack") /\ db' \in results /\ Settles(caught, "none")
    /\ UNCHANGED <<tx, handle, attached, signal>>

-------------------------------------------------------------------------------
(* GatewayService.handle.                                                      *)

Race == handle.pc = "race"
Handle(pc, event, seen) ==
    handle' = [handle EXCEPT !.pc = pc, !.event = event, !.terminalSeen = seen]

\* Promise.race picks the signal: give the runner up, write the cancellation.
raceAborted ==
    /\ Race /\ signal
    /\ attached' = FALSE
    /\ Handle("append", "cancelled", TRUE)
    /\ UNCHANGED <<store, runner, signal, faults>>

\* It picks an event of the runner.
raceEvent ==
    /\ Race /\ runner.pc = "offering"
    /\ IF runner.offer = "extension"
       THEN Handle("append", "CAPABILITY_UNAVAILABLE", TRUE) /\ attached' = FALSE
       ELSE Handle("append", runner.offer, FALSE) /\ UNCHANGED attached
    /\ IF runner.offer = "message.citation" THEN Runner("offering", "completed")
                                            ELSE Runner("done", "none")
    /\ UNCHANGED <<store, signal, faults>>

\* A delta changes no modelled fact, but its append can fail; the runner stays
\* suspended at that yield.
deltaFails ==
    /\ Race /\ runner.pc = "working"
    /\ Fault("rollback")
    /\ Runner("done", "none")
    /\ Handle("catch", "RUNTIME_FAILED", FALSE)
    /\ UNCHANGED <<store, attached, signal>>

\* The runner ended; without a terminal or an approval the turn failed.
raceDone ==
    /\ Race /\ runner.pc = "done"
    /\ IF handle.approvalPending THEN Handle("closed", "none", FALSE)
                                 ELSE Handle("last", "RUNTIME_FAILED", FALSE)
    /\ UNCHANGED <<store, runner, attached, signal, faults>>

raceThrow ==
    /\ Race /\ runner.pc = "threw"
    /\ Handle("catch", "RUNTIME_FAILED", FALSE)
    /\ UNCHANGED <<store, runner, attached, signal, faults>>

HandleAppend == [op |-> "append", event |-> handle.event]

appendBegins ==
    /\ handle.pc \in {"append", "catch", "last"}
    /\ Begins(HandleAppend)
    /\ UNCHANGED <<turn, faults>>

\* Mutant: the loop stays at the event that it appended.
AppendedForgets ==
    IF handle.event \in Outcomes THEN Handle("closed", "none", TRUE)
    ELSE Handle("append", "none", FALSE)

Appended ==
    IF handle.event \in Outcomes THEN Handle("closed", "none", TRUE)
    ELSE handle' = [handle EXCEPT !.pc = "race", !.event = "none",
                                  !.approvalPending = @ \/ handle.event = "approval.required"]

\* Mutant: a failed append ends the loop.
AppendThrewOut == Handle("closed", "none", handle.terminalSeen)

\* A failed append is caught only while no terminal was announced.
AppendThrew ==
    CASE handle.pc = "append" /\ ~handle.terminalSeen -> Handle("catch", "RUNTIME_FAILED", FALSE)
      [] handle.pc = "catch" -> Handle("recover", "none", TRUE)
      [] OTHER -> Handle("closed", "none", handle.terminalSeen)

append ==
    /\ handle.pc \in {"append", "catch", "last"}
    /\ \/ Commits(HandleAppend) /\ Appended /\ UNCHANGED faults
       \/ Throws(HandleAppend) /\ AppendThrew /\ UNCHANGED faults
       \/ Fault("rollback") /\ RollsBack(HandleAppend) /\ AppendThrew
       \/ Fault("lost_ack") /\ Commits(HandleAppend) /\ AppendThrew
    /\ UNCHANGED <<runner, attached, signal>>

Reading == [op |-> "read"]

\* The read inside the catch: whatever it derives is committed.
recover ==
    /\ handle.pc = "recover"
    /\ tx = Idle
    /\ IF db.access /\ ~conflicts(db) THEN db' = reconciled(db) ELSE UNCHANGED db
    /\ Handle("closed", "none", TRUE)
    /\ UNCHANGED <<tx, runner, attached, signal, faults>>

\* The Gateway process dies: loop, runner, signal and open transaction with it.
crash ==
    /\ handle.pc # "closed" \/ runner.pc \notin {"threw", "done"}
    /\ Fault("crash")
    /\ tx' = IF tx = HandleAppend THEN Idle ELSE tx
    /\ Handle("closed", "none", handle.terminalSeen)
    /\ Runner("done", "none")
    /\ attached' = FALSE
    /\ UNCHANGED <<db, signal>>

-------------------------------------------------------------------------------
(* Other requests, in this process or in another one.                          *)

Cancelling == [op |-> "requestCancellation"]

cancellationBegins ==
    /\ db.access
    /\ Begins(Cancelling)
    /\ UNCHANGED <<turn, faults>>

\* The signal fires when the request reached the process that runs the loop.
requestCancel ==
    /\ db.access
    /\ \/ Commits(Cancelling) /\ signal' \in {signal, signal \/ handle.pc # "closed"}
       \/ Throws(Cancelling) /\ UNCHANGED signal
    /\ UNCHANGED <<handle, runner, attached, faults>>

resolve(status) ==
    /\ db.access
    /\ Commits([op |-> "resolveApproval", status |-> status])
    /\ UNCHANGED <<turn, faults>>

\* describe, listRecent, listEvents, and begin for an idempotent replay.
read ==
    /\ db.access
    /\ reconciled(db) # db
    /\ Commits(Reading)
    /\ UNCHANGED <<turn, faults>>

expire ==
    /\ ~db.expired
    /\ db' = [db EXCEPT !.expired = TRUE]
    /\ UNCHANGED <<tx, turn, faults>>

\* The membership row is locked while a cancellation is under way.
revokeAccess ==
    /\ db.access
    /\ tx # Cancelling
    /\ db' = [db EXCEPT !.access = FALSE]
    /\ UNCHANGED <<tx, turn, faults>>

-------------------------------------------------------------------------------
RunnerStep == runnerDecides \/ settle
HandleStep ==
    raceAborted \/ raceEvent \/ raceDone \/ raceThrow \/ appendBegins \/ append \/ recover

Next ==
    \/ RunnerStep \/ HandleStep
    \/ cancellationBegins \/ requestCancel
    \/ \E status \in {"approved", "denied"} : resolve(status)
    \/ read \/ expire \/ revokeAccess \/ deltaFails \/ crash

\* A transaction that holds the lock ends, the runner goes on, and the loop is
\* not starved of the lock (strong: PostgreSQL queues the waiters of a lock).  No
\* fairness on new requests, reads, expiry or faults.
Fairness ==
    WF_vars(RunnerStep) /\ SF_vars(HandleStep) /\ WF_vars(requestCancel /\ tx # Idle)

Spec == Init /\ [][Next]_vars /\ Fairness
-------------------------------------------------------------------------------
(* One terminal event, the last one, exactly when the Operation is terminal,   *)
(* though the loop, a reader, the canceller and the approver all write it.     *)
TerminalUnique == OneTerminalEvent(db)

(* The answer that the runner settled and the Operation never contradict each  *)
(* other, so reconciliation never finds facts it has to refuse.                *)
SettledAnswerStands == AnswerAgrees(db) /\ ~conflicts(db)

(* They contradict each other in one case only: a settlement committed between *)
(* the reconciliation of a store transaction and its write.                    *)
ContradictedOnlyInWindow == ~runner.overtook => SettledAnswerStands

(* An Operation whose loop knows of its approval request, and that ended,      *)
(* leaves no continuation a worker could resume, and no approval a user could  *)
(* still decide.                                                               *)
NothingLeftToResume ==
    handle.approvalPending /\ db.status # "running"
        => db.cont.status \notin Active /\ db.approval # "pending"

(* Approval, continuation and queue tell one story: undecided while it waits,  *)
(* approved with a job once it is ready, never a job without an approval.      *)
ApprovalDrivesContinuation ==
    /\ db.cont.status = "waiting_approval" => db.approval = "pending"
    /\ db.cont.status = "ready" => db.approval = "approved" /\ db.job
    /\ db.job => db.approval = "approved"

(* When no fault hit it, the loop ends only once the Operation is decided: it  *)
(* is terminal, its terminal intent is durable, or it waits for an approval.   *)
Decided == db.status # "running" \/ db.intent # "none" \/ db.cont.status \in Active
LoopLeavesDecided == handle.pc = "closed" /\ faults = 0 => Decided

(* Every citation that settled with the answer reaches the event stream.       *)
CitationsInStream ==
    db.status = "completed" /\ runner.cites
        => \E i \in DOMAIN db.events : db.events[i] = "message.citation"

(* What a client has read stays: the stream only grows, and a terminal status  *)
(* is final.                                                                   *)
HistoryKept == [][Extends(db, db')]_vars

(* Runner, loop, canceller, approver and readers, with their faults, look to a *)
(* client like the abstract lifecycle of an Operation.                         *)
ImplementsLifecycle == Lifecycle!Spec

(* An approval, however late and whoever else is at the turn, hands exactly    *)
(* the facts over to the worker that it expects to start from.                 *)
HandsOver ==
    [][db.approval # "approved" /\ db'.approval = "approved" => db' = ApprovedFacts]_vars

\* The approval request is still with the engine or with the loop.
Asking ==
    \/ runner.pc = "working"
    \/ runner.pc = "offering" /\ runner.offer = "approval.required"
    \/ handle.pc = "append" /\ handle.event = "approval.required"

(* Nobody settles an answer before the request for an approval is recorded, or *)
(* after it: the runner is suspended, and nothing but the approval, a          *)
(* cancellation or a loop that never learnt of the request ends the Operation. *)
Suspension ==
    /\ db.approval = "pending" => db.cont.status = "waiting_approval"
    /\ db.cont.status # "running"
    /\ signal => db.cancel \/ db.status # "running"
    /\ Asking => db.intent = "none"
    /\ handle.pc = "append" /\ handle.event = "approval.required"
          => runner.pc = "done" /\ ~handle.approvalPending
    /\ db.cont.status # "absent" => runner.pc = "done" /\ db.intent = "none"
    /\ db.cont.status \in Active => ~db.cancel
    /\ db.cont.status # "absent" =>
          \/ handle.approvalPending
          \/ "lost_ack" \in FaultKinds /\ handle.pc \in {"catch", "recover", "closed"}
    /\ handle.approvalPending =>
          /\ db.cont.status # "absent"
          /\ db.cont.status \in Active =>
                db.status = "running" /\ handle.pc \in {"race", "closed"}

(* A loop that announced a terminal has one to append, and gives up only what  *)
(* is decided: a recorded request, or an append refused by decided facts.      *)
Decision ==
    /\ handle.pc \in {"catch", "last"} => handle.event = "RUNTIME_FAILED"
    /\ handle.pc = "append" /\ handle.terminalSeen => handle.event \in Outcomes
    /\ handle.approvalPending => Decided
    /\ handle.pc \in {"recover", "closed"} /\ faults = 0 => Decided

\* The intent of a running Operation is its answer, and a terminal one tells it.
Consistent(d) ==
    IF d.status = "running"
    THEN d.assistant = IF d.intent = "none" THEN "pending" ELSE d.intent
    ELSE /\ d.intent = "none"
         /\ d.assistant # "pending" => StatusOf(d.assistant) = d.status
         /\ d.status = "completed" => d.assistant # "pending"

(* What makes ContradictedOnlyInWindow inductive: the loop announces a         *)
(* completion only of a settled answer, and while nobody overtakes it, a       *)
(* transaction past its reconciliation writes over no intent.                  *)
Answers ==
    /\ handle.pc = "append" /\ handle.event \in {"completed", "message.citation"}
          => db.assistant = "completed"
    /\ runner.pc = "offering" /\ runner.offer \in {"completed", "message.citation"}
          => db.assistant = "completed"
    /\ ~runner.overtook => /\ Consistent(db)
                           /\ tx # Idle /\ db.status = "running" => db.intent = "none"

\* Nobody has claimed the continuation yet.
Unclaimed(c) == c.owner = NoOwner /\ c.gen = 0 /\ c.expires = 0 /\ c.failure = "none"

(* What the refinement rests on: the stream of a running Operation tells how   *)
(* far it is, its intent is its answer, and a continuation exists from the     *)
(* request for an approval on, unclaimed until the approval is decided.        *)
Telling ==
    /\ Lifecycle!Coherent
    /\ db.status = "running" =>
          db.assistant = IF db.intent = "none" THEN "pending" ELSE db.intent
    /\ db.approval = "none" <=> db.cont.status = "absent"
    /\ db.status = "running" /\ db.approval \in {"none", "pending"} => Unclaimed(db.cont)

(* The inductive invariant: an append has an event of the loop's own, an offer *)
(* has a content, and the job of an Operation that still runs is the one of a  *)
(* ready continuation, so that no second approval can be asked for over it;    *)
(* and the four above.                                                         *)
IInv ==
    /\ TypeOK
    /\ TerminalUnique
    /\ ApprovalDrivesContinuation
    /\ db.job /\ db.status = "running" => db.cont.status = "ready"
    /\ handle.pc \in {"append", "catch", "last"}
          => handle.event \notin {"none", "approval.resolved"}
    /\ runner.pc = "offering" => runner.offer # "none"
    /\ Suspension /\ Decision /\ Answers /\ Telling

(* A recorded cancellation gets the Operation decided while its loop is alive, *)
(* without anyone reading it.                                                  *)
CancellationDecides ==
    db.cancel /\ handle.pc # "closed"
        ~> (db.status # "running" \/ db.intent # "none" \/ faults > 0)
==============================================================================

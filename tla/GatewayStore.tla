----------------------------- MODULE GatewayStore -----------------------------
(* packages/db/src/gateway: the durable facts of ONE turn Operation and the    *)
(* transactions of GatewayOperationStore on them.  A transaction of the store  *)
(* holds the advisory lock gateway-event-v1:<operation>; the settlement of the *)
(* assistant message (platform-turn-settlement-repository.ts) does not, so it  *)
(* can commit in the middle of one.  A transaction that reconciles first and   *)
(* writes afterwards is therefore two steps, Begins and Commits, unless its    *)
(* reconciliation already wrote the row that the settlement has to update.     *)
EXTENDS ContinuationRow, Sequences

CONSTANT Workers     \* lease owner ids

VARIABLES
    db,    \* the facts, see Facts
    tx     \* the transaction that holds the lock half-way, or Idle

store == <<db, tx>>

Failures == {"RUNTIME_FAILED", "CAPABILITY_UNAVAILABLE", "FORBIDDEN", "APPROVAL_DENIED"}
Outcomes == {"completed", "cancelled"} \cup Failures
Events == {"message.citation", "approval.required", "approval.resolved"} \cup Outcomes

ContinuationFailures ==
    {"none", "reauthorization_failed", "approval_denied", "adapter_failed"}

\* normalizeOperationStatus of a terminal event or of a terminal intent.
StatusOf(outcome) == IF outcome \in Failures THEN "failed" ELSE outcome

Continuations == [status : {"absent"} \cup Active \cup Terminal,
                  owner : Workers \cup {NoOwner}, gen : Nat,
                  expires : {0, 1},                \* 1: the lease is live
                  failure : ContinuationFailures]

Facts == [status : {"running"} \cup Terminal,      \* agent_operations.status
          cancel : BOOLEAN,                        \* .cancel_requested_at
          intent : {"none"} \cup Outcomes,         \* .failure_code holding an intent
          events : Seq(Events),                    \* gateway_operation_events
          assistant : {"pending"} \cup Outcomes,   \* conversation_messages
          approval : {"none", "pending", "approved", "denied", "revoked"},
          expired : BOOLEAN,                       \* tool intent / approval expires_at
          cont : Continuations,                    \* operation_continuations
          access : BOOLEAN,                        \* current membership
          job : BOOLEAN]                           \* its Graphile job is queued

NewFacts == [status |-> "running", cancel |-> FALSE, intent |-> "none",
             events |-> <<>>, assistant |-> "pending", approval |-> "none",
             expired |-> FALSE,
             cont |-> [status |-> "absent", owner |-> NoOwner, gen |-> 0,
                       expires |-> 0, failure |-> "none"],
             access |-> TRUE, job |-> FALSE]

\* The facts of a turn whose Tool Call has just been approved.
ApprovedFacts ==
    [NewFacts EXCEPT !.events = <<"approval.required", "approval.resolved">>,
                     !.approval = "approved", !.cont.status = "ready", !.job = TRUE]

Idle == [op |-> "idle"]

\* Sequence numbers of the terminal events, and whether e is the only one.
terminalEvents(d) == {i \in DOMAIN d.events : d.events[i] \in Outcomes}
OnlyTerminal(d, e) == \E i \in DOMAIN d.events : terminalEvents(d) = {i} /\ d.events[i] = e

-------------------------------------------------------------------------------
(* reconcileGatewayTerminalWithinTransaction: conflicting facts throw, missing *)
(* ones are derived.                                                           *)

conflicts(d) ==
    IF d.intent = "none"
    THEN IF d.status = "running" THEN terminalEvents(d) # {}
         ELSE \/ ~\E e \in Outcomes : OnlyTerminal(d, e) /\ StatusOf(e) = d.status
              \/ d.assistant = "pending" /\ d.status = "completed"
              \/ d.assistant # "pending" /\ StatusOf(d.assistant) # d.status
    ELSE \/ StatusOf(d.assistant) # StatusOf(d.intent)
         \/ IF d.status = "running" THEN terminalEvents(d) # {}
            ELSE ~OnlyTerminal(d, d.intent)

\* agent_operations.failure_code is overwritten: the intent is gone.
terminated(d, outcome) ==
    [d EXCEPT !.status = StatusOf(outcome), !.intent = "none",
              !.events = Append(@, outcome)]

reconciled(d) ==
    IF d.intent # "none" /\ d.status = "running" THEN terminated(d, d.intent)
    ELSE IF d.status # "running" /\ d.assistant = "pending"
         THEN [d EXCEPT !.assistant = CHOOSE e \in Outcomes : OnlyTerminal(d, e)]
         ELSE d

-------------------------------------------------------------------------------
(* Transaction bodies.  Each maps the facts to the set of its results: none    *)
(* when the code throws and the transaction is rolled back.                    *)

\* Mutant: a terminal Operation takes a terminal event like any other.
appendAgain(d, e) ==
    IF e \in Outcomes THEN {terminated(d, e)} ELSE {[d EXCEPT !.events = Append(@, e)]}

appendGatewayOperationEvent(d, e) ==
    IF d.status # "running"
    THEN IF e \in Outcomes /\ OnlyTerminal(d, e) THEN {d} ELSE {}
    ELSE CASE e \in Outcomes -> {terminated(d, e)}
           [] e = "message.citation" -> {[d EXCEPT !.events = Append(@, e)]}
           [] e = "approval.required" ->
                IF d.cancel \/ d.expired \/ d.cont.status \in Active THEN {}
                ELSE {[d EXCEPT !.events = Append(@, e), !.approval = "pending",
                                !.cont.status = "waiting_approval"]}
           [] e = "approval.resolved" ->
                IF d.approval # "pending" THEN {}
                ELSE {[d EXCEPT !.events = Append(@, e)]}

\* Mutant: the pending approval is forgotten.
cancelContinuationOnly(d, statuses) ==
    IF d.cont.status \notin statuses THEN {}
    ELSE appendGatewayOperationEvent(
           [d EXCEPT !.cont = Unleased(d.cont, "cancelled", "none")], "cancelled")

cancelContinuationWithinTransaction(d, statuses) ==
    IF d.cont.status \notin statuses THEN {}
    ELSE appendGatewayOperationEvent(
           [d EXCEPT !.cont = Unleased(d.cont, "cancelled", "none"),
                     !.approval = IF @ = "pending" THEN "revoked" ELSE @],
           "cancelled")

\* GatewayOperationStore.cancelContinuation: no reconciliation.
cancelContinuation(d) ==
    IF d.status # "running" \/ ~d.cancel THEN {}
    ELSE cancelContinuationWithinTransaction(d, Active)

\* GatewayOperationStore.rejectContinuationAuthorization: no reconciliation.
rejectContinuationAuthorization(d) ==
    IF ~Claimable(d.cont, 0) \/ d.status # "running" THEN {}
    ELSE appendGatewayOperationEvent(
           [d EXCEPT !.cont = Unleased(d.cont, "failed", "reauthorization_failed")],
           "FORBIDDEN")

\* Mutant: the job is not added in the transaction.
markReadyOnly(d) == [d EXCEPT !.cont.status = "ready"]

\* The continuation becomes ready together with its Graphile job.
markReadyAndEnqueue(d) == [d EXCEPT !.cont.status = "ready", !.job = TRUE]

\* resolveGatewayApproval; the approved branch also enqueues the worker's job.
resolveApproval(d, status) ==
    IF d.expired \/ d.approval # "pending" THEN {}
    ELSE LET resolved == {[r EXCEPT !.approval = status] :
                            r \in appendGatewayOperationEvent(d, "approval.resolved")}
             waiting == d.cont.status = "waiting_approval"
         IN  IF status = "denied"
             THEN UNION {appendGatewayOperationEvent(
                           IF waiting
                           THEN [r EXCEPT !.cont = Unleased(r.cont, "failed", "approval_denied")]
                           ELSE r,
                           "APPROVAL_DENIED") : r \in resolved}
             ELSE IF ~waiting THEN {}
             ELSE {markReadyAndEnqueue(r) : r \in resolved}

\* requestCurrentGatewayOperationCancellation.
requestCancellation(d) ==
    IF d.status # "running" THEN {d}
    ELSE LET asked == [d EXCEPT !.cancel = TRUE]
         IN  IF d.cont.status \in {"waiting_approval", "ready"}
             THEN cancelContinuationWithinTransaction(asked, {"waiting_approval", "ready"})
             ELSE {asked}

\* GatewayOperationStore.settleContinuation.
settleContinuation(d, owner, gen, outcome) ==
    IF d.status # "running" /\ d.status # StatusOf(outcome) THEN {}
    ELSE IF d.status = "running" /\ d.cancel
    THEN IF d.cont.owner # owner \/ d.cont.gen # gen THEN {}
         ELSE cancelContinuationWithinTransaction(d, {"running"})
    ELSE IF \/ outcome = "completed" /\ d.assistant # "completed"
            \/ ~HeldBy(d.cont, owner, gen, 0)
         THEN {}
         ELSE appendGatewayOperationEvent(
                [d EXCEPT !.cont = Unleased(d.cont, StatusOf(outcome),
                             IF outcome = "completed" THEN "none" ELSE "adapter_failed")],
                outcome)

body(d, t) ==
    CASE t.op = "append" -> appendGatewayOperationEvent(d, t.event)
      [] t.op = "read" -> {d}
      [] t.op = "requestCancellation" -> requestCancellation(d)
      [] t.op = "resolveApproval" -> resolveApproval(d, t.status)
      [] t.op = "cancelContinuation" -> cancelContinuation(d)
      [] t.op = "rejectContinuationAuthorization" -> rejectContinuationAuthorization(d)
      [] t.op = "settleContinuation" -> settleContinuation(d, t.owner, t.gen, t.outcome)

\* Mutant: only readers reconcile.
ReconcilesWhenRead(t) == t.op = "read"

\* The transactions that reconcile terminal facts before they do anything else.
Reconciles(t) == t.op \in {"append", "read", "requestCancellation", "settleContinuation"}

Results(d, t) ==
    IF ~Reconciles(t) THEN body(d, t)
    ELSE IF conflicts(d) THEN {} ELSE body(reconciled(d), t)

-------------------------------------------------------------------------------
(* How a transaction runs.                                                     *)

\* It took the lock and its reconciliation found nothing to write.
Begins(t) ==
    /\ tx = Idle
    /\ Reconciles(t) /\ ~conflicts(db) /\ reconciled(db) = db
    /\ tx' = t
    /\ UNCHANGED db

Finishing(t) ==
    /\ \/ tx = t
       \/ tx = Idle /\ (~Reconciles(t) \/ conflicts(db) \/ reconciled(db) # db)
    /\ tx' = Idle

Pending(t) == IF tx = t THEN body(db, t) ELSE Results(db, t)

Commits(t) == Finishing(t) /\ db' \in Pending(t)
Throws(t) == Finishing(t) /\ Pending(t) = {} /\ UNCHANGED db
RollsBack(t) == tx \in {Idle, t} /\ tx' = Idle /\ UNCHANGED db

-------------------------------------------------------------------------------
(* settlePlatformTurn for a turn that the Gateway terminates.  It takes no     *)
(* event lock; its statements on the assistant row and on the running          *)
(* Operation are conditional, so the whole transaction is one step.            *)

settlePlatformTurn(d, outcome) ==
    IF \/ ~d.access
       \/ outcome = "cancelled" /\ ~d.cancel
       \/ d.status # "running" /\ ~OnlyTerminal(d, outcome)
       \/ d.assistant \notin {"pending", outcome}
       \/ d.status = "running" /\ d.assistant # "pending" /\ d.intent \notin {"none", outcome}
    THEN {}
    ELSE {[d EXCEPT !.assistant = outcome,
                    !.intent = IF d.status = "running" THEN outcome ELSE @]}

-------------------------------------------------------------------------------
(* What every reader of the Operation relies on.                               *)

\* What a client has read stays: r is d, or d with more events if d was running.
Extends(d, r) ==
    /\ SubSeq(r.events, 1, Len(d.events)) = d.events
    /\ d.status # "running" => r.status = d.status /\ r.events = d.events

(* The terminal event is unique and last, and is there exactly when the        *)
(* Operation is terminal, whichever of the loop, the control plane, a reader   *)
(* or the worker wrote it.                                                     *)
OneTerminalEvent(d) ==
    IF d.status = "running" THEN terminalEvents(d) = {}
    ELSE /\ terminalEvents(d) = {Len(d.events)}
         /\ StatusOf(d.events[Len(d.events)]) = d.status

\* What of the facts a client gets to see, whose life OperationLifecycle tells.
Lifecycle == INSTANCE OperationLifecycle WITH
    status <- db.status, approval <- db.approval,
    answered <- (db.assistant = "completed"), stream <- db.events

\* A settled answer and the Operation tell the user the same story.
AnswerAgrees(d) ==
    d.status # "running" /\ d.assistant # "pending" => StatusOf(d.assistant) = d.status
==============================================================================

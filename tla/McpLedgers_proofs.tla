--------------------------- MODULE McpLedgers_proofs ---------------------------
(* TLAPS proofs that the three ledgers of an approved Tool Call tell the truth *)
(* about it and account for what was dispatched, for any number of workers     *)
(* that may hold it at the same time, of faults at any statement and of        *)
(* attempts, as long as intents do not expire.                                 *)
EXTENDS McpContinuation_proofs

NoExpiry == "expire" \notin Hazards
OneRegistration == "unregistered" \notin Hazards

StatementPcs == AdapterPcs \ {"open", "callTool", "reconcile", "settleAnswer", "unknownAnswer"}

-------------------------------------------------------------------------------
(* One statement.                                                              *)

\* Nothing that a worker may rely on is taken back.
Advances(l, r) ==
    /\ l.effect # "none" => r.effect # "none"
    /\ l.intent # "prepared" => r.intent # "prepared"
    /\ l.dispatched > 0 => r.dispatched > 0
    /\ l.effect = "committed" => r.effect = "committed"
    /\ l.call = "succeeded" => r.call = "succeeded"
    /\ l.intent = "completed" => r.intent = "completed"
    /\ l.effect \in Refuted => r.effect \in Refuted

(* What one worker relies on survives the statements of the others.            *)
LEMMA AgreementSurvives ==
    ASSUME NEW l, NEW r, NEW pc, Advances(l, r), AgreesWith(l, pc)
    PROVE  AgreesWith(r, pc)
  BY DEF Advances, AgreesWith

LEMMA AdvancesReflexive == ASSUME NEW l PROVE Advances(l, l)
  BY DEF Advances

LEMMA CallSettled ==
    ASSUME NEW l \in Ledgers, InOrder(l), NEW st \in {"succeeded", "failed", "outcome_unknown"},
           l.effect # "none",
           st = "succeeded" => l.effect = "committed",
           st # "succeeded" => l.effect \in Refuted,
           NEW r \in callSettle(l, st)
    PROVE  /\ Advances(l, r) /\ InOrder(r) /\ r.effect = l.effect /\ r.intent = l.intent
           /\ r.dispatched = l.dispatched
           /\ st = "succeeded" => r.call = "succeeded"
<1>1. r = IF l.call = "running" THEN [l EXCEPT !.call = st] ELSE l
  BY DEF callSettle
<1>2. /\ r.effect = l.effect /\ r.intent = l.intent /\ r.dispatched = l.dispatched
      /\ r.call = IF l.call = "running" THEN st ELSE l.call
  BY <1>1 DEF Ledgers
<1>3. l.call \in {"running", "succeeded"} \cup Refuted
  BY DEF Ledgers, InOrder, Refuted
<1> QED
  BY <1>2, <1>3 DEF Advances, InOrder, Refuted

LEMMA IntentSettled ==
    ASSUME NEW l \in Ledgers, InOrder(l), NEW st \in {"completed", "failed", "outcome_unknown"},
           l.effect # "none",
           st = "completed" => l.call = "succeeded" /\ l.intent # "prepared",
           st # "completed" => l.effect \in Refuted,
           NEW r \in intentSettle(l, st)
    PROVE  /\ Advances(l, r) /\ InOrder(r) /\ r.effect = l.effect /\ r.call = l.call
           /\ r.dispatched = l.dispatched
           /\ st = "completed" => r.intent = "completed"
<1> DEFINE settles == l.intent \in (IF st = "failed" THEN {"prepared", "dispatching"}
                                                    ELSE {"dispatching"})
<1>1. r = IF settles THEN [l EXCEPT !.intent = st] ELSE l
  BY DEF intentSettle
<1>2. /\ r.effect = l.effect /\ r.call = l.call /\ r.dispatched = l.dispatched
      /\ r.intent = IF settles THEN st ELSE l.intent
  BY <1>1 DEF Ledgers
<1>3. l.intent \in {"prepared", "dispatching", "completed"} \cup Refuted
  BY DEF Ledgers, Refuted
<1>4. st = "completed" => l.intent \in {"dispatching", "completed"}
  BY <1>3 DEF InOrder, Refuted
<1> QED
  BY <1>2, <1>3, <1>4 DEF Advances, InOrder, Refuted

LEMMA EffectSettled ==
    ASSUME NEW l \in Ledgers, InOrder(l), NEW st \in {"committed", "failed", "outcome_unknown"},
           st = "committed" => l.dispatched > 0,
           NEW r \in effectSettle(l, st)
    PROVE  /\ Advances(l, r) /\ InOrder(r) /\ r.effect = st /\ r.call = l.call
           /\ r.intent = l.intent /\ r.dispatched = l.dispatched
<1>1. l.effect \in {"intended", st}
  BY DEF effectSettle
<1>2. r = l \/ (l.effect = "intended" /\ r = [l EXCEPT !.effect = st])
  BY DEF effectSettle
<1>3. /\ r.effect = st /\ r.call = l.call /\ r.intent = l.intent /\ r.dispatched = l.dispatched
  BY <1>1, <1>2 DEF effectSettle, Ledgers
<1> QED
  BY <1>1, <1>3 DEF Advances, InOrder, Refuted

(* Every statement keeps the ledgers in order, takes nothing back, and makes   *)
(* sure of what the next statement of its worker relies on.                    *)
LEMMA StatementAgrees ==
    ASSUME NEW l \in Ledgers, InOrder(l), NEW pc \in StatementPcs, AgreesWith(l, pc),
           NEW valid, NEW r \in Statement(l, pc)
    PROVE  Advances(l, r) /\ InOrder(r) /\ AgreesWith(r, Successor(pc, valid))
<1>1. CASE pc = "markRunning"
  <2>1. r \in markRunning(l)
    BY <1>1 DEF Statement
  <2>2. r.effect = l.effect /\ r.intent = l.intent /\ r.dispatched = l.dispatched
        /\ r.call = IF l.call = "pending" THEN "running" ELSE l.call
    BY <2>1 DEF markRunning, Ledgers
  <2>3. Successor(pc, valid) = "intend"
    BY <1>1 DEF Successor, Then
  <2> QED
    BY <2>2, <2>3 DEF Advances, InOrder, AgreesWith, Refuted
<1>2. CASE pc = "intend"
  <2>1. r \in effectIntend(l) /\ l.call = "running"
    BY <1>2 DEF Statement, effectIntend
  <2>2. r.call = l.call /\ r.intent = l.intent /\ r.dispatched = l.dispatched
        /\ r.effect = IF l.effect = "none" THEN "intended" ELSE l.effect
    BY <2>1 DEF effectIntend, Ledgers
  <2>3. Successor(pc, valid) \in {"dispatch", "failEffect"}
    BY <1>2 DEF Successor
  <2> QED
    BY <2>1, <2>2, <2>3 DEF Advances, InOrder, AgreesWith, Refuted
<1>3. CASE pc = "failEffect"
  <2>1. r \in effectSettle(l, "failed")
    BY <1>3 DEF Statement
  <2>2. Advances(l, r) /\ InOrder(r) /\ r.effect = "failed"
    BY <2>1, EffectSettled
  <2>3. Successor(pc, valid) = "failCall"
    BY <1>3 DEF Successor, Then
  <2> QED
    BY <2>2, <2>3 DEF AgreesWith, Refuted
<1>4. CASE pc = "failCall"
  <2>1. r \in callSettle(l, "failed") /\ l.effect # "none" /\ l.effect \in Refuted
    BY <1>4 DEF Statement, AgreesWith, AdapterPcs
  <2>2. Advances(l, r) /\ InOrder(r) /\ r.effect = l.effect
    BY <2>1, CallSettled
  <2>3. Successor(pc, valid) = "failIntent"
    BY <1>4 DEF Successor, Then
  <2> QED
    BY <2>1, <2>2, <2>3 DEF AgreesWith
<1>5. CASE pc = "failIntent"
  <2>1. r \in intentSettle(l, "failed") /\ l.effect # "none" /\ l.effect \in Refuted
    BY <1>5 DEF Statement, AgreesWith, AdapterPcs
  <2>2. Advances(l, r) /\ InOrder(r)
    BY <2>1, IntentSettled
  <2>3. Successor(pc, valid) = "return"
    BY <1>5 DEF Successor, Then
  <2> QED
    BY <2>2, <2>3 DEF AgreesWith, AdapterPcs
<1>6. CASE pc = "dispatch"
  <2>1. r \in markDispatching(l) /\ l.effect # "none"
    BY <1>6 DEF Statement, AgreesWith, AdapterPcs
  <2>2. r.call = l.call /\ r.effect = l.effect /\ r.dispatched = l.dispatched
        /\ r.intent = IF l.intent = "prepared" THEN "dispatching" ELSE l.intent
    BY <2>1 DEF markDispatching, Ledgers
  <2>3. Successor(pc, valid) = "callTool"
    BY <1>6 DEF Successor, Then
  <2> QED
    BY <2>1, <2>2, <2>3 DEF Advances, InOrder, AgreesWith, Refuted
<1>7. CASE pc = "commitEffect"
  <2>1. /\ r \in effectSettle(l, "committed") /\ l.dispatched > 0 /\ l.intent # "prepared"
    BY <1>7 DEF Statement, AgreesWith, AdapterPcs
  <2>2. Advances(l, r) /\ InOrder(r) /\ r.effect = "committed" /\ r.intent = l.intent
    BY <2>1, EffectSettled
  <2>3. Successor(pc, valid) = "succeedCall"
    BY <1>7 DEF Successor, Then
  <2> QED
    BY <2>1, <2>2, <2>3 DEF AgreesWith
<1>8. CASE pc = "succeedCall"
  <2>1. /\ r \in callSettle(l, "succeeded") /\ l.effect = "committed" /\ l.intent # "prepared"
    BY <1>8 DEF Statement, AgreesWith, AdapterPcs
  <2>2. /\ Advances(l, r) /\ InOrder(r) /\ r.effect = "committed" /\ r.intent = l.intent
        /\ r.call = "succeeded"
    BY <2>1, CallSettled
  <2>3. Successor(pc, valid) = "completeIntent"
    BY <1>8 DEF Successor, Then
  <2> QED
    BY <2>1, <2>2, <2>3 DEF AgreesWith
<1>9. CASE pc = "completeIntent"
  <2>1. /\ r \in intentSettle(l, "completed") /\ l.effect = "committed"
        /\ l.intent # "prepared" /\ l.call = "succeeded"
    BY <1>9 DEF Statement, AgreesWith, AdapterPcs
  <2>2. /\ Advances(l, r) /\ InOrder(r) /\ r.effect = "committed" /\ r.intent = "completed"
        /\ r.call = "succeeded"
    BY <2>1, IntentSettled
  <2>3. Successor(pc, valid) = "settleAnswer"
    BY <1>9 DEF Successor, Then
  <2> QED
    BY <2>2, <2>3 DEF AgreesWith
<1>10. CASE pc = "unknownEffect"
  <2>1. r \in effectSettle(l, "outcome_unknown") /\ l.intent # "prepared"
    BY <1>10 DEF Statement, AgreesWith, AdapterPcs
  <2>2. Advances(l, r) /\ InOrder(r) /\ r.effect = "outcome_unknown" /\ r.intent = l.intent
    BY <2>1, EffectSettled
  <2>3. Successor(pc, valid) = "unknownCall"
    BY <1>10 DEF Successor, Then
  <2> QED
    BY <2>1, <2>2, <2>3 DEF AgreesWith, Refuted
<1>11. CASE pc = "unknownCall"
  <2>1. /\ r \in callSettle(l, "outcome_unknown") /\ l.intent # "prepared"
        /\ l.effect # "none" /\ l.effect \in Refuted
    BY <1>11 DEF Statement, AgreesWith, AdapterPcs
  <2>2. Advances(l, r) /\ InOrder(r) /\ r.effect = l.effect /\ r.intent = l.intent
    BY <2>1, CallSettled
  <2>3. Successor(pc, valid) = "unknownIntent"
    BY <1>11 DEF Successor, Then
  <2> QED
    BY <2>1, <2>2, <2>3 DEF AgreesWith
<1>12. CASE pc = "unknownIntent"
  <2>1. /\ r \in intentSettle(l, "outcome_unknown") /\ l.intent # "prepared"
        /\ l.effect # "none" /\ l.effect \in Refuted
    BY <1>12 DEF Statement, AgreesWith, AdapterPcs
  <2>2. Advances(l, r) /\ InOrder(r) /\ r.effect = l.effect
    BY <2>1, IntentSettled
  <2>3. r.intent # "prepared"
    BY <2>1, <2>2 DEF Advances
  <2>4. Successor(pc, valid) = "unknownAnswer"
    BY <1>12 DEF Successor, Then
  <2> QED
    BY <2>1, <2>2, <2>3, <2>4 DEF AgreesWith
<1> QED
  BY <1>1, <1>2, <1>3, <1>4, <1>5, <1>6, <1>7, <1>8, <1>9, <1>10, <1>11, <1>12
     DEF StatementPcs, AdapterPcs

-------------------------------------------------------------------------------
(* The answer and the Operation.                                               *)

Answered(d) == d.status = "completed" \/ d.intent = "completed" => d.assistant = "completed"

\* A transaction of the store does not answer: only the settlement does.
AnswerStep(d, r) ==
    /\ Answered(r)
    /\ r.assistant = "completed" <=> d.assistant = "completed"
    /\ r.expired = d.expired

LEMMA SameAnswer ==
    ASSUME NEW d, NEW r, Answered(d), r.status = d.status, r.intent = d.intent,
           r.assistant = d.assistant, r.expired = d.expired
    PROVE  AnswerStep(d, r)
  BY DEF Answered, AnswerStep

(* A terminal event completes an Operation only if it is operation.completed.  *)
LEMMA TerminatedAnswer ==
    ASSUME NEW d \in Facts, Answered(d), NEW e \in Outcomes,
           e = "completed" => d.assistant = "completed"
    PROVE  AnswerStep(d, terminated(d, e))
<1> DEFINE r == terminated(d, e)
<1>1. /\ r.status = StatusOf(e) /\ r.intent = "none" /\ r.assistant = d.assistant
      /\ r.expired = d.expired
  BY DEF terminated, Facts
<1>2. StatusOf(e) = "completed" => e = "completed"
  BY DEF StatusOf
<1> HIDE DEF r
<1>3. AnswerStep(d, r)
  BY <1>1, <1>2 DEF AnswerStep, Answered
<1> QED
  BY <1>3 DEF r

LEMMA AppendedAnswer ==
    ASSUME NEW d \in Facts, Answered(d), NEW e \in Outcomes,
           e = "completed" => d.assistant = "completed",
           NEW r \in appendGatewayOperationEvent(d, e)
    PROVE  AnswerStep(d, r)
<1>1. e \notin {"message.citation", "approval.required", "approval.resolved"}
  BY DEF Outcomes, Failures
<1>2. r = terminated(d, e) \/ r = d
  BY <1>1 DEF appendGatewayOperationEvent
<1> QED
  BY <1>2, TerminatedAnswer, SameAnswer

(* A reconciliation derives an answer only from a terminal event that an       *)
(* answer must have preceded.                                                  *)
LEMMA ReconciledAnswer ==
    ASSUME NEW d, Sound(d), Answered(d)
    PROVE  AnswerStep(d, reconciled(d))
<1>0. d \in Facts
  BY DEF Sound
<1>1. CASE d.intent # "none" /\ d.status = "running"
  <2>1. d.intent \in Outcomes /\ (d.intent = "completed" => d.assistant = "completed")
    BY <1>0, <1>1 DEF Facts, Answered
  <2> QED
    BY <1>0, <1>1, <2>1, TerminatedAnswer DEF reconciled
<1>2. CASE ~(d.intent # "none" /\ d.status = "running") /\ d.status # "running"
           /\ d.assistant = "pending"
  <2> DEFINE e == CHOOSE e \in Outcomes : OnlyTerminal(d, e)
             r == [d EXCEPT !.assistant = e]
  <2>1. \E o \in Outcomes : OnlyTerminal(d, o)
    BY <1>2 DEF Sound, OneTerminalEvent, OnlyTerminal, terminalEvents
  <2>2. e \in Outcomes /\ OnlyTerminal(d, e)
    BY <2>1
  <2> HIDE DEF e
  <2>3. StatusOf(e) = d.status
    BY <1>2, <2>2 DEF Sound, OneTerminalEvent, OnlyTerminal
  <2>4. e # "completed"
    BY <1>2, <2>3 DEF Answered, StatusOf, Failures
  <2>5. /\ r.assistant = e /\ r.status = d.status /\ r.intent = d.intent
        /\ r.expired = d.expired
    BY <1>0 DEF Facts
  <2>6. AnswerStep(d, r)
    BY <1>2, <2>4, <2>5 DEF AnswerStep, Answered
  <2> USE DEF e
  <2> QED
    BY <1>2, <2>6 DEF reconciled
<1>3. CASE ~(d.intent # "none" /\ d.status = "running")
           /\ ~(d.status # "running" /\ d.assistant = "pending")
  <2>1. reconciled(d) = d
    BY <1>3 DEF reconciled
  <2> QED
    BY <2>1, SameAnswer
<1> QED
  BY <1>1, <1>2, <1>3

(* The end that a cancellation, a refusal and a settlement have in common.     *)
LEMMA WithdrawnAnswer ==
    ASSUME NEW d, Answered(d), NEW m \in Facts, m.status = d.status, m.intent = d.intent,
           m.assistant = d.assistant, m.expired = d.expired, NEW e \in Outcomes,
           e = "completed" => d.assistant = "completed",
           NEW r \in appendGatewayOperationEvent(m, e)
    PROVE  AnswerStep(d, r)
<1>1. Answered(m)
  BY DEF Answered
<1>2. AnswerStep(m, r)
  BY <1>1, AppendedAnswer
<1> QED
  BY <1>2 DEF AnswerStep

LEMMA CancelAnswer ==
    ASSUME NEW d \in Facts, Answered(d), NEW statuses,
           NEW r \in cancelContinuationWithinTransaction(d, statuses)
    PROVE  AnswerStep(d, r)
<1> DEFINE m == [d EXCEPT !.cont = Unleased(d.cont, "cancelled", "none"),
                          !.approval = IF @ = "pending" THEN "revoked" ELSE @]
<1>1. Unleased(d.cont, "cancelled", "none") \in Continuations
  BY UnleasedContinuation DEF Facts, Terminal, ContinuationFailures
<1>2. /\ m \in Facts /\ m.status = d.status /\ m.intent = d.intent
      /\ m.assistant = d.assistant /\ m.expired = d.expired
  BY <1>1 DEF Facts
<1>3. r \in appendGatewayOperationEvent(m, "cancelled") /\ "cancelled" \in Outcomes
  BY DEF cancelContinuationWithinTransaction, Outcomes
<1> HIDE DEF m
<1> QED
  BY <1>2, <1>3, WithdrawnAnswer

LEMMA RejectAnswer ==
    ASSUME NEW d \in Facts, Answered(d), NEW r \in rejectContinuationAuthorization(d)
    PROVE  AnswerStep(d, r)
<1> DEFINE m == [d EXCEPT !.cont = Unleased(d.cont, "failed", "reauthorization_failed")]
<1>1. Unleased(d.cont, "failed", "reauthorization_failed") \in Continuations
  BY UnleasedContinuation DEF Facts, Terminal, ContinuationFailures
<1>2. /\ m \in Facts /\ m.status = d.status /\ m.intent = d.intent
      /\ m.assistant = d.assistant /\ m.expired = d.expired
  BY <1>1 DEF Facts
<1>3. r \in appendGatewayOperationEvent(m, "FORBIDDEN") /\ "FORBIDDEN" \in Outcomes
  BY DEF rejectContinuationAuthorization, Outcomes, Failures
<1> HIDE DEF m
<1> QED
  BY <1>2, <1>3, WithdrawnAnswer

LEMMA RequestAnswer ==
    ASSUME NEW d \in Facts, Answered(d), NEW r \in requestCancellation(d)
    PROVE  AnswerStep(d, r)
<1> DEFINE asked == [d EXCEPT !.cancel = TRUE]
<1>1. /\ asked \in Facts /\ asked.status = d.status /\ asked.intent = d.intent
      /\ asked.assistant = d.assistant /\ asked.expired = d.expired
  BY DEF Facts
<1>2. \/ r = d \/ r = asked
      \/ r \in cancelContinuationWithinTransaction(asked, {"waiting_approval", "ready"})
  BY DEF requestCancellation
<1> HIDE DEF asked
<1>3. Answered(asked)
  BY <1>1 DEF Answered
<1>4. CASE r = d \/ r = asked
  BY <1>1, <1>4, SameAnswer
<1>5. CASE r \in cancelContinuationWithinTransaction(asked, {"waiting_approval", "ready"})
  <2>1. AnswerStep(asked, r)
    BY <1>1, <1>3, <1>5, CancelAnswer
  <2> QED
    BY <1>1, <2>1 DEF AnswerStep
<1> QED
  BY <1>2, <1>4, <1>5

(* settleContinuation completes an Operation only with its answer.             *)
LEMMA SettleAnswer ==
    ASSUME NEW d \in Facts, Answered(d), NEW owner, NEW gen, NEW outcome \in Outcomes,
           NEW r \in settleContinuation(d, owner, gen, outcome)
    PROVE  AnswerStep(d, r)
<1> DEFINE failure == IF outcome = "completed" THEN "none" ELSE "adapter_failed"
           m == [d EXCEPT !.cont = Unleased(d.cont, StatusOf(outcome), failure)]
<1>1. \/ r \in cancelContinuationWithinTransaction(d, {"running"})
      \/ /\ r \in appendGatewayOperationEvent(m, outcome)
         /\ outcome = "completed" => d.assistant = "completed"
  BY DEF settleContinuation
<1>2. StatusOf(outcome) \in Terminal /\ failure \in ContinuationFailures
  BY DEF StatusOf, Outcomes, Terminal, ContinuationFailures
<1> HIDE DEF failure
<1>3. Unleased(d.cont, StatusOf(outcome), failure) \in Continuations
  BY <1>2, UnleasedContinuation DEF Facts
<1>4. /\ m \in Facts /\ m.status = d.status /\ m.intent = d.intent
      /\ m.assistant = d.assistant /\ m.expired = d.expired
  BY <1>3 DEF Facts
<1> HIDE DEF m
<1> QED
  BY <1>1, <1>4, CancelAnswer, WithdrawnAnswer

(* Whatever a transaction of the workers, a reader or a canceller commits.     *)
LEMMA CommitAnswer ==
    ASSUME Sound(db), Answered(db), NEW t \in Transactions,
           t.op \notin {"append", "resolveApproval"}, Commits(t)
    PROVE  AnswerStep(db, db')
<1>1. PICK d \in {db, reconciled(db)} : db' \in body(d, t)
  BY DEF Commits, Pending, Results
<1>2. d \in Facts /\ AnswerStep(db, d)
  BY ReconciledAnswer, ReconciledKept, SameAnswer DEF Kept, Sound
<1>3. Answered(d)
  BY <1>2 DEF AnswerStep
<1>4. CASE t.op = "read"
  <2>1. db' = d
    BY <1>1, <1>4 DEF body
  <2> QED
    BY <1>2, <2>1
<1>5. AnswerStep(d, db') => AnswerStep(db, db')
  BY <1>2 DEF AnswerStep
<1>6. CASE t.op = "requestCancellation"
  <2>1. db' \in requestCancellation(d)
    BY <1>1, <1>6 DEF body
  <2> QED
    BY <1>2, <1>3, <1>5, <2>1, RequestAnswer
<1>7. CASE t.op = "cancelContinuation"
  <2>1. db' \in cancelContinuationWithinTransaction(d, Active)
    BY <1>1, <1>7 DEF body, cancelContinuation
  <2> QED
    BY <1>2, <1>3, <1>5, <2>1, CancelAnswer
<1>8. CASE t.op = "rejectContinuationAuthorization"
  <2>1. db' \in rejectContinuationAuthorization(d)
    BY <1>1, <1>8 DEF body
  <2> QED
    BY <1>2, <1>3, <1>5, <2>1, RejectAnswer
<1>9. CASE t.op = "settleContinuation"
  <2>1. /\ t.outcome \in Outcomes
        /\ db' \in settleContinuation(d, t.owner, t.gen, t.outcome)
    BY <1>1, <1>9 DEF body, Transactions
  <2> QED
    BY <1>2, <1>3, <1>5, <2>1, SettleAnswer
<1> QED
  BY <1>4, <1>6, <1>7, <1>8, <1>9 DEF Transactions

(* No step answers with success but the one of a worker that is about to       *)
(* settle the answer, and nothing expires.                                     *)
LEMMA AnswerOfStep ==
    ASSUME NoExpiry, IInv, LedgersAgree, [Next]_vars
    PROVE  /\ Answered(db') /\ ~db'.expired
           /\ \/ db'.assistant = "completed" => db.assistant = "completed"
              \/ \E w \in Workers : worker[w].pc = "settleAnswer"
<1> DEFINE Goal == /\ Answered(db') /\ ~db'.expired
                   /\ \/ db'.assistant = "completed" => db.assistant = "completed"
                      \/ \E w \in Workers : worker[w].pc = "settleAnswer"
<1>0. /\ Sound(db) /\ db \in Facts /\ Answered(db) /\ ~db.expired
  BY InvariantParts DEF LedgersAgree, SuccessIsProved, Answered
<1>1. ASSUME AnswerStep(db, db') PROVE Goal
  BY <1>0, <1>1 DEF AnswerStep
<1>2. ASSUME NEW r, db' = r, r.status = db.status, r.intent = db.intent,
             r.assistant = db.assistant, r.expired = db.expired
      PROVE  Goal
  BY <1>0, <1>1, <1>2, SameAnswer
<1>3. ASSUME db' = db PROVE Goal
  BY <1>2, <1>3
<1>4. ASSUME NEW d \in Facts, NEW w \in Workers, d.status = db.status, d.intent = db.intent,
             d.assistant = db.assistant, d.expired = db.expired, db' = Requeued(d, w)
      PROVE  Goal
  <2> DEFINE queue == d.job \/ (worker[w].queued /\ attempts < MaxAttempts)
  <2>1. db' = [d EXCEPT !.job = queue]
    BY <1>4 DEF Requeued
  <2> HIDE DEF queue
  <2>2. /\ db'.status = d.status /\ db'.intent = d.intent
        /\ db'.assistant = d.assistant /\ db'.expired = d.expired
    BY <1>4, <2>1 DEF Facts
  <2> QED
    BY <1>2, <1>4, <2>2
<1>5. ASSUME NEW w \in Workers, claimForExecution(w) PROVE Goal
  <2> DEFINE taken == [db EXCEPT !.job = FALSE]
             leased == [taken EXCEPT !.cont = Claimed(@, w, 1)]
  <2>1. db' = taken \/ db' = leased
    BY <1>5 DEF claimForExecution
  <2>2. /\ taken.status = db.status /\ taken.intent = db.intent
        /\ taken.assistant = db.assistant /\ taken.expired = db.expired
        /\ leased.status = db.status /\ leased.intent = db.intent
        /\ leased.assistant = db.assistant /\ leased.expired = db.expired
    BY <1>0 DEF Facts
  <2> HIDE DEF taken, leased
  <2> QED
    BY <1>2, <2>1, <2>2
<1>6. ASSUME NEW w \in Workers, withdraw(w) PROVE Goal
  <2> DEFINE t == [op |-> IF worker[w].pc = "cancel" THEN "cancelContinuation"
                          ELSE "rejectContinuationAuthorization"]
  <2>1. t \in Transactions /\ t.op \notin {"append", "resolveApproval"}
    BY WorkersIssue
  <2>2. Commits(t) \/ db' = Requeued(db, w)
    BY <1>6 DEF withdraw
  <2> HIDE DEF t
  <2> QED
    BY <1>0, <1>1, <1>4, <2>1, <2>2, CommitAnswer
<1>7. ASSUME NEW w \in Workers, answer(w) PROVE Goal
  <2> DEFINE outcome == Answers[worker[w].pc]
             r == [db EXCEPT !.assistant = outcome,
                             !.intent = IF db.status = "running" THEN outcome ELSE @]
  <2>1. \/ db' = db
        \/ /\ db' = r /\ db.assistant \in {"pending", outcome}
           /\ db.status # "running" => OnlyTerminal(db, outcome)
    BY <1>7 DEF answer, settlePlatformTurn
  <2>2. \/ worker[w].pc = "settleAnswer" /\ outcome = "completed"
        \/ outcome = "RUNTIME_FAILED"
    BY <1>7 DEF answer, Answers
  <2> HIDE DEF outcome
  <2>3. /\ r.status = db.status /\ r.assistant = outcome /\ r.expired = db.expired
        /\ r.intent = IF db.status = "running" THEN outcome ELSE db.intent
    BY <1>0 DEF Facts
  <2>4. CASE db' = r /\ outcome = "completed"
    BY <1>0, <2>2, <2>3, <2>4 DEF Answered
  <2>5. CASE db' = r /\ outcome = "RUNTIME_FAILED" /\ db.assistant \in {"pending", outcome}
    <3>1. db.status # "completed" /\ db.intent # "completed"
      BY <1>0, <2>5 DEF Answered
    <3> QED
      BY <1>0, <2>3, <2>5, <3>1 DEF Answered
  <2> QED
    BY <1>3, <2>1, <2>2, <2>4, <2>5
<1>8. ASSUME NEW w \in Workers, settle(w) PROVE Goal
  <2>1. /\ Settlement(w) \in Transactions
        /\ Settlement(w).op \notin {"append", "resolveApproval"}
    BY <1>8, WorkersIssue DEF settle, Settlement
  <2>2. db' = db \/ Commits(Settlement(w))
    BY <1>8 DEF settle, Throws, RollsBack, store
  <2> QED
    BY <1>0, <1>1, <1>3, <2>1, <2>2, CommitAnswer
<1>9. ASSUME NEW w \in Workers, release(w) PROVE Goal
  <2> DEFINE d == [db EXCEPT !.cont = IF OperationOpen /\ Held(w)
                                      THEN Unleased(@, "ready", "none") ELSE @]
  <2>1. Unleased(db.cont, "ready", "none") \in Continuations
    BY <1>0, UnleasedContinuation DEF Facts, Active, ContinuationFailures
  <2>2. /\ d \in Facts /\ d.status = db.status /\ d.intent = db.intent
        /\ d.assistant = db.assistant /\ d.expired = db.expired
    BY <1>0, <2>1 DEF Facts
  <2>3. db' = Requeued(d, w) \/ db' = Requeued(db, w)
    BY <1>9 DEF release
  <2> HIDE DEF d
  <2> QED
    BY <1>0, <1>4, <2>2, <2>3
<1>10. ASSUME NEW w \in Workers, crash(w) PROVE Goal
  BY <1>0, <1>4, <1>10 DEF crash
<1>11. ASSUME lapse \/ revokeAccess \/ requeueExpiredForExecution PROVE Goal
  <2> DEFINE lapsed == [db EXCEPT !.cont.expires = 0]
             revoked == [db EXCEPT !.access = FALSE]
             queued == [db EXCEPT !.job = TRUE]
  <2>1. /\ lapsed.status = db.status /\ lapsed.intent = db.intent
        /\ lapsed.assistant = db.assistant /\ lapsed.expired = db.expired
        /\ revoked.status = db.status /\ revoked.intent = db.intent
        /\ revoked.assistant = db.assistant /\ revoked.expired = db.expired
        /\ queued.status = db.status /\ queued.intent = db.intent
        /\ queued.assistant = db.assistant /\ queued.expired = db.expired
    BY <1>0 DEF Facts
  <2>2. db' = lapsed \/ db' = revoked \/ db' = queued
    BY <1>11 DEF lapse, revokeAccess, requeueExpiredForExecution
  <2> HIDE DEF lapsed, revoked, queued
  <2> QED
    BY <1>2, <2>1, <2>2
<1>12. ASSUME requestCancel PROVE Goal
  <2>1. db' = db \/ Commits(Cancelling)
    BY <1>12 DEF requestCancel, Throws
  <2>2. Cancelling.op \notin {"append", "resolveApproval"}
    BY DEF Cancelling
  <2> QED
    BY <1>0, <1>1, <1>3, <2>1, <2>2, WorkersIssue, CommitAnswer
<1>13. ASSUME read PROVE Goal
  <2> DEFINE t == [op |-> "read"]
  <2>1. Commits(t) /\ t \in Transactions /\ t.op \notin {"append", "resolveApproval"}
    BY <1>13, WorkersIssue DEF read
  <2> HIDE DEF t
  <2> QED
    BY <1>0, <1>1, <2>1, CommitAnswer
<1>14. ~expire
  BY DEF NoExpiry, expire
<1> HIDE DEF Goal
<1>15. Goal
  BY <1>3, <1>5, <1>6, <1>7, <1>8, <1>9, <1>10, <1>11, <1>12, <1>13, <1>14
     DEF Next, WorkerStep, Maintenance, vars, store, open, ledgerStep, callTool, reconcile,
         settleBegins, Begins, heartbeat, abandonExpiredPrepared, cancellationBegins
<1> QED
  BY <1>15 DEF Goal

-------------------------------------------------------------------------------
(* The ledgers and the workers.                                                *)

\* The program counters at which a worker relies on nothing.
Careless == {"idle", "cancel", "reject", "open", "markRunning", "return", "throw"}

LEMMA CarelessAgrees == ASSUME NEW l, NEW pc \in Careless PROVE AgreesWith(l, pc)
  BY DEF Careless, AgreesWith, AdapterPcs

\* What a step must show: the ledgers advance in order and the workers agree.
LedgersAdvance ==
    /\ Advances(ledger, ledger') /\ InOrder(ledger')
    /\ \A v \in Workers : AgreesWith(ledger', worker'[v].pc)

(* It is enough to look at the worker that took the step.                      *)
LEMMA OneWorkerAdvances ==
    ASSUME LedgersAgree, NEW w \in Workers,
           Advances(ledger, ledger'), InOrder(ledger'),
           \A v \in Workers \ {w} : worker'[v].pc = worker[v].pc,
           AgreesWith(ledger', worker'[w].pc)
    PROVE  LedgersAdvance
<1>1. ASSUME NEW v \in Workers \ {w} PROVE AgreesWith(ledger', worker'[v].pc)
  <2>1. AgreesWith(ledger, worker[v].pc)
    BY DEF LedgersAgree
  <2>2. AgreesWith(ledger', worker[v].pc)
    BY <2>1, AgreementSurvives
  <2> QED
    BY <1>1, <2>2
<1> QED
  BY <1>1 DEF LedgersAdvance

LEMMA LedgersOfStep ==
    ASSUME NoExpiry, IInv, LedgersAgree, [Next]_vars
    PROVE  LedgersAdvance
<1>0. /\ ledger \in Ledgers /\ InOrder(ledger) /\ worker \in [Workers -> Processes]
      /\ \A w \in Workers : AgreesWith(ledger, worker[w].pc)
  BY InvariantParts DEF LedgersAgree
<1>1. ASSUME ledger' = ledger, \A w \in Workers : worker'[w].pc = worker[w].pc
      PROVE  LedgersAdvance
  BY <1>0, <1>1, AdvancesReflexive DEF LedgersAdvance
<1>2. ASSUME NEW w \in Workers, ledger' = ledger,
             \A v \in Workers \ {w} : worker'[v].pc = worker[v].pc,
             AgreesWith(ledger, worker'[w].pc)
      PROVE  LedgersAdvance
  BY <1>0, <1>2, AdvancesReflexive, OneWorkerAdvances
<1>3. ASSUME NEW w \in Workers, claimForExecution(w) PROVE LedgersAdvance
  <2>1. worker'[w].pc \in Careless
    BY <1>3, ClaimMoves DEF Unclaimed, Taken, Careless
  <2> QED
    BY <1>2, <1>3, <2>1, ClaimMoves, CarelessAgrees
<1>4. ASSUME NEW w \in Workers, withdraw(w) \/ release(w) \/ crash(w) PROVE LedgersAdvance
  <2>1. ledger' = ledger /\ Stops(w)
    BY <1>4 DEF withdraw, release, crash
  <2>2. worker'[w].pc = "idle" /\ \A v \in Workers \ {w} : worker'[v].pc = worker[v].pc
    BY <1>0, <2>1, WorkerMoves DEF Moves
  <2> QED
    BY <1>2, <2>1, <2>2, CarelessAgrees DEF Careless
<1>5. ASSUME NEW w \in Workers, open(w) PROVE LedgersAdvance
  <2>1. /\ \A v \in Workers \ {w} : worker'[v] = worker[v]
        /\ \/ worker'[w].pc \in {"markRunning", "return"}
           \/ worker'[w].pc = "succeedCall" /\ ledger.intent = "completed"
           \/ worker'[w].pc = "reconcile" /\ ledger.intent = "dispatching"
    BY <1>0, <1>5 DEF open, Processes
  <2>2. AgreesWith(ledger, worker'[w].pc)
    BY <1>0, <2>1 DEF AgreesWith, AdapterPcs, InOrder
  <2>3. ledger' = ledger
    BY <1>5 DEF open
  <2> QED
    BY <1>2, <2>1, <2>2, <2>3
<1>6. ASSUME NEW w \in Workers, Catch(w), Advances(ledger, ledger'), InOrder(ledger')
      PROVE  LedgersAdvance
  <2>1. /\ \A v \in Workers \ {w} : worker'[v].pc = worker[v].pc
        /\ \/ worker'[w].pc = "throw"
           \/ /\ worker'[w].pc = "reconcile"
              /\ worker[w].pc \in {"commitEffect", "succeedCall", "completeIntent",
                                   "settleAnswer"}
    BY <1>0, <1>6, WorkerMoves DEF Moves
  <2>2. AgreesWith(ledger', worker[w].pc)
    BY <1>0, <1>6, AgreementSurvives
  <2>3. AgreesWith(ledger', worker'[w].pc)
    BY <2>1, <2>2 DEF AgreesWith, AdapterPcs
  <2> QED
    BY <1>0, <1>6, <2>1, <2>3, OneWorkerAdvances
<1>7. ASSUME NEW w \in Workers, ledgerStep(w) PROVE LedgersAdvance
  <2> DEFINE pc == worker[w].pc
  <2>1. pc \in StatementPcs
    BY <1>7 DEF ledgerStep, Then, StatementPcs, AdapterPcs
  <2>2. \/ ledger' \in Statement(ledger, pc) /\ (Advance(w) \/ Catch(w))
        \/ ledger' = ledger /\ Catch(w)
    BY <1>7 DEF ledgerStep
  <2>3. AgreesWith(ledger, pc)
    BY <1>0
  <2> HIDE DEF pc
  <2>4. ledger' \in Statement(ledger, pc) =>
          /\ Advances(ledger, ledger') /\ InOrder(ledger')
          /\ AgreesWith(ledger', Successor(pc, worker[w].valid))
    BY <1>0, <2>1, <2>3, StatementAgrees
  <2>5. ASSUME Advance(w), ledger' \in Statement(ledger, pc) PROVE LedgersAdvance
    <3>1. /\ worker'[w].pc = Successor(pc, worker[w].valid)
          /\ \A v \in Workers \ {w} : worker'[v].pc = worker[v].pc
      BY <1>0, <2>5, WorkerMoves DEF Moves, pc
    <3> QED
      BY <2>4, <2>5, <3>1, OneWorkerAdvances
  <2> QED
    BY <1>0, <1>6, <2>2, <2>4, <2>5, AdvancesReflexive
<1>8. ASSUME NEW w \in Workers, callTool(w) PROVE LedgersAdvance
  <2>1. /\ \A v \in Workers \ {w} : worker'[v] = worker[v]
        /\ worker'[w].pc \in {"commitEffect", "reconcile"}
    BY <1>0, <1>8 DEF callTool, Goes, Processes
  <2>2. \/ ledger' = [ledger EXCEPT !.dispatched = @ + 1]
        \/ worker'[w].pc = "reconcile" /\ ledger' = ledger
    BY <1>8 DEF callTool
  <2>3. /\ ledger'.intent = ledger.intent /\ ledger'.call = ledger.call
        /\ ledger'.effect = ledger.effect
        /\ ledger'.dispatched = ledger.dispatched + 1
           \/ (worker'[w].pc = "reconcile" /\ ledger'.dispatched = ledger.dispatched)
    BY <1>0, <2>2 DEF Ledgers
  <2>4. ledger.dispatched \in Nat
    BY <1>0 DEF Ledgers
  <2>5. (ledger.dispatched > 0 => ledger'.dispatched > 0)
        /\ (worker'[w].pc = "commitEffect" => ledger'.dispatched > 0)
    BY <2>3, <2>4
  <2>6. Advances(ledger, ledger') /\ InOrder(ledger')
    BY <1>0, <2>3, <2>5 DEF Advances, InOrder
  <2>7. ledger.effect # "none" /\ ledger.intent # "prepared"
    BY <1>0, <1>8 DEF callTool, AgreesWith, AdapterPcs
  <2>8. AgreesWith(ledger', worker'[w].pc)
    BY <2>1, <2>3, <2>5, <2>7 DEF AgreesWith
  <2> QED
    BY <2>1, <2>6, <2>8, OneWorkerAdvances
<1>9. ASSUME NEW w \in Workers, reconcile(w) PROVE LedgersAdvance
  <2>1. \/ Goes(w, "succeedCall") /\ ledger.effect = "committed"
        \/ Goes(w, "unknownEffect")
        \/ Goes(w, "unknownCall") /\ ledger.effect \notin {"committed", "intended"}
        \/ Goes(w, "throw")
    BY <1>9 DEF reconcile
  <2>2. ledger.effect # "none" /\ ledger.intent # "prepared"
    BY <1>0, <1>9 DEF reconcile, AgreesWith, AdapterPcs
  <2>3. ledger.effect \in {"none", "intended", "committed"} \cup Refuted
    BY <1>0 DEF Ledgers, Refuted
  <2>4. /\ \A v \in Workers \ {w} : worker'[v].pc = worker[v].pc
        /\ \/ worker'[w].pc = "succeedCall" /\ ledger.effect = "committed"
           \/ worker'[w].pc = "unknownEffect"
           \/ worker'[w].pc = "unknownCall" /\ ledger.effect \in Refuted
           \/ worker'[w].pc = "throw"
    BY <1>0, <2>1, <2>2, <2>3, WorkerMoves DEF Moves
  <2>5. AgreesWith(ledger, worker'[w].pc)
    BY <2>2, <2>4 DEF AgreesWith, AdapterPcs
  <2>6. ledger' = ledger
    BY <1>9 DEF reconcile
  <2> QED
    BY <1>2, <2>4, <2>5, <2>6
<1>10. ASSUME NEW w \in Workers, answer(w) PROVE LedgersAdvance
  <2>1. /\ ledger' = ledger /\ worker[w].pc \in {"settleAnswer", "unknownAnswer"}
        /\ Advance(w) \/ Catch(w)
    BY <1>10 DEF answer
  <2>2. ASSUME Advance(w) PROVE LedgersAdvance
    <3>1. worker'[w].pc = "return" /\ \A v \in Workers \ {w} : worker'[v].pc = worker[v].pc
      BY <1>0, <2>1, <2>2, WorkerMoves DEF Moves, Successor, Then
    <3> QED
      BY <1>2, <2>1, <3>1, CarelessAgrees DEF Careless
  <2> QED
    BY <1>0, <1>6, <2>1, <2>2, AdvancesReflexive
<1>11. ASSUME NEW w \in Workers, settle(w) PROVE LedgersAdvance
  <2>1. ledger' = ledger /\ (Goes(w, "throw") \/ Stops(w))
    BY <1>11 DEF settle
  <2>2. /\ worker'[w].pc \in {"throw", "idle"}
        /\ \A v \in Workers \ {w} : worker'[v].pc = worker[v].pc
    BY <1>0, <2>1, WorkerMoves DEF Moves
  <2> QED
    BY <1>2, <2>1, <2>2, CarelessAgrees DEF Careless
<1>12. ASSUME NEW w \in Workers, heartbeat(w) PROVE LedgersAdvance
  <2>1. \A v \in Workers : worker'[v].pc = worker[v].pc
    BY <1>0, <1>12 DEF heartbeat, Processes
  <2> QED
    BY <1>1, <1>12, <2>1 DEF heartbeat
<1>13. ASSUME requeueExpiredForExecution PROVE LedgersAdvance
  <2>1. \A v \in Workers : worker'[v].pc = worker[v].pc
    BY <1>0, <1>13 DEF requeueExpiredForExecution, Processes
  <2> QED
    BY <1>1, <1>13, <2>1 DEF requeueExpiredForExecution
<1>14. ~abandonExpiredPrepared
  BY DEF abandonExpiredPrepared, LedgersAgree
<1>15. ASSUME ledger' = ledger, worker' = worker PROVE LedgersAdvance
  BY <1>1, <1>15
<1> QED
  BY <1>3, <1>4, <1>5, <1>7, <1>8, <1>9, <1>10, <1>11, <1>12, <1>13, <1>14, <1>15
     DEF Next, WorkerStep, Maintenance, vars, settleBegins, lapse, cancellationBegins,
         requestCancel, read, revokeAccess, expire

-------------------------------------------------------------------------------
(* The theorems.                                                               *)

LEMMA AgreementStart == Init => LedgersAgree
<1> SUFFICES ASSUME Init PROVE LedgersAgree
  OBVIOUS
<1>1. /\ db.status = "running" /\ db.intent = "none" /\ db.assistant = "pending"
      /\ ~db.expired
  BY DEF Init, ApprovedFacts, NewFacts
<1>2. InOrder(ledger) /\ SuccessIsProved
  BY <1>1 DEF Init, InOrder, SuccessIsProved, Refuted
<1>3. ASSUME NEW w \in Workers PROVE AgreesWith(ledger, worker[w].pc)
  <2>1. worker[w].pc = "idle"
    BY DEF Init, NoWork
  <2> QED
    BY <2>1, CarelessAgrees DEF Careless
<1> QED
  BY <1>1, <1>2, <1>3 DEF LedgersAgree

LEMMA AgreementStep == NoExpiry /\ IInv /\ LedgersAgree /\ [Next]_vars => LedgersAgree'
<1> SUFFICES ASSUME NoExpiry, IInv, LedgersAgree, [Next]_vars PROVE LedgersAgree'
  OBVIOUS
<1>1. /\ Advances(ledger, ledger') /\ InOrder(ledger')
      /\ \A w \in Workers : AgreesWith(ledger', worker'[w].pc)
  BY LedgersOfStep DEF LedgersAdvance
<1>2. /\ Answered(db') /\ ~db'.expired
      /\ \/ db'.assistant = "completed" => db.assistant = "completed"
         \/ \E w \in Workers : worker[w].pc = "settleAnswer"
  BY AnswerOfStep
<1>3. db'.assistant = "completed" => ledger.intent = "completed" /\ ledger.call = "succeeded"
  <2>1. CASE db'.assistant = "completed" => db.assistant = "completed"
    BY <2>1 DEF LedgersAgree, SuccessIsProved
  <2>2. CASE \E w \in Workers : worker[w].pc = "settleAnswer"
    BY <2>2 DEF LedgersAgree, AgreesWith
  <2> QED
    BY <1>2, <2>1, <2>2
<1>4. SuccessIsProved'
  BY <1>1, <1>2, <1>3 DEF SuccessIsProved, Answered, Advances, InOrder
<1> QED
  BY <1>1, <1>2, <1>4 DEF LedgersAgree

(* Unless intents expire, a completed Operation had a settled answer, the      *)
(* answer a completed intent and a succeeded Tool Call, and these a committed  *)
(* effect of a call that reached the tool: with any number of workers on the   *)
(* same Tool Call, stalled, dead, or configured without its registration.      *)
THEOREM Success == NoExpiry => (Spec => []SuccessIsProved)
<1>1. NoExpiry /\ Init => LedgersAgree
  BY AgreementStart
<1>2. LedgersAgree => SuccessIsProved
  BY DEF LedgersAgree
<1> SUFFICES ASSUME NoExpiry PROVE Spec => []SuccessIsProved
  OBVIOUS
<1>3. IInv /\ LedgersAgree /\ [Next]_vars => LedgersAgree'
  BY AgreementStep
<1> QED
  BY <1>1, <1>2, <1>3, WorkerInvariant, PTL DEF Spec

-------------------------------------------------------------------------------
(* Failure.                                                                    *)

\* What NothingFails says of the ledgers and of a process.
Unfailed(l) ==
    /\ "failed" \notin {l.intent, l.call, l.effect}
    /\ l.dispatched > 0 => l.intent # "prepared"

Unfailing(p) ==
    /\ p.pc \notin {"failEffect", "failCall", "failIntent"}
    /\ p.pc \in {"markRunning", "intend"} => p.valid

LEMMA NothingFailsParts ==
    NothingFails <=> (/\ LedgersAgree /\ Unfailed(ledger)
                      /\ \A w \in Workers : Unfailing(worker[w]))
  BY DEF NothingFails, Unfailed, Unfailing

(* No statement that a worker reaches with a valid intent records a failure.   *)
LEMMA StatementUnfailed ==
    ASSUME NEW l \in Ledgers, Unfailed(l),
           NEW pc \in StatementPcs \ {"failEffect", "failCall", "failIntent"},
           NEW r \in Statement(l, pc)
    PROVE  Unfailed(r)
<1>1. \A st \in {"succeeded", "outcome_unknown"} : \A q \in callSettle(l, st) : Unfailed(q)
  BY DEF callSettle, Unfailed, Ledgers
<1>2. \A st \in {"completed", "outcome_unknown"} : \A q \in intentSettle(l, st) : Unfailed(q)
  BY DEF intentSettle, Unfailed, Ledgers
<1>3. \A st \in {"committed", "outcome_unknown"} : \A q \in effectSettle(l, st) : Unfailed(q)
  BY DEF effectSettle, Unfailed, Ledgers
<1>4. \A q \in effectIntend(l) : Unfailed(q)
  BY DEF effectIntend, Unfailed, Ledgers
<1>5. \A q \in markRunning(l) : Unfailed(q)
  BY DEF markRunning, Unfailed, Ledgers
<1>6. \A q \in markDispatching(l) : Unfailed(q)
  BY DEF markDispatching, Unfailed, Ledgers
<1> QED
  BY <1>1, <1>2, <1>3, <1>4, <1>5, <1>6 DEF Statement, StatementPcs, AdapterPcs

LEMMA UnfailedStep == ASSUME NoExpiry, IInv, NothingFails, [Next]_vars PROVE Unfailed(ledger')
<1>0. /\ ledger \in Ledgers /\ Unfailed(ledger) /\ LedgersAgree
      /\ \A w \in Workers : Unfailing(worker[w]) /\ AgreesWith(ledger, worker[w].pc)
  BY InvariantParts, NothingFailsParts DEF LedgersAgree
<1>1. ASSUME NEW w \in Workers, ledgerStep(w) PROVE Unfailed(ledger')
  <2>1. worker[w].pc \in StatementPcs \ {"failEffect", "failCall", "failIntent"}
    BY <1>0, <1>1 DEF ledgerStep, Then, StatementPcs, AdapterPcs, Unfailing
  <2>2. ledger' = ledger \/ ledger' \in Statement(ledger, worker[w].pc)
    BY <1>1 DEF ledgerStep
  <2> QED
    BY <1>0, <2>1, <2>2, StatementUnfailed
<1>2. ASSUME NEW w \in Workers, callTool(w) PROVE Unfailed(ledger')
  <2>1. ledger.intent # "prepared"
    BY <1>0, <1>2 DEF callTool, AgreesWith, AdapterPcs
  <2>2. ledger' = ledger \/ ledger' = [ledger EXCEPT !.dispatched = @ + 1]
    BY <1>2 DEF callTool
  <2>3. /\ ledger'.intent = ledger.intent /\ ledger'.call = ledger.call
        /\ ledger'.effect = ledger.effect
    BY <1>0, <2>2 DEF Ledgers
  <2> QED
    BY <1>0, <2>1, <2>3 DEF Unfailed
<1>3. ~abandonExpiredPrepared
  BY <1>0 DEF abandonExpiredPrepared, LedgersAgree
<1>4. ASSUME ledger' = ledger PROVE Unfailed(ledger')
  BY <1>0, <1>4
<1> QED
  BY <1>1, <1>2, <1>3, <1>4
     DEF Next, WorkerStep, Maintenance, vars, claimForExecution, withdraw, open,
         reconcile, answer, settleBegins, settle, release, heartbeat, crash, lapse,
         requeueExpiredForExecution, cancellationBegins, requestCancel, read, revokeAccess,
         expire

LEMMA UnfailingStep ==
    ASSUME NoExpiry, OneRegistration, IInv, NothingFails, [Next]_vars
    PROVE  \A w \in Workers : Unfailing(worker'[w])
<1> DEFINE Goal == \A v \in Workers : Unfailing(worker'[v])
<1>0. /\ worker \in [Workers -> Processes] /\ ~db.expired
      /\ \A w \in Workers : Unfailing(worker[w])
  BY InvariantParts, NothingFailsParts DEF LedgersAgree
<1>1. ASSUME NEW w \in Workers, \A v \in Workers \ {w} : worker'[v] = worker[v],
             Unfailing(worker'[w])
      PROVE  Goal
  <2>1. ASSUME NEW v \in Workers PROVE Unfailing(worker'[v])
    BY <1>0, <1>1
  <2> QED
    BY <2>1
<1>2. ASSUME NEW w \in Workers, claimForExecution(w) PROVE Goal
  <2>1. Unfailing(worker'[w])
    BY <1>2, ClaimMoves DEF Unclaimed, Taken, Unfailing
  <2> QED
    BY <1>1, <1>2, <2>1, ClaimMoves
<1>3. ASSUME NEW w \in Workers, withdraw(w) \/ release(w) \/ crash(w) PROVE Goal
  <2>1. Stops(w)
    BY <1>3 DEF withdraw, release, crash
  <2>2. worker'[w].pc = "idle" /\ \A v \in Workers \ {w} : worker'[v] = worker[v]
    BY <1>0, <2>1, WorkerMoves DEF Moves
  <2> QED
    BY <1>1, <2>2 DEF Unfailing
<1>4. ASSUME NEW w \in Workers, open(w) PROVE Goal
  <2> DEFINE opened(valid) ==
               CASE ledger.intent = "prepared" ->
                      [worker[w] EXCEPT !.pc = "markRunning", !.valid = valid]
                 [] ledger.intent = "completed" ->
                      [worker[w] EXCEPT !.pc = "succeedCall", !.recovering = TRUE]
                 [] ledger.intent = "dispatching" ->
                      [worker[w] EXCEPT !.pc = "reconcile", !.recovering = TRUE]
                 [] OTHER -> [worker[w] EXCEPT !.pc = "return", !.outcome = "RUNTIME_FAILED"]
  <2>1. \A valid \in {~db.expired, ~db.expired /\ "unregistered" \notin Hazards} : valid = TRUE
    BY <1>0, Zenon DEF OneRegistration
  <2>2. \E valid \in {~db.expired, ~db.expired /\ "unregistered" \notin Hazards} :
           worker' = [worker EXCEPT ![w] = opened(valid)]
    BY <1>0, <1>4 DEF open
  <2>3. worker' = [worker EXCEPT ![w] = opened(TRUE)]
    <3> HIDE DEF opened
    <3> QED
      BY <2>1, <2>2
  <2>4. /\ \A v \in Workers \ {w} : worker'[v] = worker[v]
        /\ \/ worker'[w].pc = "markRunning" /\ worker'[w].valid
           \/ worker'[w].pc \in {"succeedCall", "reconcile", "return"}
    BY <1>0, <2>3 DEF Processes
  <2> QED
    BY <1>1, <2>4 DEF Unfailing
<1>5. ASSUME NEW w \in Workers, Catch(w) PROVE Goal
  <2>1. /\ worker'[w].pc \in {"throw", "reconcile"}
        /\ \A v \in Workers \ {w} : worker'[v] = worker[v]
    BY <1>0, <1>5, WorkerMoves DEF Moves
  <2> QED
    BY <1>1, <2>1 DEF Unfailing
<1>6. ASSUME NEW w \in Workers, Advance(w), worker[w].pc \in DOMAIN Then \cup {"intend"}
      PROVE  Goal
  <2>1. /\ worker'[w].pc = Successor(worker[w].pc, worker[w].valid)
        /\ worker'[w].valid = worker[w].valid
        /\ \A v \in Workers \ {w} : worker'[v] = worker[v]
    BY <1>0, <1>6, WorkerMoves DEF Moves
  <2>2. Unfailing(worker[w])
    BY <1>0
  <2>3. Unfailing(worker'[w])
    BY <1>6, <2>1, <2>2 DEF Unfailing, Successor, Then
  <2> QED
    BY <1>1, <2>1, <2>3
<1>7. ASSUME NEW w \in Workers, ledgerStep(w) PROVE Goal
  BY <1>5, <1>6, <1>7 DEF ledgerStep
<1>8. ASSUME NEW w \in Workers, answer(w) PROVE Goal
  <2>1. worker[w].pc \in DOMAIN Then
    BY <1>8 DEF answer, Then
  <2> QED
    BY <1>5, <1>6, <1>8, <2>1 DEF answer
<1>9. ASSUME NEW w \in Workers, callTool(w) \/ reconcile(w) \/ settle(w) PROVE Goal
  <2>1. /\ worker'[w].pc \in {"commitEffect", "reconcile", "succeedCall", "unknownEffect",
                              "unknownCall", "throw", "idle"}
        /\ \A v \in Workers \ {w} : worker'[v] = worker[v]
    <3>1. CASE callTool(w)
      BY <1>0, <3>1 DEF callTool, Goes, Processes
    <3>2. CASE reconcile(w) \/ settle(w)
      <4>1. \/ \E pc \in {"succeedCall", "unknownEffect", "unknownCall", "throw"} : Goes(w, pc)
            \/ Stops(w)
        BY <3>2 DEF reconcile, settle
      <4> QED
        BY <1>0, <4>1, WorkerMoves DEF Moves
    <3> QED
      BY <1>9, <3>1, <3>2
  <2> QED
    BY <1>1, <2>1 DEF Unfailing
<1>10. ASSUME \A v \in Workers : /\ worker'[v].pc = worker[v].pc
                                  /\ worker'[v].valid = worker[v].valid
       PROVE  Goal
  BY <1>0, <1>10 DEF Unfailing
<1>11. ASSUME NEW w \in Workers, heartbeat(w) PROVE Goal
  BY <1>0, <1>10, <1>11 DEF heartbeat, Processes
<1>12. ASSUME requeueExpiredForExecution PROVE Goal
  BY <1>0, <1>10, <1>12 DEF requeueExpiredForExecution, Processes
<1>13. ASSUME worker' = worker PROVE Goal
  BY <1>10, <1>13
<1> HIDE DEF Goal
<1>14. Goal
  BY <1>2, <1>3, <1>4, <1>7, <1>8, <1>9, <1>11, <1>12, <1>13
     DEF Next, WorkerStep, Maintenance, vars, settleBegins, lapse, cancellationBegins,
         requestCancel, read, revokeAccess, expire, abandonExpiredPrepared
<1> QED
  BY <1>14 DEF Goal

LEMMA UnfailedStart == Init => NothingFails
<1> SUFFICES ASSUME Init PROVE NothingFails
  OBVIOUS
<1>1. Unfailed(ledger)
  BY DEF Init, Unfailed
<1>2. \A w \in Workers : Unfailing(worker[w])
  BY DEF Init, NoWork, Unfailing
<1> QED
  BY <1>1, <1>2, AgreementStart, NothingFailsParts

LEMMA NothingFailsStep ==
    NoExpiry /\ OneRegistration /\ IInv /\ NothingFails /\ [Next]_vars => NothingFails'
<1> SUFFICES ASSUME NoExpiry, OneRegistration, IInv, NothingFails, [Next]_vars
             PROVE  NothingFails'
  OBVIOUS
<1>1. LedgersAgree'
  BY NothingFailsParts, AgreementStep
<1>2. Unfailed(ledger') /\ \A w \in Workers : Unfailing(worker'[w])
  BY UnfailedStep, UnfailingStep
<1> QED
  BY <1>1, <1>2 DEF NothingFails, Unfailed, Unfailing

(* The inductive invariant behind the next theorem: without expiry and with    *)
(* one registration for all workers no statement ever records a failure.       *)
THEOREM NoFailure == NoExpiry /\ OneRegistration => (Spec => []NothingFails)
<1> SUFFICES ASSUME NoExpiry, OneRegistration PROVE Spec => []NothingFails
  OBVIOUS
<1>1. IInv /\ NothingFails /\ [Next]_vars => NothingFails'
  BY NothingFailsStep
<1> QED
  BY <1>1, UnfailedStart, WorkerInvariant, PTL DEF Spec

(* Once a call may have reached the tool, no ledger says that it failed or was *)
(* never sent: every interleaving of live, stalled and dead workers leaves     *)
(* committed or outcome_unknown as the only settled outcomes.                  *)
THEOREM Honesty == NoExpiry /\ OneRegistration => (Spec => []FailureIsHonest)
<1>1. NothingFails => FailureIsHonest
  BY DEF NothingFails, LedgersAgree, InOrder, FailureIsHonest
<1> SUFFICES ASSUME NoExpiry, OneRegistration PROVE Spec => []FailureIsHonest
  OBVIOUS
<1> QED
  BY <1>1, NoFailure, PTL

-------------------------------------------------------------------------------
(* What became of the call.                                                    *)

\* What Accounts says of the ledgers, and of a worker at pc.
CallOver(l) == l.call \notin {"pending", "running"}

IntentLast(l) == l.intent \notin {"prepared", "dispatching"} => Explained(l)

Owed(l, pc) ==
    /\ pc \in {"return", "settleAnswer", "unknownAnswer"} => Explained(l)
    /\ pc = "unknownIntent" => CallOver(l)

Withdrawing(pc) == (pc = "cancel" => db.cancel) /\ (pc = "reject" => ~db.access)

LEMMA AccountsParts ==
    Accounts <=> (/\ db.approval = "approved"
                  /\ Decided(db) /\ ~db.cancel /\ db.access => Explained(ledger)
                  /\ IntentLast(ledger)
                  /\ \A w \in Workers : Owed(ledger, worker[w].pc) /\ Withdrawing(worker[w].pc))
  BY DEF Accounts, Decided, IntentLast, Owed, CallOver, Withdrawing

\* What is settled stays settled.
Settling(l, r) == (Explained(l) => Explained(r)) /\ (CallOver(l) => CallOver(r))

(* Every statement leaves a settled ledger alone, and the ones that settle the *)
(* intent come after those that settled the effect and the call.               *)
LEMMA StatementSettles ==
    ASSUME NEW l \in Ledgers, InOrder(l), IntentLast(l),
           NEW pc \in StatementPcs \ {"failEffect", "failCall", "failIntent"},
           AgreesWith(l, pc), Owed(l, pc), NEW valid, NEW r \in Statement(l, pc)
    PROVE  Settling(l, r) /\ IntentLast(r) /\ (valid => Owed(r, Successor(pc, valid)))
<1>1. CASE pc \in {"commitEffect", "unknownEffect"}
  <2>1. r = l \/ (l.effect = "intended" /\ \E st : r = [l EXCEPT !.effect = st])
    BY <1>1 DEF Statement, effectSettle
  <2>2. r.call = l.call /\ r.intent = l.intent /\ (r = l \/ ~Explained(l))
    BY <2>1 DEF Ledgers, Explained
  <2>3. valid => Owed(r, Successor(pc, valid))
    BY <1>1 DEF Owed, Successor, Then
  <2> QED
    BY <2>2, <2>3 DEF Settling, IntentLast, CallOver
<1>2. CASE pc \in {"succeedCall", "unknownCall"}
  <2>1. r = IF l.call = "running"
            THEN [l EXCEPT !.call = IF pc = "succeedCall" THEN "succeeded" ELSE "outcome_unknown"]
            ELSE l
    BY <1>2 DEF Statement, callSettle
  <2>2. r.effect = l.effect /\ r.intent = l.intent /\ (r = l \/ ~Explained(l))
    BY <2>1 DEF Ledgers, Explained
  <2>3. l.call # "pending"
    BY <1>2 DEF AgreesWith, AdapterPcs, InOrder
  <2>4. CallOver(r)
    BY <2>1, <2>3 DEF CallOver, Ledgers
  <2>5. valid => Owed(r, Successor(pc, valid))
    BY <1>2, <2>4 DEF Owed, Successor, Then
  <2> QED
    BY <2>2, <2>4, <2>5 DEF Settling, IntentLast
<1>3. CASE pc \in {"completeIntent", "unknownIntent"}
  <2>1. r = IF l.intent = "dispatching"
            THEN [l EXCEPT !.intent = IF pc = "completeIntent" THEN "completed"
                                      ELSE "outcome_unknown"]
            ELSE l
    BY <1>3 DEF Statement, intentSettle
  <2>2. r.effect = l.effect /\ r.call = l.call
    BY <2>1 DEF Ledgers
  <2>3. l.intent # "prepared" /\ l.effect \notin {"none", "intended"} /\ CallOver(l)
    BY <1>3 DEF AgreesWith, AdapterPcs, Owed, CallOver, Refuted
  <2>4. Explained(r)
    BY <2>1, <2>2, <2>3 DEF Explained, CallOver, IntentLast, Ledgers
  <2>5. valid => Owed(r, Successor(pc, valid))
    BY <1>3, <2>4 DEF Owed, Successor, Then
  <2> QED
    BY <2>2, <2>4, <2>5 DEF Settling, IntentLast, CallOver
<1>4. CASE pc \in {"markRunning", "intend", "dispatch"}
  <2>1. CASE pc = "markRunning"
    <3>1. r = IF l.call = "pending" THEN [l EXCEPT !.call = "running"] ELSE l
      BY <2>1 DEF Statement, markRunning
    <3>2. r.intent = l.intent /\ (r = l \/ (~Explained(l) /\ ~CallOver(l)))
      BY <3>1 DEF Ledgers, Explained, CallOver
    <3> QED
      BY <2>1, <3>2 DEF Settling, IntentLast, Owed, Successor, Then
  <2>2. CASE pc = "intend"
    <3>1. r \in effectIntend(l)
      BY <2>2 DEF Statement
    <3>2. l.call = "running" /\ r.intent = l.intent
      BY <3>1 DEF effectIntend, Ledgers
    <3>3. ~Explained(l) /\ ~CallOver(l)
      BY <3>2 DEF Explained, CallOver
    <3> QED
      BY <2>2, <3>2, <3>3 DEF Settling, IntentLast, Owed, Successor
  <2>3. CASE pc = "dispatch"
    <3>1. r = IF l.intent = "prepared" THEN [l EXCEPT !.intent = "dispatching"] ELSE l
      BY <2>3 DEF Statement, markDispatching
    <3>2. \/ r = l
          \/ r.intent = "dispatching" /\ r.call = l.call /\ ~Explained(l)
      BY <3>1 DEF Ledgers, Explained
    <3> QED
      BY <2>3, <3>2 DEF Settling, IntentLast, Owed, Successor, Then, CallOver
  <2> QED
    BY <1>4, <2>1, <2>2, <2>3
<1> QED
  BY <1>1, <1>2, <1>3, <1>4 DEF StatementPcs, AdapterPcs

\* What Accounts says of ledgers and workers after a step.
LedgersAccount ==
    /\ Settling(ledger, ledger') /\ IntentLast(ledger')
    /\ \A w \in Workers : Owed(ledger', worker'[w].pc)

LEMMA AccountOfStep ==
    ASSUME NoExpiry, OneRegistration, IInv, NothingFails, Accounts, [Next]_vars
    PROVE  LedgersAccount
<1>0. /\ ledger \in Ledgers /\ worker \in [Workers -> Processes] /\ InOrder(ledger)
      /\ IntentLast(ledger)
      /\ \A w \in Workers : /\ AgreesWith(ledger, worker[w].pc) /\ Unfailing(worker[w])
                            /\ Owed(ledger, worker[w].pc)
  BY InvariantParts, AccountsParts, NothingFailsParts DEF LedgersAgree
<1>1. ASSUME NEW w \in Workers, Settling(ledger, ledger'), IntentLast(ledger'),
             \A v \in Workers \ {w} : worker'[v].pc = worker[v].pc,
             Owed(ledger', worker'[w].pc)
      PROVE  LedgersAccount
  BY <1>0, <1>1 DEF LedgersAccount, Owed, Settling
<1>2. ASSUME NEW w \in Workers, ledger' = ledger,
             \A v \in Workers \ {w} : worker'[v].pc = worker[v].pc,
             Owed(ledger, worker'[w].pc)
      PROVE  LedgersAccount
  BY <1>0, <1>1, <1>2 DEF Settling
<1>3. ASSUME ledger' = ledger, \A w \in Workers : worker'[w].pc = worker[w].pc
      PROVE  LedgersAccount
  BY <1>0, <1>3 DEF LedgersAccount, Settling
<1>4. ASSUME NEW w \in Workers, claimForExecution(w) PROVE LedgersAccount
  <2>1. worker'[w].pc \in {"idle", "cancel", "reject", "open"}
    BY <1>4, ClaimMoves DEF Unclaimed, Taken, OneRegistration
  <2> QED
    BY <1>2, <1>4, <2>1, ClaimMoves DEF Owed
<1>5. ASSUME NEW w \in Workers, withdraw(w) \/ release(w) \/ crash(w) PROVE LedgersAccount
  <2>1. ledger' = ledger /\ Stops(w)
    BY <1>5 DEF withdraw, release, crash
  <2> QED
    BY <1>0, <1>2, <2>1, WorkerMoves DEF Owed
<1>6. ASSUME NEW w \in Workers, open(w) PROVE LedgersAccount
  <2>1. /\ \A v \in Workers \ {w} : worker'[v] = worker[v]
        /\ \/ worker'[w].pc \in {"markRunning", "succeedCall", "reconcile"}
           \/ /\ worker'[w].pc = "return"
              /\ ledger.intent \notin {"prepared", "completed", "dispatching"}
    BY <1>0, <1>6 DEF open, Processes
  <2>2. Owed(ledger, worker'[w].pc)
    BY <1>0, <2>1 DEF Owed, IntentLast
  <2> QED
    BY <1>2, <1>6, <2>1, <2>2 DEF open
<1>7. ASSUME NEW w \in Workers, Catch(w), Settling(ledger, ledger'), IntentLast(ledger')
      PROVE  LedgersAccount
  <2>1. /\ \A v \in Workers \ {w} : worker'[v] = worker[v]
        /\ worker'[w].pc \in {"throw", "reconcile"}
    BY <1>0, <1>7, WorkerMoves DEF Moves
  <2> QED
    BY <1>1, <1>7, <2>1 DEF Owed
<1>8. ASSUME NEW w \in Workers, ledgerStep(w) PROVE LedgersAccount
  <2> DEFINE pc == worker[w].pc
             valid == worker[w].valid
  <2>1. pc \in StatementPcs \ {"failEffect", "failCall", "failIntent"}
    BY <1>0, <1>8 DEF ledgerStep, Then, StatementPcs, AdapterPcs, Unfailing
  <2>2. \/ ledger' \in Statement(ledger, pc) /\ (Advance(w) \/ Catch(w))
        \/ ledger' = ledger /\ Catch(w)
    BY <1>8 DEF ledgerStep
  <2>3. /\ Advance(w) => Moves(w, Successor(pc, valid))
        /\ AgreesWith(ledger, pc) /\ Owed(ledger, pc)
        /\ pc \in {"markRunning", "intend"} => valid
    BY <1>0, WorkerMoves DEF Unfailing
  <2> HIDE DEF pc, valid
  <2>4. Settling(ledger, ledger') /\ IntentLast(ledger')
    BY <1>0, <2>1, <2>2, <2>3, StatementSettles DEF Settling
  <2>5. ASSUME Advance(w), ledger' \in Statement(ledger, pc) PROVE LedgersAccount
    <3>1. Successor(pc, valid) = Successor(pc, TRUE)
      BY <2>3 DEF Successor
    <3>2. Owed(ledger', Successor(pc, valid))
      BY <1>0, <2>1, <2>3, <2>5, <3>1, StatementSettles
    <3> QED
      BY <1>1, <2>3, <2>4, <2>5, <3>2 DEF Moves
  <2> QED
    BY <1>7, <2>2, <2>4, <2>5
<1>9. ASSUME NEW w \in Workers, callTool(w) PROVE LedgersAccount
  <2>1. /\ \A v \in Workers \ {w} : worker'[v] = worker[v]
        /\ worker'[w].pc \in {"commitEffect", "reconcile"}
    BY <1>0, <1>9 DEF callTool, Goes, Processes
  <2>2. /\ ledger'.intent = ledger.intent /\ ledger'.call = ledger.call
        /\ ledger'.effect = ledger.effect
    BY <1>0, <1>9 DEF callTool, Ledgers
  <2>3. Settling(ledger, ledger') /\ IntentLast(ledger')
    BY <1>0, <2>2 DEF Settling, IntentLast, Explained, CallOver
  <2> QED
    BY <1>1, <2>1, <2>3 DEF Owed
<1>10. ASSUME NEW w \in Workers, reconcile(w) \/ settle(w) PROVE LedgersAccount
  <2>1. /\ ledger' = ledger
        /\ \/ Stops(w)
           \/ \E pc \in {"succeedCall", "unknownEffect", "unknownCall", "throw"} : Goes(w, pc)
    BY <1>10 DEF reconcile, settle
  <2>2. /\ worker'[w].pc \in {"idle", "succeedCall", "unknownEffect", "unknownCall", "throw"}
        /\ \A v \in Workers \ {w} : worker'[v] = worker[v]
    BY <1>0, <2>1, WorkerMoves DEF Moves
  <2> QED
    BY <1>2, <2>1, <2>2 DEF Owed
<1>11. ASSUME NEW w \in Workers, answer(w) PROVE LedgersAccount
  <2>1. /\ ledger' = ledger /\ worker[w].pc \in {"settleAnswer", "unknownAnswer"}
        /\ Advance(w) \/ Catch(w)
    BY <1>11 DEF answer
  <2>2. Settling(ledger, ledger') /\ IntentLast(ledger') /\ Explained(ledger')
    BY <1>0, <2>1 DEF Settling, Owed
  <2>3. CASE Advance(w)
    <3>1. \A v \in Workers \ {w} : worker'[v] = worker[v]
      BY <1>0, <2>3, WorkerMoves DEF Moves
    <3>2. worker'[w].pc = "return"
      BY <1>0, <2>1, <2>3, WorkerMoves DEF Moves, Successor, Then
    <3> QED
      BY <1>1, <2>2, <3>1, <3>2 DEF Owed
  <2> QED
    BY <1>7, <2>1, <2>2, <2>3
<1>12. ASSUME NEW w \in Workers, heartbeat(w) PROVE LedgersAccount
  <2>1. \A v \in Workers : worker'[v].pc = worker[v].pc
    BY <1>0, <1>12 DEF heartbeat, Processes
  <2> QED
    BY <1>3, <1>12, <2>1 DEF heartbeat
<1>13. ASSUME requeueExpiredForExecution PROVE LedgersAccount
  <2>1. \A v \in Workers : worker'[v].pc = worker[v].pc
    BY <1>0, <1>13 DEF requeueExpiredForExecution, Processes
  <2> QED
    BY <1>3, <1>13, <2>1 DEF requeueExpiredForExecution
<1>14. ~abandonExpiredPrepared
  BY DEF abandonExpiredPrepared, NothingFails, LedgersAgree
<1>15. ASSUME ledger' = ledger, worker' = worker PROVE LedgersAccount
  BY <1>3, <1>15
<1> QED
  BY <1>4, <1>5, <1>6, <1>8, <1>9, <1>10, <1>11, <1>12, <1>13, <1>14, <1>15
     DEF Next, WorkerStep, Maintenance, vars, settleBegins, lapse, cancellationBegins,
         requestCancel, read, revokeAccess, expire

(* Only a claim that got no lease makes a worker withdraw the Operation.       *)
LEMMA WithdrawalOfStep ==
    ASSUME IInv, [Next]_vars, NEW w \in Workers, worker'[w].pc \in {"cancel", "reject"}
    PROVE  worker'[w].pc = worker[w].pc \/ Unclaimed(w)
<1> DEFINE Goal == worker'[w].pc = worker[w].pc \/ Unclaimed(w)
<1>1. ASSUME \A v \in Workers : ~claimForExecution(v) PROVE Goal
  <2>0. worker \in [Workers -> Processes]
    BY InvariantParts
  <2>1. ASSUME NEW v \in Workers, Goes(v, "throw") \/ Stops(v) \/ Catch(v) PROVE Goal
    BY <2>0, <2>1, WorkerMoves DEF Moves
  <2>2. ASSUME NEW v \in Workers, Advance(v), worker[v].pc \in DOMAIN Then \cup {"intend"}
        PROVE  Goal
    <3>1. Moves(v, Successor(worker[v].pc, worker[v].valid))
      BY <2>0, <2>2, WorkerMoves
    <3>2. Successor(worker[v].pc, worker[v].valid) \notin {"cancel", "reject"}
      BY <2>2 DEF Successor, Then
    <3> QED
      BY <3>1, <3>2 DEF Moves
  <2>3. ASSUME NEW v \in Workers, ledgerStep(v) \/ answer(v) PROVE Goal
    <3>1. worker[v].pc \in DOMAIN Then \cup {"intend"} /\ (Advance(v) \/ Catch(v))
      BY <2>3 DEF ledgerStep, answer, Then
    <3> QED
      BY <2>1, <2>2, <3>1
  <2>4. ASSUME NEW v \in Workers, open(v) PROVE Goal
    BY <2>0, <2>4 DEF open, Processes
  <2>5. ASSUME NEW v \in Workers, callTool(v) PROVE Goal
    BY <2>0, <2>5 DEF callTool, Goes, Processes
  <2>6. ASSUME NEW v \in Workers, reconcile(v) PROVE Goal
    <3>1. \E pc \in {"succeedCall", "unknownEffect", "unknownCall", "throw"} : Goes(v, pc)
      BY <2>6 DEF reconcile
    <3> QED
      BY <2>0, <3>1, WorkerMoves DEF Moves
  <2>7. ASSUME NEW v \in Workers, heartbeat(v) PROVE Goal
    BY <2>0, <2>7 DEF heartbeat, Processes
  <2>8. ASSUME requeueExpiredForExecution PROVE Goal
    BY <2>0, <2>8 DEF requeueExpiredForExecution, Processes
  <2>9. ASSUME worker' = worker PROVE Goal
    BY <2>9
  <2>10. ASSUME NEW v \in Workers, withdraw(v) \/ release(v) \/ crash(v) \/ settle(v)
         PROVE  Goal
    <3>1. Stops(v) \/ Goes(v, "throw")
      BY <2>10 DEF withdraw, release, crash, settle
    <3> QED
      BY <2>1, <3>1
  <2>11. PICK v \in Workers : WorkerStep(v) \/ heartbeat(v) \/ crash(v) \/ worker' = worker
                              \/ requeueExpiredForExecution
    BY DEF Next, Maintenance, vars, lapse, cancellationBegins, requestCancel, read,
           revokeAccess, expire, abandonExpiredPrepared
  <2> HIDE DEF Goal
  <2>12. WorkerStep(v) => Goal
    BY <1>1, <2>3, <2>4, <2>5, <2>6, <2>9, <2>10 DEF WorkerStep, settleBegins
  <2> QED
    BY <2>7, <2>8, <2>9, <2>10, <2>11, <2>12
<1>2. ASSUME NEW v \in Workers, claimForExecution(v) PROVE Goal
  BY <1>2, ClaimMoves DEF Unclaimed, Taken
<1> HIDE DEF Goal
<1>3. Goal
  BY <1>1, <1>2
<1> QED
  BY <1>3 DEF Goal

LEMMA AccountsStart == Init => Accounts
<1> SUFFICES ASSUME Init PROVE Accounts
  OBVIOUS
<1>1. /\ db.approval = "approved" /\ db.status = "running" /\ db.intent = "none"
      /\ ledger.intent = "prepared" /\ \A w \in Workers : worker[w].pc = "idle"
  BY DEF Init, ApprovedFacts, NewFacts, NoWork
<1> QED
  BY <1>1 DEF Accounts

LEMMA AccountsStep ==
    NoExpiry /\ OneRegistration /\ IInv /\ LedgersInv /\ [Next]_vars => Accounts'
<1> SUFFICES ASSUME NoExpiry, OneRegistration, IInv, LedgersInv, [Next]_vars
             PROVE  Accounts'
  OBVIOUS
<1>0. /\ NothingFails /\ Accounts /\ db.approval = "approved"
      /\ Decided(db) /\ ~db.cancel /\ db.access => Explained(ledger)
      /\ \A w \in Workers : Owed(ledger, worker[w].pc) /\ Withdrawing(worker[w].pc)
  BY AccountsParts DEF LedgersInv
<1>1. LedgersAccount
  BY <1>0, AccountOfStep
<1>2. FactsFollow
  BY FactsOfStep
<1>3. db'.approval = "approved"
  BY <1>0, <1>2 DEF FactsFollow
<1>4. ASSUME Decided(db'), ~db'.cancel, db'.access PROVE Explained(ledger')
  <2>1. ~db.cancel /\ db.access
    BY <1>2, <1>4 DEF FactsFollow
  <2>2. \/ Decided(db)
        \/ \E w \in Workers : worker[w].pc \in {"return", "settleAnswer", "unknownAnswer"}
    BY <1>0, <1>2, <1>4, <2>1 DEF FactsFollow, Withdrawing
  <2>3. Explained(ledger)
    BY <1>0, <2>1, <2>2 DEF Owed
  <2> QED
    BY <1>1, <2>3 DEF LedgersAccount, Settling
<1>5. ASSUME NEW w \in Workers
      PROVE  /\ worker'[w].pc = "cancel" => db'.cancel
             /\ worker'[w].pc = "reject" => ~db'.access
  <2>1. worker'[w].pc \in {"cancel", "reject"} => worker'[w].pc = worker[w].pc \/ Unclaimed(w)
    BY WithdrawalOfStep
  <2> QED
    BY <1>0, <1>2, <2>1 DEF FactsFollow, Withdrawing, Unclaimed
<1> QED
  BY <1>1, <1>3, <1>4, <1>5 DEF Accounts, Decided, LedgersAccount, IntentLast, Owed, CallOver

(* The inductive invariant of the ledgers: without expiry and with one         *)
(* registration for all workers no statement records a failure, and whoever    *)
(* decides the Operation without a withdrawal left settled ledgers behind.     *)
THEOREM LedgersInvariant == NoExpiry /\ OneRegistration => (Spec => []LedgersInv)
<1> SUFFICES ASSUME NoExpiry, OneRegistration PROVE Spec => []LedgersInv
  OBVIOUS
<1>1. Init => LedgersInv
  BY UnfailedStart, AccountsStart DEF LedgersInv
<1>2. IInv /\ LedgersInv /\ [Next]_vars => LedgersInv'
  BY NothingFailsStep, AccountsStep DEF LedgersInv
<1> QED
  BY <1>1, <1>2, WorkerInvariant, PTL DEF Spec

(* Nobody leaves a dispatched call unexplained: once the Operation ended and   *)
(* was not withdrawn, its intent, call and effect are settled, also while a    *)
(* stalled worker is still somewhere in the adapter.                           *)
THEOREM DispatchesAccounted ==
    NoExpiry /\ OneRegistration => (Spec => []DispatchAccounted)
<1>1. LedgersInv => DispatchAccounted
  BY DEF LedgersInv, Accounts, DispatchAccounted, Explained, Accounted
<1> SUFFICES ASSUME NoExpiry, OneRegistration PROVE Spec => []DispatchAccounted
  OBVIOUS
<1> QED
  BY <1>1, LedgersInvariant, PTL
===============================================================================

------------------------- MODULE McpContinuation_proofs -------------------------
(* TLAPS proofs about McpContinuation, for any number of workers, faults and   *)
(* attempts, and for every combination of hazards.                             *)
EXTENDS McpContinuation, GatewayStore_proofs

WorkerTransactions == [op : {"requestCancellation"}] \cup Settlements

ProcessSound(p) == p \in Processes /\ (p.pc = "return" => p.outcome # "none")

\* The parts of IInv that belong to the store, to a process and to the job.
LEMMA InvariantParts ==
    IInv => /\ Sound(db) /\ db \in Facts
            /\ tx \in {Idle} \cup WorkerTransactions
            /\ ledger \in Ledgers
            /\ worker \in [Workers -> Processes]
            /\ \A w \in Workers : ProcessSound(worker[w])
            /\ attempts \in 0..MaxAttempts /\ faults \in 0..MaxFaults
            /\ db.job => attempts < MaxAttempts
  BY DEF IInv, TypeOK, TerminalUnique, Sound, WorkerTransactions, ProcessSound

(* The transactions of the workers are transactions of the store, and none of  *)
(* them is an approval.                                                        *)
LEMMA WorkersIssue ==
    /\ Cancelling \in WorkerTransactions /\ Cancelling \in Transactions
    /\ Cancelling.op # "resolveApproval"
    /\ \A op \in {"read", "cancelContinuation", "rejectContinuationAuthorization"} :
          [op |-> op] \in Transactions /\ [op |-> op].op # "resolveApproval"
    /\ \A w \in Workers : IInv /\ worker[w].pc = "return"
         => /\ Settlement(w) \in WorkerTransactions /\ Settlement(w) \in Transactions
            /\ Settlement(w).op # "resolveApproval"
<1>1. Settlements \subseteq Transactions
  BY DEF Settlements, Transactions, Settled, Outcomes, Failures
<1>2. ASSUME NEW w \in Workers, IInv, worker[w].pc = "return"
      PROVE  Settlement(w) \in Settlements /\ Settlement(w).op # "resolveApproval"
  <2>1. worker[w] \in Processes /\ worker[w].outcome # "none"
    BY <1>2, InvariantParts DEF ProcessSound
  <2> QED
    BY <2>1 DEF Settlement, Settlements, Processes
<1> QED
  BY <1>1, <1>2 DEF Cancelling, WorkerTransactions, Transactions

-------------------------------------------------------------------------------
(* The facts.                                                                  *)

(* What a step may do to the facts: keep them sound, and not enqueue a job.    *)
StoreSafe == Kept(db, db') /\ db'.job = db.job

LEMMA CommitSafe ==
    ASSUME IInv, NEW t \in Transactions, t.op # "resolveApproval", Commits(t)
    PROVE  StoreSafe
  BY InvariantParts, CommitKept DEF StoreSafe, KeepsJob

LEMMA UnchangedSafe == ASSUME IInv, db' = db PROVE StoreSafe
  BY InvariantParts, SameStream DEF StoreSafe

(* A step that touches neither stream nor status keeps the facts sound.        *)
LEMMA PatchSafe ==
    ASSUME IInv, db' \in Facts, db'.status = db.status, db'.events = db.events
    PROVE  Kept(db, db')
  BY InvariantParts, SameStream

\* Giving a job back is such a step, and takes an attempt that is left.
LEMMA RequeuedFacts ==
    ASSUME NEW d \in Facts, NEW w
    PROVE  /\ Requeued(d, w) \in Facts /\ Requeued(d, w).status = d.status
           /\ Requeued(d, w).events = d.events
           /\ Silent(d, Requeued(d, w))
           /\ Requeued(d, w).intent = d.intent /\ Requeued(d, w).assistant = d.assistant
           /\ Requeued(d, w).job => d.job \/ attempts < MaxAttempts
<1> DEFINE queue == d.job \/ (worker[w].queued /\ attempts < MaxAttempts)
<1>1. Requeued(d, w) = [d EXCEPT !.job = queue]
  BY DEF Requeued
<1>2. queue \in BOOLEAN
  OBVIOUS
<1>3. queue => d.job \/ attempts < MaxAttempts
  OBVIOUS
<1> HIDE DEF queue
<1> QED
  BY <1>1, <1>2, <1>3 DEF Facts, Silent

(* The facts stay sound, and a queued job always has an attempt left.          *)
LEMMA FactsStep ==
    ASSUME IInv, [Next]_vars
    PROVE  /\ Kept(db, db')
           /\ attempts' \in 0..MaxAttempts
           /\ db'.job => attempts' < MaxAttempts
<1> DEFINE Goal == /\ Kept(db, db')
                   /\ attempts' \in 0..MaxAttempts
                   /\ db'.job => attempts' < MaxAttempts
<1>0. /\ Sound(db) /\ db \in Facts /\ attempts \in 0..MaxAttempts
      /\ db.job => attempts < MaxAttempts
  BY InvariantParts
<1>1. ASSUME db' = db, attempts' = attempts PROVE Goal
  BY <1>0, <1>1, UnchangedSafe DEF StoreSafe
<1>2. ASSUME StoreSafe, attempts' = attempts PROVE Goal
  BY <1>0, <1>2 DEF StoreSafe
<1>3. ASSUME NEW d \in Facts, NEW w \in Workers, d.status = db.status, d.events = db.events,
             d.job = db.job, db' = Requeued(d, w), attempts' = attempts
      PROVE  Goal
  <2>1. db' \in Facts /\ db'.status = db.status /\ db'.events = db.events
    BY <1>3, RequeuedFacts
  <2>2. db'.job => db.job \/ attempts < MaxAttempts
    BY <1>3, RequeuedFacts
  <2> QED
    BY <1>0, <1>3, <2>1, <2>2, PatchSafe
<1>4. ASSUME NEW w \in Workers, claimForExecution(w) PROVE Goal
  <2> DEFINE taken == [db EXCEPT !.job = FALSE]
             leased == [taken EXCEPT !.cont = Claimed(@, w, 1)]
  <2>1. Claimed(db.cont, w, 1) \in Continuations
    BY <1>0, ClaimedContinuation DEF Facts
  <2>2. /\ taken \in Facts /\ taken.status = db.status /\ taken.events = db.events
        /\ taken.job = FALSE /\ taken.cont = db.cont
    BY <1>0 DEF Facts
  <2>3. /\ leased \in Facts /\ leased.status = db.status /\ leased.events = db.events
        /\ leased.job = FALSE
    BY <1>0, <2>1 DEF Facts
  <2>4. db' = taken \/ db' = leased
    BY <1>4 DEF claimForExecution
  <2>5. Kept(db, db') /\ db'.job = FALSE
    <3> HIDE DEF taken, leased
    <3> QED
      BY <2>2, <2>3, <2>4, PatchSafe
  <2>6. attempts' = attempts + 1 /\ db.job
    BY <1>4 DEF claimForExecution
  <2>7. attempts' \in 0..MaxAttempts
    BY <1>0, <2>6, HazardsAssumption
  <2> QED
    BY <2>5, <2>7
<1>5. ASSUME NEW w \in Workers, withdraw(w) PROVE Goal
  <2> DEFINE t == [op |-> IF worker[w].pc = "cancel" THEN "cancelContinuation"
                          ELSE "rejectContinuationAuthorization"]
  <2>1. t \in Transactions /\ t.op # "resolveApproval"
    BY WorkersIssue
  <2>2. Commits(t) \/ db' = Requeued(db, w)
    BY <1>5 DEF withdraw
  <2>3. attempts' = attempts
    BY <1>5 DEF withdraw
  <2> HIDE DEF t
  <2>4. CASE Commits(t)
    BY <1>2, <2>1, <2>3, <2>4, CommitSafe
  <2>5. CASE db' = Requeued(db, w)
    BY <1>0, <1>3, <2>3, <2>5
  <2> QED
    BY <2>2, <2>4, <2>5
<1>6. ASSUME NEW w \in Workers, answer(w) PROVE Goal
  <2> DEFINE outcome == Answers[worker[w].pc]
  <2>1. outcome \in Outcomes /\ attempts' = attempts
    BY <1>6 DEF answer, Answers, Outcomes, Failures
  <2>2. db' = db \/ db' \in settlePlatformTurn(db, outcome)
    BY <1>6 DEF answer
  <2> HIDE DEF outcome
  <2>3. ASSUME db' \in settlePlatformTurn(db, outcome) PROVE StoreSafe
    BY <1>0, <2>1, <2>3, AnswerKept DEF StoreSafe
  <2> QED
    BY <1>1, <1>2, <2>1, <2>2, <2>3
<1>7. ASSUME NEW w \in Workers, settle(w) PROVE Goal
  <2>1. Settlement(w) \in Transactions /\ Settlement(w).op # "resolveApproval"
    BY <1>7, WorkersIssue DEF settle
  <2>2. db' = db \/ Commits(Settlement(w))
    BY <1>7 DEF settle, Throws, RollsBack, store
  <2>3. attempts' = attempts
    BY <1>7 DEF settle
  <2> QED
    BY <1>1, <1>2, <2>1, <2>2, <2>3, CommitSafe
<1>8. ASSUME NEW w \in Workers, release(w) PROVE Goal
  <2> DEFINE d == [db EXCEPT !.cont = IF OperationOpen /\ Held(w)
                                      THEN Unleased(@, "ready", "none") ELSE @]
  <2>1. Unleased(db.cont, "ready", "none") \in Continuations
    BY <1>0, UnleasedContinuation DEF Facts, Active, ContinuationFailures
  <2>2. d \in Facts /\ d.status = db.status /\ d.events = db.events /\ d.job = db.job
    BY <1>0, <2>1 DEF Facts
  <2>3. db' = Requeued(d, w) \/ db' = Requeued(db, w)
    BY <1>8 DEF release
  <2>4. attempts' = attempts
    BY <1>8 DEF release
  <2> HIDE DEF d
  <2> QED
    BY <1>0, <1>3, <2>2, <2>3, <2>4
<1>9. ASSUME NEW w \in Workers, crash(w) PROVE Goal
  BY <1>0, <1>3, <1>9 DEF crash
<1>10. ASSUME lapse \/ revokeAccess \/ expire PROVE Goal
  <2> DEFINE lapsed == [db EXCEPT !.cont.expires = 0]
             revoked == [db EXCEPT !.access = FALSE]
             expired == [db EXCEPT !.expired = TRUE]
  <2>1. [db.cont EXCEPT !.expires = 0] \in Continuations
    BY <1>0, PatchedContinuation DEF Facts
  <2>2. /\ lapsed \in Facts /\ lapsed.status = db.status /\ lapsed.events = db.events
        /\ lapsed.job = db.job
        /\ revoked \in Facts /\ revoked.status = db.status /\ revoked.events = db.events
        /\ revoked.job = db.job
        /\ expired \in Facts /\ expired.status = db.status /\ expired.events = db.events
        /\ expired.job = db.job
    BY <1>0, <2>1 DEF Facts
  <2>3. db' \in {lapsed, revoked, expired} /\ attempts' = attempts
    BY <1>10 DEF lapse, revokeAccess, expire
  <2> HIDE DEF lapsed, revoked, expired
  <2>4. StoreSafe
    BY <2>2, <2>3, PatchSafe DEF StoreSafe
  <2> QED
    BY <1>2, <2>3, <2>4
<1>11. ASSUME requeueExpiredForExecution PROVE Goal
  <2> DEFINE queued == [db EXCEPT !.job = TRUE]
  <2>1. queued \in Facts /\ queued.status = db.status /\ queued.events = db.events
    BY <1>0 DEF Facts
  <2>2. db' = queued /\ attempts' = 0
    BY <1>11 DEF requeueExpiredForExecution
  <2> HIDE DEF queued
  <2>3. Kept(db, db')
    BY <2>1, <2>2, PatchSafe
  <2>4. 0 \in 0..MaxAttempts /\ 0 < MaxAttempts
    BY HazardsAssumption
  <2> QED
    BY <2>2, <2>3, <2>4
<1>12. ASSUME requestCancel PROVE Goal
  <2>1. db' = db \/ Commits(Cancelling)
    BY <1>12 DEF requestCancel, Throws
  <2>2. attempts' = attempts
    BY <1>12 DEF requestCancel
  <2> QED
    BY <1>1, <1>2, <2>1, <2>2, WorkersIssue, CommitSafe
<1>13. ASSUME read PROVE Goal
  <2>1. attempts' = attempts /\ Commits([op |-> "read"])
    BY <1>13 DEF read
  <2> QED
    BY <1>2, <2>1, WorkersIssue, CommitSafe
<1>14. ASSUME db' = db /\ attempts' = attempts PROVE Goal
  BY <1>1, <1>14
<1> HIDE DEF Goal
<1>15. Goal
  BY <1>4, <1>5, <1>6, <1>7, <1>8, <1>9, <1>10, <1>11, <1>12, <1>13, <1>14
     DEF Next, WorkerStep, Maintenance, vars, store, open, ledgerStep, callTool, reconcile,
         settleBegins, Begins, heartbeat, abandonExpiredPrepared, cancellationBegins
<1> QED
  BY <1>15 DEF Goal

-------------------------------------------------------------------------------
(* Lock, ledgers and faults.                                                   *)

(* Only a cancellation or a settlement ever holds the lock half-way.           *)
LEMMA LockStep == ASSUME IInv, [Next]_vars PROVE tx' \in {Idle} \cup WorkerTransactions
<1>1. tx \in {Idle} \cup WorkerTransactions
  BY InvariantParts
<1>2. ASSUME NEW w \in Workers, settleBegins(w) PROVE tx' \in {Idle} \cup WorkerTransactions
  BY <1>2, WorkersIssue DEF settleBegins, Begins
<1>3. ASSUME cancellationBegins PROVE tx' \in {Idle} \cup WorkerTransactions
  BY <1>3, WorkersIssue DEF cancellationBegins, Begins
<1>4. CASE tx' = tx \/ tx' = Idle
  BY <1>1, <1>4
<1> QED
  BY <1>2, <1>3, <1>4
     DEF Next, WorkerStep, Maintenance, vars, store, claimForExecution, withdraw, open,
         ledgerStep, callTool, reconcile, answer, settle, release, heartbeat, crash, lapse,
         requeueExpiredForExecution, requestCancel, read, revokeAccess, expire,
         abandonExpiredPrepared, Commits, Throws, RollsBack, Finishing

(* Every statement of the adapter leaves well-formed ledgers.                  *)
LEMMA StatementLedgers ==
    ASSUME NEW l \in Ledgers, NEW pc \in AdapterPcs \ {"settleAnswer", "unknownAnswer",
                                                       "open", "reconcile", "callTool"},
           NEW r \in Statement(l, pc)
    PROVE  r \in Ledgers
<1>1. \A st \in {"succeeded", "failed", "outcome_unknown"} : callSettle(l, st) \subseteq Ledgers
  BY DEF callSettle, Ledgers
<1>2. \A st \in {"completed", "failed", "outcome_unknown"} : intentSettle(l, st) \subseteq Ledgers
  BY DEF intentSettle, Ledgers
<1>3. \A st \in {"committed", "failed", "outcome_unknown"} : effectSettle(l, st) \subseteq Ledgers
  BY DEF effectSettle, Ledgers
<1>4. effectIntend(l) \subseteq Ledgers
  BY DEF effectIntend, Ledgers
<1>5. markRunning(l) \subseteq Ledgers
  BY DEF markRunning, Ledgers
<1>6. markDispatching(l) \subseteq Ledgers
  BY DEF markDispatching, Ledgers
<1> QED
  BY <1>1, <1>2, <1>3, <1>4, <1>5, <1>6 DEF Statement, AdapterPcs

LEMMA LedgerStep == ASSUME IInv, [Next]_vars PROVE ledger' \in Ledgers
<1>1. ledger \in Ledgers
  BY InvariantParts
<1>2. ASSUME NEW w \in Workers, ledgerStep(w) PROVE ledger' \in Ledgers
  <2>1. worker[w].pc \in AdapterPcs \ {"settleAnswer", "unknownAnswer", "open", "reconcile",
                                       "callTool"}
    BY <1>2 DEF ledgerStep, Then, AdapterPcs
  <2>2. ledger' = ledger \/ ledger' \in Statement(ledger, worker[w].pc)
    BY <1>2 DEF ledgerStep
  <2> QED
    BY <1>1, <2>1, <2>2, StatementLedgers
<1>3. ASSUME NEW w \in Workers, callTool(w) PROVE ledger' \in Ledgers
  <2>1. ledger' = ledger \/ ledger' = [ledger EXCEPT !.dispatched = @ + 1]
    BY <1>3 DEF callTool
  <2>2. ledger.dispatched + 1 \in Nat
    BY <1>1 DEF Ledgers
  <2> QED
    BY <1>1, <2>1, <2>2 DEF Ledgers
<1>4. ASSUME abandonExpiredPrepared PROVE ledger' \in Ledgers
  BY <1>1, <1>4 DEF abandonExpiredPrepared, Ledgers
<1> QED
  BY <1>1, <1>2, <1>3, <1>4
     DEF Next, WorkerStep, Maintenance, vars, claimForExecution, withdraw, open,
         reconcile, answer, settleBegins, settle, release, heartbeat, crash, lapse,
         requeueExpiredForExecution, cancellationBegins, requestCancel, read, revokeAccess,
         expire

LEMMA FaultStep == ASSUME IInv, [Next]_vars PROVE faults' \in 0..MaxFaults
<1>1. faults \in 0..MaxFaults
  BY InvariantParts
<1>2. faults' = faults \/ \E kind \in Faults : Fault(kind)
  BY DEF Next, WorkerStep, Maintenance, vars, claimForExecution, withdraw, open, ledgerStep,
         callTool, reconcile, answer, settleBegins, settle, release, heartbeat, crash, lapse,
         requeueExpiredForExecution, cancellationBegins, requestCancel, read, revokeAccess,
         expire, abandonExpiredPrepared, Faults
<1>3. (\E kind \in Faults : Fault(kind)) => faults' \in 0..MaxFaults
  BY <1>1, HazardsAssumption DEF Fault
<1> QED
  BY <1>1, <1>2, <1>3

-------------------------------------------------------------------------------
(* The processes.                                                              *)

WorkersSound == worker \in [Workers -> Processes] /\ \A w \in Workers : ProcessSound(worker[w])

(* A step that writes one sound process leaves all of them sound.              *)
LEMMA OneProcess ==
    ASSUME WorkersSound, NEW w \in Workers, NEW p, ProcessSound(p),
           worker' = [worker EXCEPT ![w] = p]
    PROVE  WorkersSound'
  BY DEF WorkersSound, ProcessSound

(* A process may go anywhere but back to its task without an outcome.          *)
LEMMA GoesSound ==
    ASSUME WorkersSound, NEW w \in Workers,
           NEW pc \in Leased \cup {"idle", "cancel", "reject"}, pc # "return",
           Goes(w, pc)
    PROVE  WorkersSound'
<1> DEFINE p == [worker[w] EXCEPT !.pc = pc]
<1>1. worker[w] \in Processes
  BY DEF WorkersSound
<1>2. p \in Processes /\ p.pc = pc
  BY <1>1 DEF Processes
<1>3. worker' = [worker EXCEPT ![w] = p]
  BY DEF Goes
<1> HIDE DEF p
<1> QED
  BY <1>2, <1>3, OneProcess DEF ProcessSound

LEMMA StopsSound == ASSUME WorkersSound, NEW w \in Workers, Stops(w) PROVE WorkersSound'
<1>1. ProcessSound(NoWork)
  BY DEF ProcessSound, NoWork, Processes
<1> QED
  BY <1>1, OneProcess DEF Stops

LEMMA CatchSound == ASSUME WorkersSound, NEW w \in Workers, Catch(w) PROVE WorkersSound'
<1> DEFINE p == [worker[w] EXCEPT !.pc = "reconcile", !.recovering = TRUE]
<1>1. p \in Processes /\ p.pc = "reconcile"
  BY DEF WorkersSound, Processes, Leased, AdapterPcs
<1>2. CASE Goes(w, "throw")
  BY <1>2, GoesSound DEF Leased
<1>3. CASE worker' = [worker EXCEPT ![w].pc = "reconcile", ![w].recovering = TRUE]
  <2>1. worker' = [worker EXCEPT ![w] = p]
    BY <1>3 DEF WorkersSound
  <2> HIDE DEF p
  <2> QED
    BY <1>1, <2>1, OneProcess DEF ProcessSound
<1> QED
  BY <1>2, <1>3 DEF Catch

(* Whatever ends the adapter sets the outcome.                                 *)
LEMMA AdvanceSound ==
    ASSUME WorkersSound, NEW w \in Workers, Advance(w),
           worker[w].pc \in DOMAIN Then \cup {"intend"}
    PROVE  WorkersSound'
<1> DEFINE pc == worker[w].pc
           next == IF pc # "intend" THEN Then[pc]
                   ELSE IF worker[w].valid THEN "dispatch" ELSE "failEffect"
           outcome == IF pc \in DOMAIN Answers THEN Answers[pc] ELSE worker[w].outcome
           p == [worker[w] EXCEPT !.pc = next, !.outcome = outcome]
<1>1. worker[w] \in Processes
  BY DEF WorkersSound
<1>2. next \in Leased
  BY DEF Then, Leased, AdapterPcs
<1>3. outcome \in {"none"} \cup Settled
  BY <1>1 DEF Answers, Settled, Processes
<1>4. next = "return" => outcome # "none"
  BY DEF Then, Answers
<1>5. worker' = [worker EXCEPT ![w].pc = next, ![w].outcome = outcome]
  BY DEF Advance
<1> HIDE DEF next, outcome
<1>6. worker' = [worker EXCEPT ![w] = p]
  BY <1>5 DEF WorkersSound
<1>7. p \in Processes /\ p.pc = next /\ p.outcome = outcome
  BY <1>1, <1>2, <1>3 DEF Processes
<1> HIDE DEF p
<1> QED
  BY <1>4, <1>6, <1>7, OneProcess DEF ProcessSound

LEMMA ProcessStep == ASSUME IInv, [Next]_vars PROVE WorkersSound'
<1>0. WorkersSound
  BY InvariantParts DEF WorkersSound
<1>1. CASE worker' = worker
  BY <1>0, <1>1 DEF WorkersSound, ProcessSound
<1>2. ASSUME NEW w \in Workers, claimForExecution(w) PROVE WorkersSound'
  <2> DEFINE started == [NoWork EXCEPT !.queued = TRUE]
             cancels == [started EXCEPT !.pc = "cancel"]
             rejects == [started EXCEPT !.pc = "reject"]
             opens(adapter) ==
                 [started EXCEPT !.gen = db.cont.gen + 1,
                                 !.pc = IF adapter THEN "open" ELSE "return",
                                 !.outcome = IF adapter THEN @ ELSE "CAPABILITY_UNAVAILABLE"]
  <2>1. db.cont.gen + 1 \in Nat
    BY InvariantParts DEF Facts, Continuations
  <2>2. /\ ProcessSound(NoWork) /\ ProcessSound(cancels) /\ ProcessSound(rejects)
        /\ \A adapter \in BOOLEAN : ProcessSound(opens(adapter))
    BY <2>1 DEF ProcessSound, NoWork, Processes, Leased, AdapterPcs, Settled
  <2>3. \/ \E p \in {NoWork, cancels, rejects} : worker' = [worker EXCEPT ![w] = p]
        \/ \E adapter \in BOOLEAN : worker' = [worker EXCEPT ![w] = opens(adapter)]
    BY <1>2 DEF claimForExecution
  <2> HIDE DEF cancels, rejects, opens
  <2> QED
    BY <1>0, <2>2, <2>3, OneProcess
<1>3. ASSUME NEW w \in Workers, withdraw(w) \/ release(w) \/ crash(w) PROVE WorkersSound'
  BY <1>0, <1>3, StopsSound DEF withdraw, release, crash
<1>4. ASSUME NEW w \in Workers, open(w) PROVE WorkersSound'
  <2>1. PICK valid \in BOOLEAN :
          worker' = [worker EXCEPT ![w] =
            CASE ledger.intent = "prepared" -> [@ EXCEPT !.pc = "markRunning", !.valid = valid]
              [] ledger.intent = "completed" -> [@ EXCEPT !.pc = "succeedCall", !.recovering = TRUE]
              [] ledger.intent = "dispatching" -> [@ EXCEPT !.pc = "reconcile", !.recovering = TRUE]
              [] OTHER -> [@ EXCEPT !.pc = "return", !.outcome = "RUNTIME_FAILED"]]
    BY <1>4 DEF open
  <2> DEFINE p1 == [worker[w] EXCEPT !.pc = "markRunning", !.valid = valid]
             p2 == [worker[w] EXCEPT !.pc = "succeedCall", !.recovering = TRUE]
             p3 == [worker[w] EXCEPT !.pc = "reconcile", !.recovering = TRUE]
             p4 == [worker[w] EXCEPT !.pc = "return", !.outcome = "RUNTIME_FAILED"]
  <2>2. worker[w] \in Processes
    BY <1>0 DEF WorkersSound
  <2>3. ProcessSound(p1) /\ ProcessSound(p2) /\ ProcessSound(p3) /\ ProcessSound(p4)
    BY <2>2 DEF ProcessSound, Processes, Leased, AdapterPcs, Settled
  <2>4. \E p \in {p1, p2, p3, p4} : worker' = [worker EXCEPT ![w] = p]
    BY <1>0, <2>1 DEF WorkersSound
  <2> HIDE DEF p1, p2, p3, p4
  <2> QED
    BY <1>0, <2>3, <2>4, OneProcess
<1>5. ASSUME NEW w \in Workers, ledgerStep(w) PROVE WorkersSound'
  BY <1>0, <1>5, AdvanceSound, CatchSound DEF ledgerStep
<1>6. ASSUME NEW w \in Workers, answer(w) PROVE WorkersSound'
  <2>1. worker[w].pc \in DOMAIN Then
    BY <1>6 DEF answer, Then
  <2> QED
    BY <1>0, <1>6, <2>1, AdvanceSound, CatchSound DEF answer
<1>7. ASSUME NEW w \in Workers, callTool(w) PROVE WorkersSound'
  <2> DEFINE p == [worker[w] EXCEPT !.pc = "reconcile", !.recovering = TRUE]
  <2>1. p \in Processes /\ p.pc = "reconcile"
    BY <1>0 DEF WorkersSound, Processes, Leased, AdapterPcs
  <2>2. Goes(w, "commitEffect") \/ worker' = [worker EXCEPT ![w] = p]
    BY <1>0, <1>7 DEF callTool, WorkersSound
  <2> HIDE DEF p
  <2> QED
    BY <1>0, <2>1, <2>2, GoesSound, OneProcess DEF ProcessSound, Leased, AdapterPcs
<1>8. ASSUME NEW w \in Workers, reconcile(w) PROVE WorkersSound'
  <2>1. \E pc \in {"succeedCall", "unknownEffect", "unknownCall", "throw"} : Goes(w, pc)
    BY <1>8 DEF reconcile
  <2> QED
    BY <1>0, <2>1, GoesSound DEF Leased, AdapterPcs
<1>9. ASSUME NEW w \in Workers, settle(w) PROVE WorkersSound'
  BY <1>0, <1>9, GoesSound, StopsSound DEF settle, Leased
<1>10. ASSUME NEW w \in Workers, heartbeat(w) PROVE WorkersSound'
  <2> DEFINE p == [worker[w] EXCEPT !.aborted = TRUE]
  <2>1. ProcessSound(p)
    BY <1>0 DEF WorkersSound, ProcessSound, Processes
  <2>2. worker' = [worker EXCEPT ![w] = p]
    BY <1>10, <1>0 DEF heartbeat, WorkersSound
  <2> HIDE DEF p
  <2> QED
    BY <1>0, <2>1, <2>2, OneProcess
<1>11. ASSUME requeueExpiredForExecution PROVE WorkersSound'
  BY <1>0, <1>11 DEF requeueExpiredForExecution, WorkersSound, ProcessSound, Processes
<1> QED
  BY <1>1, <1>2, <1>3, <1>4, <1>5, <1>6, <1>7, <1>8, <1>9, <1>10, <1>11
     DEF Next, WorkerStep, Maintenance, vars, settleBegins, lapse, cancellationBegins,
         requestCancel, read, revokeAccess, expire, abandonExpiredPrepared

-------------------------------------------------------------------------------
(* Where a worker goes.                                                        *)

\* Where the adapter goes after a statement.
Successor(pc, valid) ==
    IF pc # "intend" THEN Then[pc] ELSE IF valid THEN "dispatch" ELSE "failEffect"

\* A worker goes to pc, with the claim that it had; the others stay.
Moves(w, pc) ==
    /\ worker'[w].pc = pc /\ worker'[w].gen = worker[w].gen
    /\ \A v \in Workers \ {w} : worker'[v] = worker[v]

(* Goes, Stops, Catch and Advance, as far as program counters are concerned.   *)
LEMMA WorkerMoves ==
    ASSUME worker \in [Workers -> Processes], NEW w \in Workers
    PROVE  /\ \A pc : Goes(w, pc) => Moves(w, pc)
           /\ Stops(w) => /\ worker'[w].pc = "idle"
                          /\ \A v \in Workers \ {w} : worker'[v] = worker[v]
           /\ Catch(w) => \/ Moves(w, "throw")
                          \/ /\ Moves(w, "reconcile")
                             /\ worker[w].pc \in {"commitEffect", "succeedCall",
                                                  "completeIntent", "settleAnswer"}
           /\ Advance(w) => /\ Moves(w, Successor(worker[w].pc, worker[w].valid))
                            /\ worker'[w].valid = worker[w].valid
<1>1. \A pc : Goes(w, pc) => Moves(w, pc)
  BY DEF Goes, Processes, Moves
<1>2. Stops(w) => /\ worker'[w].pc = "idle"
                  /\ \A v \in Workers \ {w} : worker'[v] = worker[v]
  BY DEF Stops, NoWork
<1>3. Catch(w) => \/ Moves(w, "throw")
                  \/ /\ Moves(w, "reconcile")
                     /\ worker[w].pc \in {"commitEffect", "succeedCall",
                                          "completeIntent", "settleAnswer"}
  <2>1. CASE Goes(w, "throw")
    BY <1>1, <2>1
  <2>2. CASE Catch(w) /\ ~Goes(w, "throw")
    BY <2>2 DEF Catch, Processes, Moves
  <2> QED
    BY <2>1, <2>2
<1>4. Advance(w) => /\ Moves(w, Successor(worker[w].pc, worker[w].valid))
                    /\ worker'[w].valid = worker[w].valid
  <2> DEFINE next == Successor(worker[w].pc, worker[w].valid)
             outcome == IF worker[w].pc \in DOMAIN Answers THEN Answers[worker[w].pc]
                        ELSE worker[w].outcome
  <2>1. Advance(w) => worker' = [worker EXCEPT ![w].pc = next, ![w].outcome = outcome]
    BY DEF Advance, Successor
  <2> HIDE DEF next, outcome
  <2>2. Advance(w) => Moves(w, next) /\ worker'[w].valid = worker[w].valid
    BY <2>1 DEF Processes, Moves
  <2> QED
    BY <2>2 DEF next
<1> QED
  BY <1>1, <1>2, <1>3, <1>4

\* A claim that got no lease, and one that did.
Unclaimed(w) ==
    /\ worker'[w].pc \in {"idle", "cancel", "reject"} /\ db'.cont = db.cont
    /\ worker'[w].pc = "cancel" => db.cancel
    /\ worker'[w].pc = "reject" => ~db.access \/ db.approval # "approved"

Taken(w) ==
    /\ worker'[w].pc = "open" \/ (worker'[w].pc = "return" /\ "unregistered" \in Hazards)
    /\ worker'[w].gen = db.cont.gen + 1
    /\ db.status = "running" /\ Claimable(db.cont, 0)
    /\ db'.cont = Claimed(db.cont, w, 1)

(* A claim starts a worker that was idle; with a lease it has the next         *)
(* generation, and nobody held a live one.                                     *)
LEMMA ClaimMoves ==
    ASSUME IInv, NEW w \in Workers, claimForExecution(w)
    PROVE  /\ worker[w].pc = "idle" /\ \A v \in Workers \ {w} : worker'[v] = worker[v]
           /\ ledger' = ledger
           /\ Unclaimed(w) \/ Taken(w)
<1> DEFINE taken == [db EXCEPT !.job = FALSE]
           leased == [taken EXCEPT !.cont = Claimed(@, w, 1)]
           started == [NoWork EXCEPT !.queued = TRUE]
           cancels == [started EXCEPT !.pc = "cancel"]
           rejects == [started EXCEPT !.pc = "reject"]
           opens(adapter) ==
               [started EXCEPT !.gen = db.cont.gen + 1,
                               !.pc = IF adapter THEN "open" ELSE "return",
                               !.outcome = IF adapter THEN @ ELSE "CAPABILITY_UNAVAILABLE"]
<1>1. /\ NoWork.pc = "idle" /\ cancels.pc = "cancel" /\ rejects.pc = "reject"
      /\ opens(TRUE).gen = db.cont.gen + 1 /\ opens(FALSE).gen = db.cont.gen + 1
      /\ opens(TRUE).pc = "open" /\ opens(FALSE).pc = "return"
  BY DEF NoWork
<1>2. taken.cont = db.cont /\ leased.cont = Claimed(db.cont, w, 1)
  BY InvariantParts DEF Facts
<1>3. /\ worker[w].pc = "idle" /\ ledger' = ledger
      /\ \/ /\ db' = taken
            /\ \/ worker' = [worker EXCEPT ![w] = NoWork]
               \/ worker' = [worker EXCEPT ![w] = cancels] /\ db.cancel
               \/ /\ worker' = [worker EXCEPT ![w] = rejects]
                  /\ ~db.access \/ db.approval # "approved"
         \/ /\ db' = leased /\ db.status = "running" /\ Claimable(db.cont, 0)
            /\ \E adapter \in {TRUE, "unregistered" \notin Hazards} :
                  worker' = [worker EXCEPT ![w] = opens(adapter)]
  BY DEF claimForExecution
<1> HIDE DEF taken, leased, cancels, rejects, opens
<1>4. \A p : worker' = [worker EXCEPT ![w] = p] =>
          worker'[w] = p /\ \A v \in Workers \ {w} : worker'[v] = worker[v]
  BY InvariantParts
<1>5. (\E adapter \in {TRUE, "unregistered" \notin Hazards} :
          worker' = [worker EXCEPT ![w] = opens(adapter)])
        => \/ worker' = [worker EXCEPT ![w] = opens(TRUE)]
           \/ worker' = [worker EXCEPT ![w] = opens(FALSE)] /\ "unregistered" \in Hazards
  BY Zenon
<1>6. CASE db' = taken /\ worker' = [worker EXCEPT ![w] = NoWork]
  BY <1>1, <1>2, <1>3, <1>4, <1>6 DEF Unclaimed
<1>7. CASE db' = taken /\ worker' = [worker EXCEPT ![w] = cancels] /\ db.cancel
  BY <1>1, <1>2, <1>3, <1>4, <1>7 DEF Unclaimed
<1>8. CASE /\ db' = taken /\ worker' = [worker EXCEPT ![w] = rejects]
           /\ ~db.access \/ db.approval # "approved"
  BY <1>1, <1>2, <1>3, <1>4, <1>8 DEF Unclaimed
<1>9. CASE /\ db' = leased /\ db.status = "running" /\ Claimable(db.cont, 0)
           /\ \/ worker' = [worker EXCEPT ![w] = opens(TRUE)]
              \/ worker' = [worker EXCEPT ![w] = opens(FALSE)] /\ "unregistered" \in Hazards
  BY <1>1, <1>2, <1>3, <1>4, <1>9 DEF Taken
<1> QED
  BY <1>3, <1>5, <1>6, <1>7, <1>8, <1>9

-------------------------------------------------------------------------------
(* What the steps do to the decision and to the continuation.                  *)

Decided(d) == d.status # "running" \/ d.intent # "none"

\* Requests and revocations stand, and only the worker that holds the
\* continuation, a cancellation or a refusal decides.
FactsFollow ==
    /\ db.cancel => db'.cancel
    /\ ~db.access => ~db'.access
    /\ db.approval = "approved" => db'.approval = "approved"
    /\ db'.status = "running" =>
          \/ db'.cont = db.cont
          \/ lapse \/ \E w \in Workers : claimForExecution(w) \/ release(w)
    /\ Decided(db') =>
          \/ Decided(db) \/ db'.cancel
          \/ \E w \in Workers :
                worker[w].pc \in {"reject", "return", "settleAnswer", "unknownAnswer"}

(* Facts that differ in events, expiry, job or answer only.                    *)
LEMMA SameDecision ==
    ASSUME db'.status = db.status, db'.intent = db.intent, db'.cancel = db.cancel,
           db'.access => db.access, db'.approval = db.approval, db'.cont = db.cont
    PROVE  FactsFollow
  BY DEF FactsFollow, Decided

(* What the transactions of the workers, a reader or a canceller may change.   *)
LEMMA CommitEffect ==
    ASSUME Sound(db), NEW t \in Transactions, t.op \notin {"append", "resolveApproval"},
           Commits(t)
    PROVE  /\ db.cancel => db'.cancel
           /\ db'.access = db.access
           /\ db.approval = "approved" => db'.approval = "approved"
           /\ db'.status = "running" => db'.cont = db.cont
           /\ Decided(db') => \/ Decided(db) \/ db'.cancel
                              \/ t.op \in {"rejectContinuationAuthorization",
                                           "settleContinuation"}
<1> DEFINE Goal(d) ==
             /\ d.cancel => db'.cancel
             /\ db'.access = d.access
             /\ d.approval = "approved" => db'.approval = "approved"
             /\ db'.status = "running" => db'.cont = d.cont
             /\ Decided(db') => \/ Decided(d) \/ db'.cancel
                                \/ t.op \in {"rejectContinuationAuthorization",
                                             "settleContinuation"}
<1>1. PICK d \in {db, reconciled(db)} : db' \in body(d, t)
  BY DEF Commits, Pending, Results
<1>2. /\ d \in Facts /\ d.cont = db.cont /\ d.approval = db.approval
      /\ d.cancel = db.cancel /\ d.access = db.access /\ (~Decided(db) => d = db)
  BY ReconcileEffect DEF Sound, Decided
<1>3. CASE t.op = "read"
  <2>1. db' = d
    BY <1>1, <1>3 DEF body
  <2> QED
    BY <1>2, <2>1
<1>4. CASE t.op = "requestCancellation"
  <2>1. db' \in requestCancellation(d)
    BY <1>1, <1>4 DEF body
  <2>2. Goal(d)
    BY <1>2, <2>1, RequestEffect DEF Decided
  <2> QED
    BY <1>2, <2>2
<1>5. CASE t.op = "cancelContinuation"
  <2>1. db' \in cancelContinuationWithinTransaction(d, Active) /\ d.cancel
    BY <1>1, <1>5 DEF body, cancelContinuation
  <2>2. Goal(d)
    BY <1>2, <2>1, CancelEffect
  <2> QED
    BY <1>2, <2>2
<1>6. CASE t.op = "rejectContinuationAuthorization"
  <2>1. db' \in rejectContinuationAuthorization(d)
    BY <1>1, <1>6 DEF body
  <2>2. Goal(d)
    BY <1>2, <1>6, <2>1, RejectEffect
  <2> QED
    BY <1>2, <2>2
<1>7. CASE t.op = "settleContinuation"
  <2>1. /\ t.outcome \in Outcomes
        /\ db' \in settleContinuation(d, t.owner, t.gen, t.outcome)
    BY <1>1, <1>7 DEF body, Transactions
  <2>2. /\ db'.cancel = d.cancel /\ db'.access = d.access /\ db'.status # "running"
        /\ d.approval # "pending" => db'.approval = d.approval
    BY <1>2, <2>1, SettleEffect
  <2>3. Goal(d)
    BY <1>7, <2>2
  <2> QED
    BY <1>2, <2>3
<1> QED
  BY <1>3, <1>4, <1>5, <1>6, <1>7 DEF Transactions

LEMMA FactsOfStep == ASSUME IInv, [Next]_vars PROVE FactsFollow
<1>0. Sound(db) /\ db \in Facts
  BY InvariantParts
<1>1. ASSUME NEW w \in Workers, db' = Requeued(db, w) PROVE FactsFollow
  <2> DEFINE queue == db.job \/ (worker[w].queued /\ attempts < MaxAttempts)
  <2>1. db' = [db EXCEPT !.job = queue]
    BY <1>1 DEF Requeued
  <2> HIDE DEF queue
  <2> QED
    BY <1>0, <2>1, SameDecision DEF Facts
<1>2. ASSUME NEW w \in Workers, claimForExecution(w) PROVE FactsFollow
  <2> DEFINE taken == [db EXCEPT !.job = FALSE]
             leased == [taken EXCEPT !.cont = Claimed(@, w, 1)]
  <2>1. db' = taken \/ db' = leased
    BY <1>2 DEF claimForExecution
  <2>2. /\ db'.status = db.status /\ db'.intent = db.intent /\ db'.cancel = db.cancel
        /\ db'.access = db.access /\ db'.approval = db.approval
    BY <1>0, <2>1 DEF Facts
  <2> QED
    BY <1>2, <2>2 DEF FactsFollow, Decided
<1>3. ASSUME NEW w \in Workers, withdraw(w) PROVE FactsFollow
  <2> DEFINE t == [op |-> IF worker[w].pc = "cancel" THEN "cancelContinuation"
                          ELSE "rejectContinuationAuthorization"]
  <2>1. t \in Transactions /\ t.op \notin {"append", "resolveApproval"}
    BY WorkersIssue
  <2>2. t.op \in {"rejectContinuationAuthorization", "settleContinuation"}
          => worker[w].pc = "reject"
    BY <1>3 DEF withdraw
  <2>3. Commits(t) \/ db' = Requeued(db, w)
    BY <1>3 DEF withdraw
  <2> HIDE DEF t
  <2>4. CASE Commits(t)
    BY <1>0, <2>1, <2>2, <2>4, CommitEffect DEF FactsFollow
  <2> QED
    BY <1>1, <2>3, <2>4
<1>4. ASSUME NEW w \in Workers, answer(w) PROVE FactsFollow
  <2> DEFINE outcome == Answers[worker[w].pc]
             r == [db EXCEPT !.assistant = outcome,
                             !.intent = IF db.status = "running" THEN outcome ELSE @]
  <2>1. db' = db \/ db' = r
    BY <1>4 DEF answer, settlePlatformTurn
  <2>2. worker[w].pc \in {"settleAnswer", "unknownAnswer"}
    BY <1>4 DEF answer
  <2> HIDE DEF outcome
  <2>3. /\ r.status = db.status /\ r.cancel = db.cancel /\ r.access = db.access
        /\ r.approval = db.approval /\ r.cont = db.cont
    BY <1>0 DEF Facts
  <2> QED
    BY <2>1, <2>2, <2>3 DEF FactsFollow
<1>5. ASSUME NEW w \in Workers, settle(w) PROVE FactsFollow
  <2>1. /\ Settlement(w) \in Transactions
        /\ Settlement(w).op \notin {"append", "resolveApproval"}
    BY <1>5, WorkersIssue DEF settle, Settlement
  <2>2. db' = db \/ Commits(Settlement(w))
    BY <1>5 DEF settle, Throws, RollsBack, store
  <2>3. worker[w].pc = "return"
    BY <1>5 DEF settle
  <2>4. CASE Commits(Settlement(w))
    BY <1>0, <2>1, <2>3, <2>4, CommitEffect DEF FactsFollow
  <2> QED
    BY <2>2, <2>4, SameDecision
<1>6. ASSUME NEW w \in Workers, release(w) PROVE FactsFollow
  <2> DEFINE queue == db.job \/ (worker[w].queued /\ attempts < MaxAttempts)
             freed == [db EXCEPT !.cont = IF OperationOpen /\ Held(w)
                                          THEN Unleased(@, "ready", "none") ELSE @]
  <2>1. \E d \in {db, freed} : db' = Requeued(d, w)
    BY <1>6 DEF release
  <2>2. PICK d \in {db, freed} : \E q : db' = [d EXCEPT !.job = q]
    BY <2>1 DEF Requeued
  <2>3. /\ d.status = db.status /\ d.intent = db.intent /\ d.cancel = db.cancel
        /\ d.access = db.access /\ d.approval = db.approval
        /\ DOMAIN d = DOMAIN db /\ d = [x \in DOMAIN d |-> d[x]]
    BY <1>0 DEF Facts
  <2>4. /\ db'.status = db.status /\ db'.intent = db.intent /\ db'.cancel = db.cancel
        /\ db'.access = db.access /\ db'.approval = db.approval
    BY <2>2, <2>3
  <2> QED
    BY <1>6, <2>4 DEF FactsFollow, Decided
<1>7. ASSUME lapse \/ revokeAccess \/ expire \/ requeueExpiredForExecution PROVE FactsFollow
  <2> DEFINE lapsed == [db EXCEPT !.cont.expires = 0]
             revoked == [db EXCEPT !.access = FALSE]
             expired == [db EXCEPT !.expired = TRUE]
             queued == [db EXCEPT !.job = TRUE]
  <2>1. \/ lapse /\ db' = lapsed
        \/ db' = revoked \/ db' = expired \/ db' = queued
    BY <1>7 DEF lapse, revokeAccess, expire, requeueExpiredForExecution
  <2>2. CASE lapse /\ db' = lapsed
    <3>1. /\ db'.status = db.status /\ db'.intent = db.intent /\ db'.cancel = db.cancel
          /\ db'.access = db.access /\ db'.approval = db.approval
      BY <1>0, <2>2 DEF Facts
    <3> QED
      BY <2>2, <3>1 DEF FactsFollow, Decided
  <2>3. CASE db' \in {revoked, expired, queued}
    <3>1. /\ db'.status = db.status /\ db'.intent = db.intent /\ db'.cancel = db.cancel
          /\ db'.access => db.access
          /\ db'.approval = db.approval /\ db'.cont = db.cont
      BY <1>0, <2>3 DEF Facts
    <3> QED
      BY <3>1, SameDecision
  <2> QED
    BY <2>1, <2>2, <2>3
<1>8. ASSUME NEW t \in Transactions, t.op \in {"read", "requestCancellation"}, Commits(t)
      PROVE  FactsFollow
  BY <1>0, <1>8, CommitEffect DEF FactsFollow
<1>9. ASSUME requestCancel PROVE FactsFollow
  <2>1. db' = db \/ Commits(Cancelling)
    BY <1>9 DEF requestCancel, Throws
  <2>2. Cancelling.op = "requestCancellation" /\ Cancelling \in Transactions
    BY WorkersIssue DEF Cancelling
  <2> QED
    BY <1>8, <2>1, <2>2, SameDecision
<1>10. ASSUME read PROVE FactsFollow
  <2> DEFINE t == [op |-> "read"]
  <2>1. Commits(t) /\ t \in Transactions /\ t.op = "read"
    BY <1>10, WorkersIssue DEF read
  <2> HIDE DEF t
  <2> QED
    BY <1>8, <2>1
<1>11. ASSUME db' = db PROVE FactsFollow
  BY <1>11, SameDecision
<1>12. ASSUME NEW w \in Workers, crash(w) PROVE FactsFollow
  BY <1>1, <1>12 DEF crash
<1> QED
  BY <1>2, <1>3, <1>4, <1>5, <1>6, <1>7, <1>9, <1>10, <1>11, <1>12
     DEF Next, WorkerStep, Maintenance, vars, store, open, ledgerStep, callTool, reconcile,
         settleBegins, Begins, heartbeat, abandonExpiredPrepared, cancellationBegins

-------------------------------------------------------------------------------
(* One worker at a time, unless workers stall.                                 *)

\* The parts of OneWorker: the lease, and what is left to dispatch.
Exclusive ==
    /\ \A v, w \in Workers : worker[v].pc \in Leased /\ worker[w].pc \in Leased => v = w
    /\ \A w \in Workers : worker[w].pc \in Leased /\ db.status = "running" => Held(w)

Undispatched(l, pc) ==
    /\ pc \in {"markRunning", "intend", "dispatch", "callTool"} => l.dispatched = 0
    /\ pc = "callTool" => l.intent # "prepared"

Once(l) == (l.dispatched > 0 => l.intent # "prepared") /\ l.dispatched <= 1

LEMMA OneWorkerParts ==
    OneWorker <=> (/\ Exclusive /\ Once(ledger)
                   /\ \A w \in Workers : Undispatched(ledger, worker[w].pc))
  BY DEF OneWorker, Exclusive, Once, Undispatched, AtMostOneDispatch

(* Only a claim brings a worker to the adapter, and nothing changes its token. *)
LEMMA LeasedOfStep ==
    ASSUME IInv, [Next]_vars, \A w \in Workers : ~claimForExecution(w)
    PROVE  \A v \in Workers : worker'[v].pc \in Leased
             => worker[v].pc \in Leased /\ worker'[v].gen = worker[v].gen
<1> DEFINE Goal == \A v \in Workers : worker'[v].pc \in Leased
                     => worker[v].pc \in Leased /\ worker'[v].gen = worker[v].gen
<1>0. worker \in [Workers -> Processes]
  BY InvariantParts
<1>1. ASSUME NEW w \in Workers, NEW pc, Moves(w, pc), worker[w].pc \in Leased PROVE Goal
  BY <1>1 DEF Moves
<1>2. ASSUME NEW w \in Workers, Stops(w) PROVE Goal
  BY <1>0, <1>2, WorkerMoves DEF Leased, AdapterPcs
<1>3. ASSUME NEW w \in Workers, open(w) PROVE Goal
  <2>1. /\ worker'[w].gen = worker[w].gen
        /\ \A v \in Workers \ {w} : worker'[v] = worker[v]
    BY <1>0, <1>3 DEF open, Processes
  <2> QED
    BY <1>1, <1>3, <2>1 DEF Moves, open, Leased, AdapterPcs
<1>4. ASSUME NEW w \in Workers, ledgerStep(w) PROVE Goal
  <2>1. worker[w].pc \in Leased /\ (Advance(w) \/ Catch(w))
    BY <1>4 DEF ledgerStep, Then, Leased, AdapterPcs
  <2> QED
    BY <1>0, <1>1, <2>1, WorkerMoves
<1>5. ASSUME NEW w \in Workers, callTool(w) PROVE Goal
  <2>1. /\ worker'[w].gen = worker[w].gen
        /\ \A v \in Workers \ {w} : worker'[v] = worker[v]
    BY <1>0, <1>5 DEF callTool, Goes, Processes
  <2> QED
    BY <1>1, <1>5, <2>1 DEF Moves, callTool, Leased, AdapterPcs
<1>6. ASSUME NEW w \in Workers, reconcile(w) \/ answer(w) \/ settle(w) PROVE Goal
  <2>1. /\ worker[w].pc \in Leased
        /\ Advance(w) \/ Catch(w) \/ Stops(w) \/ (\E pc : Goes(w, pc)) \/ worker' = worker
    BY <1>6 DEF reconcile, answer, settle, Leased, AdapterPcs
  <2> QED
    BY <1>0, <1>1, <1>2, <2>1, WorkerMoves
<1>7. ASSUME NEW w \in Workers, heartbeat(w) PROVE Goal
  BY <1>0, <1>7 DEF heartbeat, Processes
<1>8. ASSUME requeueExpiredForExecution PROVE Goal
  BY <1>0, <1>8 DEF requeueExpiredForExecution, Processes
<1>9. CASE worker' = worker
  BY <1>9
<1> QED
  BY <1>2, <1>3, <1>4, <1>5, <1>6, <1>7, <1>8, <1>9
     DEF Next, WorkerStep, Maintenance, vars, withdraw, release, crash, settleBegins, lapse,
         cancellationBegins, requestCancel, read, revokeAccess, expire,
         abandonExpiredPrepared

(* A lease is claimed only when its holder is gone, and lost only with it.     *)
LEMMA ExclusiveStep ==
    ASSUME "stall" \notin Hazards, IInv, [Next]_vars
    PROVE  Exclusive'
<1>0. /\ Exclusive /\ db \in Facts /\ db.cont \in Continuations
  BY InvariantParts, OneWorkerParts DEF IInv, Facts
<1>1. db'.status = "running" => db.status = "running"
  BY FactsStep DEF Kept, Grows
<1>2. FactsFollow
  BY FactsOfStep
<1>3. ASSUME NEW w \in Workers, claimForExecution(w) PROVE Exclusive'
  <2>1. /\ worker[w].pc = "idle" /\ \A v \in Workers \ {w} : worker'[v] = worker[v]
        /\ Unclaimed(w) \/ Taken(w)
    BY <1>3, ClaimMoves
  <2>2. CASE Unclaimed(w)
    <3>1. worker'[w].pc \notin Leased /\ db'.cont = db.cont
      BY <2>2 DEF Unclaimed, Leased, AdapterPcs
    <3> QED
      BY <1>0, <1>1, <2>1, <3>1 DEF Exclusive, Held
  <2>3. CASE Taken(w)
    <3>1. ASSUME NEW v \in Workers \ {w} PROVE worker'[v].pc \notin Leased
      BY <1>0, <2>1, <2>3, <3>1 DEF Exclusive, Taken, Held, HeldBy, Claimable
    <3>2. /\ db'.cont.status = "running" /\ db'.cont.owner = w
          /\ db'.cont.gen = worker'[w].gen /\ db'.cont.expires = 1
      BY <1>0, <2>3 DEF Taken, Claimed, Continuations
    <3>3. Held(w)'
      BY <3>2 DEF Held, HeldBy, Live
    <3> QED
      BY <3>1, <3>3 DEF Exclusive
  <2> QED
    BY <2>1, <2>2, <2>3
<1>4. ASSUME \A w \in Workers : ~claimForExecution(w) PROVE Exclusive'
  <2>1. \A v \in Workers : worker'[v].pc \in Leased
          => worker[v].pc \in Leased /\ worker'[v].gen = worker[v].gen
    BY <1>4, LeasedOfStep
  <2>2. CASE db'.status # "running" \/ db'.cont = db.cont
    BY <1>0, <1>1, <2>1, <2>2 DEF Exclusive, Held
  <2>3. ASSUME NEW w \in Workers, release(w) PROVE Exclusive'
    <3>1. worker[w].pc \in Leased /\ worker'[w].pc \notin Leased
      BY <2>3, InvariantParts, WorkerMoves DEF release, Leased, AdapterPcs
    <3>2. \A v \in Workers : worker'[v].pc \notin Leased
      BY <1>0, <2>1, <3>1 DEF Exclusive
    <3> QED
      BY <3>2 DEF Exclusive
  <2>4. ASSUME lapse, db'.status = "running" PROVE Exclusive'
    <3>1. ~Attended
      BY <2>4 DEF lapse, Fault
    <3>2. \A v \in Workers : worker[v].pc \notin Leased
      BY <1>0, <1>1, <2>4, <3>1 DEF Attended, Exclusive, Held, HeldBy
    <3> QED
      BY <2>1, <3>2 DEF Exclusive
  <2> QED
    BY <1>2, <1>4, <2>2, <2>3, <2>4 DEF FactsFollow
<1> QED
  BY <1>3, <1>4

(* No statement takes back that a dispatch was recorded, nor makes one.        *)
LEMMA StatementOnce ==
    ASSUME NEW l \in Ledgers, NEW pc \in AdapterPcs \ {"settleAnswer", "unknownAnswer",
                                                       "open", "reconcile", "callTool"},
           NEW r \in Statement(l, pc)
    PROVE  /\ r.dispatched = l.dispatched
           /\ l.intent # "prepared" \/ pc = "dispatch" => r.intent # "prepared"
<1> DEFINE Goal(q) == /\ q.dispatched = l.dispatched
                      /\ l.intent # "prepared" => q.intent # "prepared"
<1>1. \A st : \A q \in callSettle(l, st) : Goal(q)
  BY DEF callSettle, Ledgers
<1>2. \A st \in {"completed", "failed", "outcome_unknown"} : \A q \in intentSettle(l, st) : Goal(q)
  BY DEF intentSettle, Ledgers
<1>3. \A st : \A q \in effectSettle(l, st) : Goal(q)
  BY DEF effectSettle, Ledgers
<1>4. \A q \in effectIntend(l) : Goal(q)
  BY DEF effectIntend, Ledgers
<1>5. \A q \in markRunning(l) : Goal(q)
  BY DEF markRunning, Ledgers
<1>6. \A q \in markDispatching(l) : Goal(q) /\ q.intent # "prepared"
  BY DEF markDispatching, Ledgers
<1> HIDE DEF Goal
<1>7. Goal(r) /\ (pc = "dispatch" => r.intent # "prepared")
  BY <1>1, <1>2, <1>3, <1>4, <1>5, <1>6 DEF Statement, AdapterPcs
<1> QED
  BY <1>7 DEF Goal

\* What OneWorker says of the ledgers after a step.
OnceFollows == Once(ledger') /\ \A w \in Workers : Undispatched(ledger', worker'[w].pc)

LEMMA OnceOfStep ==
    ASSUME "stall" \notin Hazards, IInv, [Next]_vars
    PROVE  OnceFollows
<1>0. /\ ledger \in Ledgers /\ worker \in [Workers -> Processes]
      /\ Exclusive /\ Once(ledger)
      /\ \A w \in Workers : Undispatched(ledger, worker[w].pc)
  BY InvariantParts, OneWorkerParts DEF IInv
<1>1. ASSUME NEW w \in Workers, ledger' = ledger,
             \A v \in Workers \ {w} : worker'[v].pc = worker[v].pc,
             Undispatched(ledger, worker'[w].pc)
      PROVE  OnceFollows
  BY <1>0, <1>1 DEF OnceFollows
<1>2. ASSUME ledger' = ledger, \A w \in Workers : worker'[w].pc = worker[w].pc
      PROVE  OnceFollows
  BY <1>0, <1>2 DEF OnceFollows
<1>3. ASSUME NEW w \in Workers, claimForExecution(w) PROVE OnceFollows
  <2>1. worker'[w].pc \in {"idle", "cancel", "reject", "open", "return"}
    BY <1>3, ClaimMoves DEF Unclaimed, Taken
  <2> QED
    BY <1>1, <1>3, <2>1, ClaimMoves DEF Undispatched
<1>4. ASSUME NEW w \in Workers, withdraw(w) \/ release(w) \/ crash(w) PROVE OnceFollows
  <2>1. ledger' = ledger /\ Stops(w)
    BY <1>4 DEF withdraw, release, crash
  <2> QED
    BY <1>0, <1>1, <2>1, WorkerMoves DEF Undispatched
<1>5. ASSUME NEW w \in Workers, open(w) PROVE OnceFollows
  <2>1. /\ \A v \in Workers \ {w} : worker'[v] = worker[v]
        /\ \/ worker'[w].pc = "markRunning" /\ ledger.intent = "prepared"
           \/ worker'[w].pc \in {"succeedCall", "reconcile", "return"}
    BY <1>0, <1>5 DEF open, Processes
  <2>2. ledger.intent = "prepared" => ledger.dispatched = 0
    BY <1>0 DEF Once, Ledgers
  <2>3. ledger' = ledger
    BY <1>5 DEF open
  <2> QED
    BY <1>1, <2>1, <2>2, <2>3 DEF Undispatched
<1>6. ASSUME NEW w \in Workers, worker[w].pc \in Leased, NEW pc, Moves(w, pc),
             Once(ledger'), Undispatched(ledger', pc)
      PROVE  OnceFollows
  <2>1. ASSUME NEW v \in Workers \ {w} PROVE Undispatched(ledger', worker'[v].pc)
    <3>1. worker'[v].pc \notin Leased
      BY <1>0, <1>6, <2>1 DEF Exclusive, Moves
    <3> QED
      BY <3>1 DEF Undispatched, Leased, AdapterPcs
  <2> QED
    BY <1>6, <2>1 DEF OnceFollows, Moves
<1>7. ASSUME NEW w \in Workers, ledgerStep(w) PROVE OnceFollows
  <2> DEFINE pc == worker[w].pc
  <2>1. /\ pc \in AdapterPcs \ {"settleAnswer", "unknownAnswer", "open", "reconcile", "callTool"}
        /\ pc \in Leased
    BY <1>7 DEF ledgerStep, Then, Leased, AdapterPcs
  <2>2. \/ ledger' \in Statement(ledger, pc) /\ (Advance(w) \/ Catch(w))
        \/ ledger' = ledger /\ Catch(w)
    BY <1>7 DEF ledgerStep
  <2>3. Undispatched(ledger, pc)
    BY <1>0
  <2>4. pc \in DOMAIN Then \cup {"intend"}
    BY <1>7 DEF ledgerStep
  <2>5. /\ Catch(w) => Moves(w, "throw") \/ Moves(w, "reconcile")
        /\ Advance(w) => Moves(w, Successor(pc, worker[w].valid))
    BY <1>0, WorkerMoves
  <2> HIDE DEF pc
  <2>6. /\ ledger'.dispatched = ledger.dispatched
        /\ ledger.intent # "prepared" => ledger'.intent # "prepared"
        /\ Advance(w) /\ ~Catch(w) /\ pc = "dispatch" => ledger'.intent # "prepared"
    BY <1>0, <2>1, <2>2, StatementOnce
  <2>7. Once(ledger')
    BY <1>0, <2>6 DEF Once
  <2>8. Undispatched(ledger', "throw") /\ Undispatched(ledger', "reconcile")
    BY DEF Undispatched
  <2>9. ASSUME ~Catch(w), Advance(w) PROVE Undispatched(ledger', Successor(pc, worker[w].valid))
    BY <2>3, <2>4, <2>6, <2>9 DEF Undispatched, Successor, Then
  <2> QED
    BY <1>6, <2>1, <2>2, <2>5, <2>7, <2>8, <2>9 DEF pc
<1>8. ASSUME NEW w \in Workers, callTool(w) PROVE OnceFollows
  <2>1. Moves(w, "commitEffect") \/ Moves(w, "reconcile")
    BY <1>0, <1>8 DEF callTool, Goes, Processes, Moves
  <2>2. ledger' = ledger \/ ledger' = [ledger EXCEPT !.dispatched = @ + 1]
    BY <1>8 DEF callTool
  <2>3. ledger.dispatched = 0 /\ ledger.intent # "prepared" /\ worker[w].pc \in Leased
    BY <1>0, <1>8 DEF callTool, Undispatched, Leased, AdapterPcs
  <2>4. Once(ledger')
    BY <1>0, <2>2, <2>3 DEF Once, Ledgers
  <2>5. Undispatched(ledger', "commitEffect") /\ Undispatched(ledger', "reconcile")
    BY DEF Undispatched
  <2> QED
    BY <1>6, <2>1, <2>3, <2>4, <2>5
<1>9. ASSUME NEW w \in Workers, reconcile(w) \/ answer(w) \/ settle(w) PROVE OnceFollows
  <2>1. /\ ledger' = ledger
        /\ \/ Advance(w) /\ worker[w].pc \in {"settleAnswer", "unknownAnswer"}
           \/ Catch(w) \/ Stops(w)
           \/ \E pc \in {"succeedCall", "unknownEffect", "unknownCall", "throw"} : Goes(w, pc)
    BY <1>9 DEF reconcile, answer, settle
  <2>2. /\ worker'[w].pc \in {"return", "succeedCall", "unknownEffect", "unknownCall", "throw",
                              "reconcile", "idle"}
        /\ \A v \in Workers \ {w} : worker'[v] = worker[v]
    BY <1>0, <2>1, WorkerMoves DEF Moves, Successor, Then
  <2> QED
    BY <1>1, <2>1, <2>2 DEF Undispatched
<1>10. ASSUME NEW w \in Workers, heartbeat(w) PROVE OnceFollows
  <2>1. \A v \in Workers : worker'[v].pc = worker[v].pc
    BY <1>0, <1>10 DEF heartbeat, Processes
  <2> QED
    BY <1>2, <1>10, <2>1 DEF heartbeat
<1>11. ASSUME requeueExpiredForExecution PROVE OnceFollows
  <2>1. \A v \in Workers : worker'[v].pc = worker[v].pc
    BY <1>0, <1>11 DEF requeueExpiredForExecution, Processes
  <2> QED
    BY <1>2, <1>11, <2>1 DEF requeueExpiredForExecution
<1>12. ASSUME abandonExpiredPrepared PROVE OnceFollows
  <2>1. /\ ledger'.intent = "failed" /\ ledger'.dispatched = ledger.dispatched
        /\ worker' = worker
    BY <1>0, <1>12 DEF abandonExpiredPrepared, Ledgers
  <2> QED
    BY <1>0, <2>1 DEF OnceFollows, Once, Undispatched
<1>13. ASSUME ledger' = ledger, worker' = worker PROVE OnceFollows
  BY <1>2, <1>13
<1> QED
  BY <1>3, <1>4, <1>5, <1>7, <1>8, <1>9, <1>10, <1>11, <1>12, <1>13
     DEF Next, WorkerStep, Maintenance, vars, settleBegins, lapse, cancellationBegins,
         requestCancel, read, revokeAccess, expire

LEMMA OneWorkerStep ==
    ASSUME "stall" \notin Hazards, IInv, [Next]_vars
    PROVE  OneWorker'
<1>1. Exclusive'
  BY ExclusiveStep
<1>2. OnceFollows
  BY OnceOfStep
<1> QED
  BY <1>1, <1>2 DEF OneWorker, Exclusive, OnceFollows, Once, Undispatched, AtMostOneDispatch

-------------------------------------------------------------------------------
(* What a client sees.                                                         *)

(* Every step of a worker, of maintenance and of the other requests is a step  *)
(* of the lifecycle, or none that a client sees; the answer of a running       *)
(* Operation stays its intent.                                                 *)
LEMMA TellsStep ==
    ASSUME IInv, [Next]_vars
    PROVE  [Lifecycle!Next]_(Lifecycle!vars) /\ Answering(db')
<1> DEFINE Goal == [Lifecycle!Next]_(Lifecycle!vars) /\ Answering(db')
<1>0. /\ Sound(db) /\ db \in Facts /\ Lifecycle!Coherent /\ Answering(db)
      /\ db.approval = "approved"
  BY InvariantParts DEF IInv, Telling, Answering
<1>1. ASSUME Silent(db, db'), db'.intent = db.intent, db'.assistant = db.assistant
      PROVE  Goal
  BY <1>0, <1>1, SilentStep DEF Silent, Answering
<1>2. ASSUME db' = db PROVE Goal
  BY <1>1, <1>2 DEF Silent
<1>3. ASSUME NEW t \in Transactions, t.op # "append", Commits(t) PROVE Goal
  <2>1. Proper(db, t)
    BY <1>0, <1>3 DEF Proper
  <2>2. /\ [Lifecycle!Next]_(Lifecycle!vars)
        /\ db'.status = "running" => db.status = "running" /\ Stays(db, db')
    BY <1>0, <1>3, <2>1, CommitTells
  <2> QED
    BY <1>0, <2>2 DEF Stays, Answering
<1>4. ASSUME NEW w, db' = Requeued(db, w) PROVE Goal
  BY <1>0, <1>1, <1>4, RequeuedFacts
<1>5. ASSUME NEW w \in Workers, claimForExecution(w) PROVE Goal
  <2> DEFINE taken == [db EXCEPT !.job = FALSE]
  <2>1. db' = taken \/ db' = [taken EXCEPT !.cont = Claimed(@, w, 1)]
    BY <1>5 DEF claimForExecution
  <2> QED
    BY <1>0, <1>1, <2>1 DEF Silent, Facts
<1>6. ASSUME NEW w \in Workers, withdraw(w) PROVE Goal
  <2> DEFINE t == [op |-> IF worker[w].pc = "cancel" THEN "cancelContinuation"
                          ELSE "rejectContinuationAuthorization"]
  <2>1. t \in Transactions /\ t.op # "append"
    BY WorkersIssue
  <2>2. Commits(t) \/ db' = Requeued(db, w)
    BY <1>6 DEF withdraw
  <2> HIDE DEF t
  <2> QED
    BY <1>3, <1>4, <2>1, <2>2
<1>7. ASSUME NEW w \in Workers, answer(w) PROVE Goal
  <2> DEFINE outcome == Answers[worker[w].pc]
  <2>1. outcome \in Outcomes
    BY <1>7 DEF answer, Answers, Outcomes, Failures
  <2>2. db' = db \/ db' \in settlePlatformTurn(db, outcome)
    BY <1>7 DEF answer
  <2> HIDE DEF outcome
  <2> QED
    BY <1>0, <1>2, <2>1, <2>2, AnswerTells
<1>8. ASSUME NEW w \in Workers, settle(w) PROVE Goal
  <2>1. Settlement(w) \in Transactions /\ Settlement(w).op # "append"
    BY <1>8, WorkersIssue DEF settle, Settlement
  <2>2. db' = db \/ Commits(Settlement(w))
    BY <1>8 DEF settle, Throws, RollsBack, store
  <2> QED
    BY <1>2, <1>3, <2>1, <2>2
<1>9. ASSUME NEW w \in Workers, release(w) PROVE Goal
  <2> DEFINE d == [db EXCEPT !.cont = IF OperationOpen /\ Held(w)
                                      THEN Unleased(@, "ready", "none") ELSE @]
  <2>1. Unleased(db.cont, "ready", "none") \in Continuations
    BY <1>0, UnleasedContinuation DEF Facts, Active, ContinuationFailures
  <2>2. /\ d \in Facts /\ d.status = db.status /\ d.approval = db.approval
        /\ d.events = db.events /\ d.intent = db.intent /\ d.assistant = db.assistant
    BY <1>0, <2>1 DEF Facts
  <2>3. db' = Requeued(d, w) \/ db' = Requeued(db, w)
    BY <1>9 DEF release
  <2> HIDE DEF d
  <2>4. ASSUME db' = Requeued(d, w) PROVE Goal
    <3>1. Silent(db, db') /\ db'.intent = db.intent /\ db'.assistant = db.assistant
      BY <2>2, <2>4, RequeuedFacts DEF Silent
    <3> QED
      BY <1>1, <3>1
  <2> QED
    BY <1>4, <2>3, <2>4
<1>10. ASSUME NEW w \in Workers, crash(w) PROVE Goal
  BY <1>4, <1>10 DEF crash
<1>11. ASSUME lapse \/ revokeAccess \/ expire \/ requeueExpiredForExecution PROVE Goal
  <2>1. db' \in {[db EXCEPT !.cont.expires = 0], [db EXCEPT !.access = FALSE],
                 [db EXCEPT !.expired = TRUE], [db EXCEPT !.job = TRUE]}
    BY <1>11 DEF lapse, revokeAccess, expire, requeueExpiredForExecution
  <2> QED
    BY <1>0, <1>1, <2>1 DEF Silent, Facts
<1>12. ASSUME requestCancel PROVE Goal
  <2>1. db' = db \/ Commits(Cancelling)
    BY <1>12 DEF requestCancel, Throws
  <2>2. Cancelling \in Transactions /\ Cancelling.op # "append"
    BY WorkersIssue DEF Cancelling
  <2> QED
    BY <1>2, <1>3, <2>1, <2>2
<1>13. ASSUME read PROVE Goal
  <2>1. [op |-> "read"] \in Transactions /\ Commits([op |-> "read"])
    BY <1>13, WorkersIssue DEF read
  <2> QED
    BY <1>3, <2>1
<1> HIDE DEF Goal
<1>14. Goal
  BY <1>2, <1>5, <1>6, <1>7, <1>8, <1>9, <1>10, <1>11, <1>12, <1>13
     DEF Next, WorkerStep, Maintenance, vars, store, open, ledgerStep, callTool, reconcile,
         settleBegins, Begins, heartbeat, abandonExpiredPrepared, cancellationBegins
<1> QED
  BY <1>14 DEF Goal

LEMMA TellingStep == ASSUME IInv, [Next]_vars PROVE Telling'
<1>1. Lifecycle!Coherent /\ db.approval = "approved"
  BY DEF IInv, Telling
<1>2. [Lifecycle!Next]_(Lifecycle!vars) /\ Answering(db')
  BY TellsStep
<1>3. Lifecycle!Coherent'
  BY <1>1, <1>2, CoherentStep
<1>4. db'.approval = "approved"
  BY <1>1, <1>2
     DEF Lifecycle!Next, Lifecycle!vars, Lifecycle!Ask, Lifecycle!Approve, Lifecycle!Deny,
         Lifecycle!Answer, Lifecycle!Cite, Lifecycle!End
<1> QED
  BY <1>2, <1>3, <1>4 DEF Telling, Answering

-------------------------------------------------------------------------------
(* The theorems.                                                               *)

LEMMA InvariantStart == Init => IInv
<1> SUFFICES ASSUME Init PROVE IInv
  OBVIOUS
<1>1. db = ApprovedFacts /\ db \in Facts /\ TerminalUnique
  BY ApprovedSound DEF Init, Sound, TerminalUnique
<1>2. ProcessSound(NoWork) /\ NoWork.pc # "return"
  BY DEF ProcessSound, NoWork, Processes
<1>3. worker \in [Workers -> Processes] /\ \A w \in Workers : worker[w].pc # "return"
  BY <1>2 DEF Init, ProcessSound
<1>4. ledger \in Ledgers
  BY DEF Init, Ledgers
<1>5. attempts \in 0..MaxAttempts /\ faults \in 0..MaxFaults /\ attempts < MaxAttempts
  BY HazardsAssumption DEF Init
<1>6. TypeOK
  BY <1>1, <1>3, <1>4, <1>5 DEF TypeOK, Init
<1>7. ledger.dispatched = 0 /\ \A w \in Workers : worker[w].pc \notin Leased
  BY DEF Init, NoWork, Leased, AdapterPcs
<1>8. OneWorker
  BY <1>7 DEF OneWorker, AtMostOneDispatch, Leased, AdapterPcs
<1>9. Telling
  <2>1. /\ db.status = "running" /\ db.approval = "approved" /\ db.assistant = "pending"
        /\ db.intent = "none" /\ db.events = <<"approval.required", "approval.resolved">>
    BY <1>1 DEF ApprovedFacts, NewFacts
  <2> QED
    BY <2>1 DEF Telling, Lifecycle!Coherent, Lifecycle!Running
<1> QED
  BY <1>1, <1>3, <1>5, <1>6, <1>8, <1>9 DEF IInv

LEMMA InvariantStep == IInv /\ [Next]_vars => IInv'
<1> SUFFICES ASSUME IInv, [Next]_vars PROVE IInv'
  OBVIOUS
<1>1. db' \in Facts /\ OneTerminalEvent(db')
  BY FactsStep DEF Kept, Sound
<1>2. worker' \in [Workers -> Processes]
  BY ProcessStep DEF WorkersSound
<1>3. TypeOK'
  BY <1>1, <1>2, FactsStep, LockStep, LedgerStep, FaultStep DEF TypeOK, WorkerTransactions
<1>4. \A w \in Workers : worker'[w].pc = "return" => worker'[w].outcome # "none"
  BY ProcessStep DEF WorkersSound, ProcessSound
<1> QED
  BY <1>1, <1>3, <1>4, FactsStep, OneWorkerStep, TellingStep DEF IInv, TerminalUnique

(* The invariant of a resumed Operation: a queued job has an attempt left, a   *)
(* worker that leaves the adapter knows an outcome, and the facts are sound,   *)
(* under every combination of hazards; workers that keep the leases they hold  *)
(* follow each other.                                                          *)
THEOREM WorkerInvariant == Spec => []IInv
  BY InvariantStart, InvariantStep, PTL DEF Spec

(* Every state of a resumed Operation is well typed.                           *)
THEOREM WorkerTypes == Spec => []TypeOK
<1>1. IInv => TypeOK
  BY DEF IInv
<1> QED
  BY <1>1, WorkerInvariant, PTL

(* However often workers die, stall, lose acknowledgements or meet each other, *)
(* the Operation gets one terminal event, the last one.                        *)
THEOREM WorkerTerminalUnique == Spec => []TerminalUnique
<1>1. IInv => TerminalUnique
  BY DEF IInv
<1> QED
  BY <1>1, WorkerInvariant, PTL

(* Workers that keep the leases they hold call the external tool at most once, *)
(* however many of them die at any statement, fail, lose acknowledgements, are *)
(* cancelled or configured without the adapter, and in whatever order.         *)
THEOREM WorkerAtMostOneDispatch == "stall" \notin Hazards => (Spec => []AtMostOneDispatch)
<1> SUFFICES ASSUME "stall" \notin Hazards PROVE Spec => []AtMostOneDispatch
  OBVIOUS
<1>1. IInv => AtMostOneDispatch
  BY DEF IInv, OneWorker
<1> QED
  BY <1>1, WorkerInvariant, PTL

(* Whatever hazards the workers meet, a client sees the rest of an approved    *)
(* turn as the abstract lifecycle tells it: no event after the last one, no    *)
(* completion without its answer, and no second answer.                        *)
THEOREM WorkersImplementLifecycle == Spec => ImplementsLifecycle
<1>1. Init => Lifecycle!Approved
  BY DEF Init, ApprovedFacts, NewFacts, Lifecycle!Approved
<1>2. IInv /\ [Next]_vars => [Lifecycle!Next]_(Lifecycle!vars)
  BY TellsStep
<1> QED
  BY <1>1, <1>2, WorkerInvariant, PTL DEF Spec, ImplementsLifecycle, Lifecycle!ResumedSpec
===============================================================================

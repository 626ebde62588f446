--------------------------- MODULE GatewayTurn_proofs ---------------------------
(* TLAPS proofs about GatewayTurn, for any kinds and any number of faults.     *)
EXTENDS GatewayTurn, GatewayStore_proofs

TurnTransactions == [op : {"append"}, event : Events] \cup [op : {"requestCancellation"}]

(* The transactions of a turn are transactions of the store.                   *)
LEMMA TurnIssues ==
    /\ TurnTransactions \subseteq Transactions
    /\ Cancelling \in TurnTransactions
    /\ Reading \in Transactions
    /\ \A status \in {"approved", "denied"} :
          [op |-> "resolveApproval", status |-> status] \in Transactions
    /\ IInv /\ handle.pc \in {"append", "catch", "last"}
         => HandleAppend \in TurnTransactions /\ handle.event \in Events
  BY DEF TurnTransactions, Transactions, Cancelling, Reading, HandleAppend, IInv, TypeOK

LEMMA SoundFacts == IInv => Sound(db)
  BY DEF IInv, TypeOK, TerminalUnique, Sound

-------------------------------------------------------------------------------
(* The facts.                                                                  *)

(* Every step of the system keeps the facts sound and the stream growing.      *)
LEMMA StoreStep == ASSUME IInv, [Next]_vars PROVE Kept(db, db')
<1>0. Sound(db) /\ db \in Facts
  BY SoundFacts DEF Sound
<1>1. CASE db' = db
  BY <1>0, <1>1, SameStream
<1>2. ASSUME settle PROVE Kept(db, db')
  <2> DEFINE outcome == Settling[runner.pc]
  <2>1. outcome \in Outcomes
    BY <1>2 DEF settle, Settling, Outcomes, Failures
  <2>2. db' = db \/ db' \in settlePlatformTurn(db, outcome)
    BY <1>2 DEF settle
  <2> HIDE DEF outcome
  <2> QED
    BY <1>0, <1>1, <2>1, <2>2, AnswerKept
<1>3. ASSUME append PROVE Kept(db, db')
  <2>1. HandleAppend \in Transactions
    BY <1>3, TurnIssues DEF append
  <2>2. db' = db \/ Commits(HandleAppend)
    BY <1>3 DEF append, Throws, RollsBack
  <2> QED
    BY <1>0, <1>1, <2>1, <2>2, CommitKept
<1>4. ASSUME recover PROVE Kept(db, db')
  <2>1. db' = db \/ db' = reconciled(db)
    BY <1>4 DEF recover
  <2> QED
    BY <1>0, <1>1, <2>1, ReconciledKept
<1>5. ASSUME requestCancel PROVE Kept(db, db')
  <2>1. db' = db \/ Commits(Cancelling)
    BY <1>5 DEF requestCancel, Throws
  <2> QED
    BY <1>0, <1>1, <2>1, TurnIssues, CommitKept
<1>6. ASSUME NEW status \in {"approved", "denied"}, resolve(status) PROVE Kept(db, db')
  BY <1>0, <1>6, TurnIssues, CommitKept DEF resolve
<1>7. ASSUME read PROVE Kept(db, db')
  BY <1>0, <1>7, TurnIssues, CommitKept DEF read
<1>8. ASSUME expire \/ revokeAccess PROVE Kept(db, db')
  <2> DEFINE expired == [db EXCEPT !.expired = TRUE]
             revoked == [db EXCEPT !.access = FALSE]
  <2>1. /\ expired \in Facts /\ expired.status = db.status /\ expired.events = db.events
        /\ revoked \in Facts /\ revoked.status = db.status /\ revoked.events = db.events
    BY <1>0 DEF Facts
  <2>2. db' = expired \/ db' = revoked
    BY <1>8 DEF expire, revokeAccess
  <2> HIDE DEF expired, revoked
  <2> QED
    BY <1>0, <2>1, <2>2, SameStream
<1> QED
  BY <1>1, <1>2, <1>3, <1>4, <1>5, <1>6, <1>7, <1>8
     DEF Next, RunnerStep, HandleStep, vars, store, runnerDecides, raceAborted, raceEvent,
         raceDone, raceThrow, appendBegins, Begins, cancellationBegins, deltaFails, crash

-------------------------------------------------------------------------------
(* Approval, continuation and job.                                             *)

\* What ApprovalDrivesContinuation and IInv say of the facts.
Story(d) ==
    /\ d.cont.status = "waiting_approval" => d.approval = "pending"
    /\ d.cont.status = "ready" => d.approval = "approved" /\ d.job
    /\ d.job => d.approval = "approved"
    /\ d.job /\ d.status = "running" => d.cont.status = "ready"

LEMMA InvariantStory == IInv => Story(db)
  BY DEF IInv, ApprovalDrivesContinuation, Story

(* Facts that agree on approval, continuation and job tell the same story, if  *)
(* the Operation does not start to run again.                                  *)
LEMMA SameStory ==
    ASSUME NEW d, NEW r, Story(d), r.cont = d.cont, r.approval = d.approval, r.job = d.job,
           r.status = "running" => d.status = "running"
    PROVE  Story(r)
  BY DEF Story

LEMMA StoryReconciled ==
    ASSUME NEW d \in Facts, Story(d)
    PROVE  Story(reconciled(d))
<1>1. CASE d.intent # "none" /\ d.status = "running"
  <2>1. /\ reconciled(d).cont = d.cont /\ reconciled(d).approval = d.approval
        /\ reconciled(d).job = d.job
    BY <1>1 DEF reconciled, terminated, Facts
  <2> QED
    BY <1>1, <2>1, SameStory
<1>2. CASE ~(d.intent # "none" /\ d.status = "running")
  <2>1. \/ reconciled(d) = d
        \/ reconciled(d) = [d EXCEPT !.assistant = CHOOSE e \in Outcomes : OnlyTerminal(d, e)]
    BY <1>2 DEF reconciled
  <2> DEFINE e == CHOOSE e \in Outcomes : OnlyTerminal(d, e)
  <2> HIDE DEF e
  <2>2. /\ [d EXCEPT !.assistant = e].cont = d.cont
        /\ [d EXCEPT !.assistant = e].approval = d.approval
        /\ [d EXCEPT !.assistant = e].job = d.job
        /\ [d EXCEPT !.assistant = e].status = d.status
    BY DEF Facts
  <2> QED
    BY <2>1, <2>2, SameStory DEF e
<1> QED
  BY <1>1, <1>2

LEMMA StoryAppended ==
    ASSUME NEW d \in Facts, Story(d), NEW e \in Events,
           NEW r \in appendGatewayOperationEvent(d, e)
    PROVE  Story(r)
<1>1. CASE e \in Outcomes
  BY <1>1, OutcomeEffect, SameStory
<1>2. CASE e \notin Outcomes
  <2> DEFINE plain == [d EXCEPT !.events = Append(@, e)]
             waits == [d EXCEPT !.events = Append(@, e), !.approval = "pending",
                                !.cont.status = "waiting_approval"]
  <2>1. e \in {"message.citation", "approval.required", "approval.resolved"}
    BY <1>2 DEF Events
  <2>2. /\ d.status = "running"
        /\ r = plain \/ (r = waits /\ d.cont.status \notin Active)
    BY <1>2, <2>1 DEF appendGatewayOperationEvent
  <2>3. /\ plain.cont = d.cont /\ plain.approval = d.approval /\ plain.job = d.job
        /\ plain.status = d.status
        /\ waits.approval = "pending" /\ waits.job = d.job /\ waits.status = d.status
    BY DEF Facts
  <2>4. waits.cont.status = "waiting_approval"
    BY DEF Facts, Continuations
  <2> HIDE DEF plain, waits
  <2>5. CASE r = plain
    BY <2>3, <2>5, SameStory
  <2>6. CASE r = waits /\ d.cont.status \notin Active
    BY <2>2, <2>3, <2>4, <2>6 DEF Story, Active
  <2> QED
    BY <2>2, <2>5, <2>6
<1> QED
  BY <1>1, <1>2

LEMMA StoryRequested ==
    ASSUME NEW d \in Facts, Story(d), NEW r \in requestCancellation(d)
    PROVE  Story(r)
<1> DEFINE asked == [d EXCEPT !.cancel = TRUE]
           withdrawn == [asked EXCEPT !.cont = Unleased(asked.cont, "cancelled", "none"),
                                      !.approval = IF @ = "pending" THEN "revoked" ELSE @]
<1>1. /\ asked.cont = d.cont /\ asked.approval = d.approval /\ asked.job = d.job
      /\ asked.status = d.status /\ asked \in Facts
  BY DEF Facts
<1>2. \/ r = d \/ r = asked
      \/ r \in appendGatewayOperationEvent(withdrawn, "cancelled")
  BY DEF requestCancellation, cancelContinuationWithinTransaction
<1>3. CASE r = d \/ r = asked
  BY <1>1, <1>3, SameStory
<1>4. CASE r \in appendGatewayOperationEvent(withdrawn, "cancelled")
  <2>1. Unleased(d.cont, "cancelled", "none") \in Continuations
    BY UnleasedContinuation DEF Facts, Terminal, ContinuationFailures
  <2>2. Unleased(d.cont, "cancelled", "none").status = "cancelled"
    BY DEF Unleased, Facts, Continuations
  <2> HIDE DEF asked
  <2>3. /\ withdrawn \in Facts /\ withdrawn.cont = Unleased(d.cont, "cancelled", "none")
        /\ withdrawn.job = d.job
        /\ withdrawn.approval = IF d.approval = "pending" THEN "revoked" ELSE d.approval
    BY <1>1, <2>1 DEF Facts
  <2> HIDE DEF withdrawn
  <2>4. r.cont = withdrawn.cont /\ r.approval = withdrawn.approval /\ r.job = withdrawn.job
        /\ r.status # "running"
    BY <1>4, <2>3, OutcomeEffect DEF Outcomes
  <2> QED
    BY <2>2, <2>3, <2>4 DEF Story
<1> QED
  BY <1>2, <1>3, <1>4

(* The decision of a pending approval: no job exists yet, and the continuation *)
(* that waits for it becomes ready with a job, or fails with the Operation.    *)
LEMMA StoryResolved ==
    ASSUME NEW d \in Facts, Story(d), NEW status \in {"approved", "denied"},
           NEW r \in resolveApproval(d, status)
    PROVE  Story(r)
<1> DEFINE noted == [d EXCEPT !.events = Append(@, "approval.resolved")]
           p == [noted EXCEPT !.approval = status]
           refused == IF d.cont.status = "waiting_approval"
                      THEN [p EXCEPT !.cont = Unleased(p.cont, "failed", "approval_denied")]
                      ELSE p
<1>1. d.approval = "pending"
  BY DEF resolveApproval
<1>2. ~d.job /\ d.cont.status # "ready"
  BY <1>1 DEF Story
<1>3. appendGatewayOperationEvent(d, "approval.resolved") \subseteq {noted}
  BY DEF appendGatewayOperationEvent, Outcomes, Failures
<1>4. \/ status = "denied" /\ r \in appendGatewayOperationEvent(refused, "APPROVAL_DENIED")
      \/ status = "approved" /\ r = markReadyAndEnqueue(p)
  BY <1>3 DEF resolveApproval
<1>5. Append(d.events, "approval.resolved") \in Seq(Events)
  BY AppendProperties DEF Facts, Events
<1>6. /\ p \in Facts /\ p.cont = d.cont /\ p.job = d.job /\ p.approval = status
      /\ p.status = d.status
  BY <1>5 DEF Facts
<1> HIDE DEF p
<1>7. CASE status = "approved" /\ r = markReadyAndEnqueue(p)
  <2>1. r.cont.status = "ready" /\ r.job /\ r.approval = "approved"
    BY <1>6, <1>7 DEF markReadyAndEnqueue, Facts, Continuations
  <2> QED
    BY <2>1 DEF Story
<1>8. CASE status = "denied" /\ r \in appendGatewayOperationEvent(refused, "APPROVAL_DENIED")
  <2>1. Unleased(p.cont, "failed", "approval_denied") \in Continuations
    BY <1>6, UnleasedContinuation DEF Facts, Terminal, ContinuationFailures
  <2>2. Unleased(p.cont, "failed", "approval_denied").status = "failed"
    BY <1>6 DEF Unleased, Facts, Continuations
  <2>3. /\ refused \in Facts /\ ~refused.job /\ refused.approval = "denied"
        /\ refused.cont.status \notin {"waiting_approval", "ready"}
    BY <1>2, <1>6, <1>8, <2>1, <2>2 DEF Facts
  <2> HIDE DEF refused
  <2>4. /\ r.cont = refused.cont /\ r.approval = refused.approval /\ r.job = refused.job
    BY <1>8, <2>3, OutcomeEffect DEF Outcomes, Failures
  <2> QED
    BY <2>3, <2>4 DEF Story
<1> QED
  BY <1>4, <1>7, <1>8

(* Whatever a transaction of a turn commits tells the story of its facts.      *)
LEMMA StoryCommitted ==
    ASSUME IInv,
           NEW t \in TurnTransactions \cup {Reading} \cup
                     [op : {"resolveApproval"}, status : {"approved", "denied"}],
           Commits(t)
    PROVE  Story(db')
<1>1. PICK d \in {db, reconciled(db)} : db' \in body(d, t)
  BY DEF Commits, Pending, Results
<1>2. d \in Facts /\ Story(d)
  BY InvariantStory, SoundFacts, StoryReconciled, ReconciledKept DEF Kept, Sound
<1>3. CASE t \in [op : {"append"}, event : Events]
  <2>1. t.event \in Events /\ db' \in appendGatewayOperationEvent(d, t.event)
    BY <1>1, <1>3 DEF body
  <2> QED
    BY <1>2, <2>1, StoryAppended
<1>4. CASE t \in [op : {"requestCancellation"}]
  <2>1. db' \in requestCancellation(d)
    BY <1>1, <1>4 DEF body
  <2> QED
    BY <1>2, <2>1, StoryRequested
<1>5. CASE t = Reading
  <2>1. db' = d
    BY <1>1, <1>5 DEF body, Reading
  <2> QED
    BY <1>2, <2>1
<1>6. CASE t \in [op : {"resolveApproval"}, status : {"approved", "denied"}]
  <2>1. t.status \in {"approved", "denied"} /\ db' \in resolveApproval(d, t.status)
    BY <1>1, <1>6 DEF body
  <2> QED
    BY <1>2, <2>1, StoryResolved
<1> QED
  BY <1>3, <1>4, <1>5, <1>6 DEF TurnTransactions

LEMMA StoryStep == ASSUME IInv, [Next]_vars PROVE Story(db')
<1>0. db \in Facts /\ Story(db)
  BY SoundFacts, InvariantStory DEF Sound
<1>1. CASE db' = db
  BY <1>0, <1>1
<1>2. ASSUME NEW r \in Facts, db' = r, r.cont = db.cont, r.approval = db.approval,
             r.job = db.job, r.status = db.status
      PROVE  Story(db')
  BY <1>0, <1>2, SameStory
<1>3. ASSUME settle PROVE Story(db')
  <2> DEFINE outcome == Settling[runner.pc]
             r == [db EXCEPT !.assistant = outcome,
                             !.intent = IF db.status = "running" THEN outcome ELSE @]
  <2>1. outcome \in Outcomes
    BY <1>3 DEF settle, Settling, Outcomes, Failures
  <2>2. db' = db \/ db' = r
    BY <1>3 DEF settle, settlePlatformTurn
  <2> HIDE DEF outcome
  <2>3. /\ r \in Facts /\ r.cont = db.cont /\ r.approval = db.approval
        /\ r.job = db.job /\ r.status = db.status
    BY <1>0, <2>1 DEF Facts
  <2> QED
    BY <1>1, <1>2, <2>2, <2>3
<1>4. ASSUME append PROVE Story(db')
  <2>1. HandleAppend \in TurnTransactions
    BY <1>4, TurnIssues DEF append
  <2>2. db' = db \/ Commits(HandleAppend)
    BY <1>4 DEF append, Throws, RollsBack
  <2> QED
    BY <1>1, <2>1, <2>2, StoryCommitted
<1>5. ASSUME recover PROVE Story(db')
  <2>1. db' = db \/ db' = reconciled(db)
    BY <1>5 DEF recover
  <2> QED
    BY <1>0, <2>1, StoryReconciled
<1>6. ASSUME requestCancel PROVE Story(db')
  <2>1. db' = db \/ Commits(Cancelling)
    BY <1>6 DEF requestCancel, Throws
  <2> QED
    BY <1>1, <2>1, TurnIssues, StoryCommitted
<1>7. ASSUME NEW status \in {"approved", "denied"}, resolve(status) PROVE Story(db')
  BY <1>7, StoryCommitted DEF resolve
<1>8. ASSUME read PROVE Story(db')
  BY <1>8, StoryCommitted DEF read
<1>9. ASSUME expire \/ revokeAccess PROVE Story(db')
  <2> DEFINE expired == [db EXCEPT !.expired = TRUE]
             revoked == [db EXCEPT !.access = FALSE]
  <2>1. /\ expired \in Facts /\ expired.cont = db.cont /\ expired.approval = db.approval
        /\ expired.job = db.job /\ expired.status = db.status
        /\ revoked \in Facts /\ revoked.cont = db.cont /\ revoked.approval = db.approval
        /\ revoked.job = db.job /\ revoked.status = db.status
    BY <1>0 DEF Facts
  <2>2. db' = expired \/ db' = revoked
    BY <1>9 DEF expire, revokeAccess
  <2> HIDE DEF expired, revoked
  <2> QED
    BY <1>2, <2>1, <2>2
<1> QED
  BY <1>1, <1>3, <1>4, <1>5, <1>6, <1>7, <1>8, <1>9
     DEF Next, RunnerStep, HandleStep, vars, store, runnerDecides, raceAborted, raceEvent,
         raceDone, raceThrow, appendBegins, Begins, cancellationBegins, deltaFails, crash

-------------------------------------------------------------------------------
(* What the other transactions leave of a suspended or a decided Operation.    *)

\* What Suspension says of the facts.
Suspends(d) ==
    /\ d.approval = "pending" => d.cont.status = "waiting_approval"
    /\ d.cont.status # "running"
    /\ d.cont.status # "absent" => d.intent = "none"
    /\ d.cont.status \in Active => ~d.cancel

DecidedIn(d) == d.status # "running" \/ d.intent # "none" \/ d.cont.status \in Active

\* The facts r take back nothing of the facts d, and begin no suspension.
Follows(d, r) ==
    /\ r \in Facts /\ Suspends(r)
    /\ d.cancel => r.cancel
    /\ d.status # "running" => r.status # "running"
    /\ d.intent = "none" => r.intent = "none"
    /\ d.cont.status = "absent" <=> r.cont.status = "absent"
    /\ r.cont.status \in Active => d.cont.status \in Active
    /\ DecidedIn(d) => DecidedIn(r)
    /\ d.assistant = "completed" => r.assistant = "completed"

\* An Operation ends together with its suspension.
EndsBoth(d, r) == d.status = "running" /\ r.cont.status \in Active => r.status = "running"

LEMMA InvariantSuspends == IInv => Suspends(db)
  BY DEF IInv, Suspension, Suspends

LEMMA FollowsItself ==
    ASSUME NEW d \in Facts, Suspends(d)
    PROVE  Follows(d, d) /\ EndsBoth(d, d)
  BY DEF Follows, EndsBoth

LEMMA FollowsTransitive ==
    ASSUME NEW d, NEW m, NEW r, Follows(d, m), Follows(m, r)
    PROVE  /\ Follows(d, r)
           /\ EndsBoth(d, m) /\ EndsBoth(m, r) => EndsBoth(d, r)
  BY DEF Follows, EndsBoth

LEMMA FollowsReconciled ==
    ASSUME NEW d, Sound(d), Suspends(d)
    PROVE  Follows(d, reconciled(d)) /\ EndsBoth(d, reconciled(d))
<1>1. CASE d.status = "running" /\ d.intent = "none"
  <2>1. reconciled(d) = d
    BY <1>1, ReconcileEffect
  <2> QED
    BY <2>1, FollowsItself DEF Sound
<1>2. CASE d.status = "running" /\ d.intent # "none"
  BY <1>2, ReconcileEffect DEF Follows, EndsBoth, Suspends, DecidedIn, Active
<1>3. CASE d.status # "running"
  BY <1>3, ReconcileEffect DEF Follows, EndsBoth, Suspends, DecidedIn
<1> QED
  BY <1>1, <1>2, <1>3

(* A terminal event decides the Operation, suspended or not.                   *)
LEMMA FollowsOutcome ==
    ASSUME NEW d \in Facts, Suspends(d), NEW e \in Outcomes,
           NEW r \in appendGatewayOperationEvent(d, e)
    PROVE  Follows(d, r)
<1>1. CASE d.status = "running"
  BY <1>1, OutcomeEffect DEF Follows, Suspends, DecidedIn
<1>2. CASE d.status # "running"
  <2>1. r = d
    BY <1>2, OutcomeEffect
  <2> QED
    BY <2>1, FollowsItself
<1> QED
  BY <1>1, <1>2

LEMMA FollowsRequested ==
    ASSUME NEW d \in Facts, Suspends(d), NEW r \in requestCancellation(d)
    PROVE  /\ Follows(d, r) /\ EndsBoth(d, r)
           /\ r.cancel \/ r.status # "running"
<1>1. CASE d.status # "running"
  <2>1. r = d
    BY <1>1, RequestEffect
  <2> QED
    BY <1>1, <2>1, FollowsItself
<1>2. CASE d.status = "running" /\ d.cont.status \in {"waiting_approval", "ready"}
  <2>1. /\ r \in Facts /\ r.assistant = d.assistant /\ r.cancel
        /\ r.status = "cancelled" /\ r.intent = "none" /\ r.cont.status = "cancelled"
        /\ r.approval # "pending"
    BY <1>2, RequestEffect
  <2> QED
    BY <1>2, <2>1 DEF Follows, EndsBoth, Suspends, DecidedIn, Active
<1>3. CASE d.status = "running" /\ d.cont.status \notin {"waiting_approval", "ready"}
  <2>1. /\ r \in Facts /\ r.assistant = d.assistant /\ r.cancel
        /\ r.cont = d.cont /\ r.status = d.status /\ r.intent = d.intent
        /\ r.approval = d.approval
    BY <1>3, RequestEffect
  <2> QED
    BY <1>3, <2>1 DEF Follows, EndsBoth, Suspends, DecidedIn, Active
<1> QED
  BY <1>1, <1>2, <1>3

LEMMA FollowsResolved ==
    ASSUME NEW d \in Facts, Suspends(d), NEW status \in {"approved", "denied"},
           NEW r \in resolveApproval(d, status)
    PROVE  Follows(d, r) /\ EndsBoth(d, r)
<1>1. /\ r \in Facts /\ d.status = "running" /\ d.approval = "pending"
      /\ r.assistant = d.assistant /\ r.cancel = d.cancel
      /\ r.approval = status
      /\ d.cont.status = "waiting_approval" /\ d.intent = "none"
      /\ r.intent = "none"
      /\ \/ r.status = "running" /\ r.cont.status = "ready"
         \/ r.status = "failed" /\ r.cont.status = "failed"
  BY ResolveEffect DEF Suspends
<1> QED
  BY <1>1 DEF Follows, EndsBoth, Suspends, DecidedIn, Active

(* Facts that differ in expiry or access only.                                 *)
LEMMA FollowsSame ==
    ASSUME NEW d \in Facts, Suspends(d), NEW r \in Facts,
           r.approval = d.approval, r.cont = d.cont, r.intent = d.intent,
           r.cancel = d.cancel, r.status = d.status, r.assistant = d.assistant
    PROVE  Follows(d, r) /\ EndsBoth(d, r)
  BY DEF Follows, EndsBoth, Suspends, DecidedIn


\* The facts of a running Operation, and those with its approval request.
Asks(d, r) ==
    /\ r \in Facts /\ d.status = "running" /\ r.status = "running"
    /\ ~d.cancel /\ r.cancel = d.cancel
    /\ r.intent = d.intent /\ r.assistant = d.assistant
    /\ d.cont.status \notin Active
    /\ r.cont.status = "waiting_approval" /\ r.approval = "pending"
    /\ SameLease(d.cont, r.cont)

(* What the loop commits follows its facts, except for an approval request,    *)
(* which begins a suspension and needs an Operation that nobody cancelled.     *)
LEMMA AppendFollows ==
    ASSUME IInv, handle.pc \in {"append", "catch", "last"}, Commits(HandleAppend)
    PROVE  IF handle.event = "approval.required" THEN Asks(db, db')
           ELSE /\ Follows(db, db')
                /\ handle.event \in Outcomes => db'.status # "running"
                /\ handle.event \notin Outcomes => EndsBoth(db, db')
<1> DEFINE e == handle.event
<1>0. e \in Events /\ Sound(db) /\ Suspends(db) /\ db \in Facts
  BY TurnIssues, SoundFacts, InvariantSuspends DEF Sound
<1>1. PICK d \in {db, reconciled(db)} : db' \in appendGatewayOperationEvent(d, e)
  BY CommitFrom DEF body, HandleAppend
<1>2. d \in Facts /\ Follows(db, d) /\ EndsBoth(db, d) /\ Suspends(d)
  BY <1>0, FollowsItself, FollowsReconciled DEF Follows
<1> HIDE DEF e
<1>3. CASE e \in Outcomes
  <2>1. Follows(d, db') /\ db'.status # "running" /\ e # "approval.required"
    BY <1>1, <1>2, <1>3, FollowsOutcome, OutcomeEffect DEF Outcomes, Failures
  <2> QED
    BY <1>2, <1>3, <2>1, FollowsTransitive DEF e
<1>4. CASE e \notin Outcomes
  <2>1. d.status = "running"
    BY <1>0, <1>1, <1>2, <1>4, EventEffect
  <2>2. d = db
    BY <1>0, <1>1, <2>1, ReconcileEffect
  <2>3. CASE e = "approval.required"
    BY <1>0, <1>1, <1>4, <2>2, <2>3, EventEffect DEF Asks, e
  <2>4. CASE e # "approval.required"
    <3>1. /\ db' \in Facts /\ db'.approval = db.approval /\ db'.cont = db.cont
          /\ db'.intent = db.intent /\ db'.cancel = db.cancel /\ db'.status = db.status
          /\ db'.assistant = db.assistant
      BY <1>0, <1>1, <1>4, <2>2, <2>4, EventEffect
    <3>2. Follows(db, db') /\ EndsBoth(db, db')
      BY <1>0, <3>1, FollowsSame
    <3> QED
      BY <1>4, <2>4, <3>2 DEF e
  <2> QED
    BY <2>3, <2>4
<1> QED
  BY <1>3, <1>4

(* So does what other requests commit, with a cancellation recorded or too     *)
(* late.                                                                       *)
LEMMA RequestFollows ==
    ASSUME IInv, Commits(Cancelling)
    PROVE  /\ Follows(db, db') /\ EndsBoth(db, db')
           /\ db'.cancel \/ db'.status # "running"
<1>0. Sound(db) /\ Suspends(db) /\ db \in Facts
  BY SoundFacts, InvariantSuspends DEF Sound
<1>1. PICK d \in {db, reconciled(db)} : db' \in requestCancellation(d)
  BY CommitFrom DEF body, Cancelling
<1>2. d \in Facts /\ Follows(db, d) /\ EndsBoth(db, d) /\ Suspends(d)
  BY <1>0, FollowsItself, FollowsReconciled DEF Follows
<1>3. Follows(d, db') /\ EndsBoth(d, db') /\ (db'.cancel \/ db'.status # "running")
  BY <1>1, <1>2, FollowsRequested
<1> QED
  BY <1>2, <1>3, FollowsTransitive

LEMMA OtherFollows ==
    ASSUME IInv,
           \/ db' = db \/ requestCancel \/ read \/ recover \/ expire \/ revokeAccess
           \/ \E status \in {"approved", "denied"} : resolve(status)
    PROVE  Follows(db, db') /\ EndsBoth(db, db')
<1>0. Sound(db) /\ Suspends(db) /\ db \in Facts
  BY SoundFacts, InvariantSuspends DEF Sound
<1>1. CASE db' = db
  BY <1>0, <1>1, FollowsItself
<1>2. CASE requestCancel
  BY <1>1, <1>2, RequestFollows DEF requestCancel, Throws
<1>3. CASE read \/ recover
  <2>1. read => db' \in {db, reconciled(db)}
    BY CommitFrom DEF read, body, Reading
  <2>2. recover => db' \in {db, reconciled(db)}
    BY DEF recover
  <2> QED
    BY <1>0, <1>1, <1>3, <2>1, <2>2, FollowsReconciled
<1>4. ASSUME NEW status \in {"approved", "denied"}, resolve(status)
      PROVE  Follows(db, db') /\ EndsBoth(db, db')
  <2>1. db' \in resolveApproval(db, status)
    BY <1>4, CommitFrom DEF resolve, Reconciles, body
  <2> QED
    BY <1>0, <2>1, FollowsResolved
<1>5. CASE expire \/ revokeAccess
  <2> DEFINE expired == [db EXCEPT !.expired = TRUE]
             revoked == [db EXCEPT !.access = FALSE]
  <2>1. /\ expired \in Facts /\ expired.approval = db.approval /\ expired.cont = db.cont
        /\ expired.intent = db.intent /\ expired.cancel = db.cancel
        /\ expired.status = db.status /\ expired.assistant = db.assistant
        /\ revoked \in Facts /\ revoked.approval = db.approval /\ revoked.cont = db.cont
        /\ revoked.intent = db.intent /\ revoked.cancel = db.cancel
        /\ revoked.status = db.status /\ revoked.assistant = db.assistant
    BY <1>0 DEF Facts
  <2>2. db' = expired \/ db' = revoked
    BY <1>5 DEF expire, revokeAccess
  <2> HIDE DEF expired, revoked
  <2> QED
    BY <1>0, <2>1, <2>2, FollowsSame
<1> QED
  BY <1>1, <1>2, <1>3, <1>4, <1>5

(* A settlement answers a turn whose runner is alive, hence one that no        *)
(* approval suspended, and decides it.                                         *)
LEMMA SettleWrites ==
    ASSUME IInv, settle, db' # db
    PROVE  /\ runner.pc \in {"completing", "failing", "cancelling"}
           /\ db'.assistant = Settling[runner.pc] /\ db.assistant \in {"pending", db'.assistant}
           /\ db'.cont = db.cont /\ db'.approval = db.approval /\ db'.cancel = db.cancel
           /\ db'.status = db.status /\ DecidedIn(db')
           /\ db'.intent = IF db.status = "running" THEN db'.assistant ELSE db.intent
           /\ db.status # "running" => OnlyTerminal(db, db'.assistant)
<1> DEFINE outcome == Settling[runner.pc]
           r == [db EXCEPT !.assistant = outcome,
                           !.intent = IF db.status = "running" THEN outcome ELSE @]
<1>1. runner.pc \in {"completing", "failing", "cancelling"}
  BY DEF settle, Settling
<1>2. outcome \in {"completed", "RUNTIME_FAILED", "cancelled"}
  BY <1>1 DEF Settling
<1>3. db' \in settlePlatformTurn(db, outcome)
  BY DEF settle
<1> HIDE DEF outcome
<1>4. /\ db' = r /\ db.assistant \in {"pending", outcome}
      /\ db.status # "running" => OnlyTerminal(db, outcome)
  BY <1>3 DEF settlePlatformTurn
<1>5. db \in Facts
  BY SoundFacts DEF Sound
<1>6. /\ r.assistant = outcome /\ r.cont = db.cont /\ r.approval = db.approval
      /\ r.cancel = db.cancel /\ r.status = db.status
      /\ r.intent = IF db.status = "running" THEN outcome ELSE db.intent
  BY <1>5 DEF Facts
<1>7. DecidedIn(r)
  BY <1>2, <1>6 DEF DecidedIn
<1> HIDE DEF r
<1> QED
  BY <1>1, <1>4, <1>6, <1>7 DEF outcome

(* One step of the whole system.                                               *)
LEMMA FactsStep ==
    ASSUME IInv, [Next]_vars
    PROVE  \/ Follows(db, db')
           \/ settle /\ db' # db
           \/ append /\ Asks(db, db')
<1>1. ASSUME append PROVE Follows(db, db') \/ Asks(db, db')
  <2>1. db' = db \/ Commits(HandleAppend)
    BY <1>1 DEF append, Throws, RollsBack
  <2> QED
    BY <1>1, <2>1, OtherFollows, AppendFollows DEF append
<1> QED
  BY <1>1, OtherFollows
     DEF Next, RunnerStep, HandleStep, vars, store, runnerDecides, raceAborted, raceEvent,
         raceDone, raceThrow, appendBegins, Begins, cancellationBegins, deltaFails, crash

(* What is decided stays decided, and a settled answer stays.                  *)
LEMMA DecidedStep ==
    ASSUME IInv, [Next]_vars
    PROVE  /\ Decided => Decided'
           /\ db.assistant = "completed" => db'.assistant = "completed"
<1>1. (Decided <=> DecidedIn(db)) /\ (Decided' <=> DecidedIn(db'))
  BY DEF Decided, DecidedIn
<1>2. CASE Follows(db, db')
  BY <1>1, <1>2 DEF Follows
<1>3. CASE settle /\ db' # db
  <2>1. db.assistant \in {"pending", db'.assistant} /\ DecidedIn(db')
    BY <1>3, SettleWrites
  <2> QED
    BY <1>1, <2>1
<1>4. CASE Asks(db, db')
  BY <1>1, <1>4 DEF Asks, DecidedIn, Active
<1> QED
  BY <1>2, <1>3, <1>4, FactsStep

-------------------------------------------------------------------------------
(* The transaction that holds the lock, the loop and the runner.               *)

(* Only an append or a cancellation ever holds the lock half-way.              *)
LEMMA LockStep == ASSUME IInv, [Next]_vars PROVE tx' \in {Idle} \cup TurnTransactions
<1>1. tx \in {Idle} \cup TurnTransactions
  BY DEF IInv, TypeOK, TurnTransactions
<1>2. ASSUME appendBegins PROVE tx' \in {Idle} \cup TurnTransactions
  BY <1>2, TurnIssues DEF appendBegins, Begins
<1>3. ASSUME cancellationBegins PROVE tx' \in {Idle} \cup TurnTransactions
  BY <1>3, TurnIssues DEF cancellationBegins, Begins
<1>4. CASE tx' = tx \/ tx' = Idle
  BY <1>1, <1>4
<1> QED
  BY <1>2, <1>3, <1>4
     DEF Next, RunnerStep, HandleStep, vars, store, runnerDecides, settle, raceAborted,
         raceEvent, raceDone, raceThrow, append, Commits, Throws, RollsBack, Finishing,
         recover, requestCancel, resolve, read, expire, revokeAccess, deltaFails, crash

Handles == [pc : {"race", "append", "catch", "recover", "last", "closed"},
            event : {"none"} \cup Events,
            terminalSeen : BOOLEAN, approvalPending : BOOLEAN]
Runners == [pc : {"working", "completing", "failing", "cancelling", "offering",
                  "threw", "done"},
            offer : {"none"} \cup Offers, cites : BOOLEAN, overtook : BOOLEAN]

HandleSound(h) ==
    /\ h \in Handles
    /\ h.pc \in {"append", "catch", "last"} => h.event \notin {"none", "approval.resolved"}
RunnerSound(r) == r \in Runners /\ (r.pc = "offering" => r.offer # "none")

(* What Handle and Runner write is well formed.                                *)
LEMMA HandleWrites ==
    ASSUME handle \in Handles,
           NEW pc \in {"race", "append", "catch", "recover", "last", "closed"},
           NEW event \in {"none"} \cup Events, NEW seen \in BOOLEAN,
           pc \in {"append", "catch", "last"} => event \notin {"none", "approval.resolved"},
           Handle(pc, event, seen)
    PROVE  HandleSound(handle')
  BY DEF Handle, Handles, HandleSound

LEMMA RunnerWrites ==
    ASSUME runner \in Runners,
           NEW pc \in {"working", "completing", "failing", "cancelling", "offering",
                       "threw", "done"},
           NEW offer \in {"none"} \cup Offers,
           pc = "offering" => offer # "none",
           Runner(pc, offer) \/ Settles(pc, offer)
    PROVE  RunnerSound(runner')
<1>1. (runner.overtook \/ tx # Idle) \in BOOLEAN
  BY DEF Runners
<1> QED
  BY <1>1 DEF Runner, Settles, Runners, RunnerSound

(* The loop has an event whenever it appends.                                  *)
LEMMA HandleStepSound == ASSUME IInv, [Next]_vars PROVE HandleSound(handle')
<1>0. HandleSound(handle) /\ handle \in Handles
  BY DEF IInv, TypeOK, HandleSound, Handles
<1>1. CASE handle' = handle
  BY <1>0, <1>1
<1>2. {"cancelled", "RUNTIME_FAILED", "CAPABILITY_UNAVAILABLE"} \subseteq Events \ {"none", "approval.resolved"}
  BY DEF Events, Outcomes, Failures
<1>3. handle.terminalSeen \in BOOLEAN
  BY <1>0 DEF Handles
<1>4. ASSUME raceAborted PROVE HandleSound(handle')
  BY <1>0, <1>2, <1>4, HandleWrites DEF raceAborted
<1>5. ASSUME raceEvent PROVE HandleSound(handle')
  <2>1. runner.offer # "extension" =>
           runner.offer \in Events \ {"none", "approval.resolved"}
    BY <1>5 DEF raceEvent, IInv, TypeOK, Offers, Events, Outcomes, Failures
  <2> QED
    BY <1>0, <1>2, <1>5, <2>1, HandleWrites DEF raceEvent
<1>6. ASSUME deltaFails \/ raceThrow PROVE HandleSound(handle')
  BY <1>0, <1>2, <1>6, HandleWrites DEF deltaFails, raceThrow
<1>7. ASSUME raceDone PROVE HandleSound(handle')
  BY <1>0, <1>2, <1>7, HandleWrites DEF raceDone
<1>8. ASSUME append PROVE HandleSound(handle')
  <2>1. ASSUME Appended PROVE HandleSound(handle')
    <3>1. CASE handle.event \in Outcomes
      BY <1>0, <2>1, <3>1, HandleWrites DEF Appended
    <3>2. CASE handle.event \notin Outcomes
      BY <1>0, <2>1, <3>2 DEF Appended, Handles, HandleSound
    <3> QED
      BY <3>1, <3>2
  <2>2. ASSUME AppendThrew PROVE HandleSound(handle')
    BY <1>0, <1>2, <1>3, <2>2, HandleWrites DEF AppendThrew
  <2> QED
    BY <1>8, <2>1, <2>2 DEF append
<1>9. ASSUME recover PROVE HandleSound(handle')
  BY <1>0, <1>9, HandleWrites DEF recover
<1>10. ASSUME crash PROVE HandleSound(handle')
  BY <1>0, <1>3, <1>10, HandleWrites DEF crash
<1> QED
  BY <1>1, <1>4, <1>5, <1>6, <1>7, <1>8, <1>9, <1>10
     DEF Next, RunnerStep, HandleStep, vars, turn, runnerDecides, settle, appendBegins,
         cancellationBegins, requestCancel, resolve, read, expire, revokeAccess

(* The runner has something to offer whenever it offers.                       *)
LEMMA RunnerStepSound == ASSUME IInv, [Next]_vars PROVE RunnerSound(runner')
<1>0. RunnerSound(runner) /\ runner \in Runners
  BY DEF IInv, TypeOK, RunnerSound, Runners
<1>1. CASE runner' = runner
  BY <1>0, <1>1
<1>2. /\ "approval.required" \in Offers \ {"none"} /\ "extension" \in Offers \ {"none"}
      /\ "message.citation" \in Offers \ {"none"} /\ "completed" \in Offers \ {"none"}
      /\ \A outcome \in Outcomes : outcome \in Offers \ {"none"}
  BY DEF Offers, Outcomes, Failures
<1>3. ASSUME runnerDecides PROVE RunnerSound(runner')
  BY <1>0, <1>2, <1>3, RunnerWrites DEF runnerDecides
<1>4. ASSUME settle PROVE RunnerSound(runner')
  <2> DEFINE outcome == Settling[runner.pc]
             caught == IF runner.pc = "failing" THEN "threw" ELSE "failing"
             offer == IF runner.cites /\ outcome = "completed" THEN "message.citation"
                                                               ELSE outcome
  <2>1. outcome \in Outcomes
    BY <1>4 DEF settle, Settling, Outcomes, Failures
  <2>2. offer \in Offers \ {"none"}
    BY <1>2, <2>1
  <2>3. \/ Settles("done", "none") \/ Settles("offering", offer)
        \/ Settles(caught, "none") \/ Runner(caught, "none")
    BY <1>4 DEF settle
  <2>4. caught \in {"threw", "failing"}
    OBVIOUS
  <2> HIDE DEF offer, caught
  <2> QED
    BY <1>0, <2>2, <2>3, <2>4, RunnerWrites
<1>5. ASSUME raceEvent PROVE RunnerSound(runner')
  BY <1>0, <1>2, <1>5, RunnerWrites DEF raceEvent
<1>6. ASSUME deltaFails \/ crash PROVE RunnerSound(runner')
  BY <1>0, <1>6, RunnerWrites DEF deltaFails, crash
<1> QED
  BY <1>1, <1>3, <1>4, <1>5, <1>6
     DEF Next, RunnerStep, HandleStep, vars, turn, raceAborted, raceDone, raceThrow,
         appendBegins, append, recover, cancellationBegins, requestCancel, resolve, read,
         expire, revokeAccess

(* Flags stay flags and faults stay within their bound.                        *)
LEMMA FlagStep ==
    ASSUME IInv, [Next]_vars
    PROVE  attached' \in BOOLEAN /\ signal' \in BOOLEAN /\ faults' \in 0..MaxFaults
<1>0. attached \in BOOLEAN /\ signal \in BOOLEAN /\ faults \in 0..MaxFaults
  BY DEF IInv, TypeOK
<1>1. attached' \in BOOLEAN
  BY <1>0
     DEF Next, RunnerStep, HandleStep, vars, turn, runnerDecides, settle, raceAborted,
         raceEvent, raceDone, raceThrow, appendBegins, append, recover, cancellationBegins,
         requestCancel, resolve, read, expire, revokeAccess, deltaFails, crash
<1>2. signal' \in BOOLEAN
  BY <1>0
     DEF Next, RunnerStep, HandleStep, vars, turn, runnerDecides, settle, raceAborted,
         raceEvent, raceDone, raceThrow, appendBegins, append, recover, cancellationBegins,
         requestCancel, resolve, read, expire, revokeAccess, deltaFails, crash
<1>3. faults' = faults \/ \E kind \in FaultKinds : Fault(kind)
  BY DEF Next, RunnerStep, HandleStep, vars, runnerDecides, settle, raceAborted,
         raceEvent, raceDone, raceThrow, appendBegins, append, recover, cancellationBegins,
         requestCancel, resolve, read, expire, revokeAccess, deltaFails, crash, Fault
<1>4. (\E kind \in FaultKinds : Fault(kind)) => faults' \in 0..MaxFaults
  BY <1>0, FaultsAssumption DEF Fault
<1> QED
  BY <1>0, <1>1, <1>2, <1>3, <1>4

-------------------------------------------------------------------------------
(* Suspension, decision and answers are inductive.                             *)

(* A step that does not begin a suspension keeps it.                           *)
LEMMA SuspensionKept ==
    ASSUME IInv, Follows(db, db'), EndsBoth(db, db'),
           Asking' => Asking,
           handle'.pc = "append" /\ handle'.event = "approval.required"
             => runner'.pc = "done" /\ ~handle'.approvalPending,
           runner.pc = "done" => runner'.pc = "done",
           handle'.approvalPending = handle.approvalPending,
           handle.pc \in {"catch", "recover", "closed"} => handle'.pc \in {"catch", "recover", "closed"},
           handle.approvalPending /\ db.cont.status \in Active
             => handle'.pc \in {"race", "closed"},
           signal' => db'.cancel \/ db'.status # "running"
    PROVE  Suspension'
<1>1. Suspension
  BY DEF IInv
<1>2. /\ db'.approval = "pending" => db'.cont.status = "waiting_approval"
      /\ db'.cont.status # "running"
      /\ db'.cont.status # "absent" => db'.intent = "none"
      /\ db'.cont.status \in Active => ~db'.cancel
      /\ db.cont.status = "absent" <=> db'.cont.status = "absent"
      /\ db'.cont.status \in Active => db.cont.status \in Active
      /\ db.intent = "none" => db'.intent = "none"
  BY DEF Follows, Suspends
<1>3. db'.cont.status \in Active /\ db.status = "running" => db'.status = "running"
  BY DEF EndsBoth
<1> QED
  BY <1>1, <1>2, <1>3 DEF Suspension

(* A signal was fired by a cancellation that is recorded, or came too late.    *)
LEMMA SignalStep ==
    ASSUME IInv, [Next]_vars
    PROVE  signal' => db'.cancel \/ db'.status # "running"
<1>1. ASSUME requestCancel PROVE signal' => db'.cancel \/ db'.status # "running"
  <2>1. CASE Commits(Cancelling)
    BY <2>1, RequestFollows
  <2>2. CASE Throws(Cancelling) /\ UNCHANGED signal
    BY <2>2 DEF Throws, IInv, Suspension
  <2> QED
    BY <1>1, <2>1, <2>2 DEF requestCancel
<1>2. CASE signal' = signal
  <2>1. signal => db.cancel \/ db.status # "running"
    BY DEF IInv, Suspension
  <2>2. CASE Follows(db, db')
    BY <1>2, <2>1, <2>2 DEF Follows
  <2>3. CASE settle /\ db' # db
    BY <1>2, <2>1, <2>3, SettleWrites
  <2>4. CASE Asks(db, db')
    BY <1>2, <2>1, <2>4 DEF Asks
  <2> QED
    BY <2>2, <2>3, <2>4, FactsStep
<1> QED
  BY <1>1, <1>2
     DEF Next, RunnerStep, HandleStep, vars, turn, runnerDecides, settle, raceAborted,
         raceEvent, raceDone, raceThrow, appendBegins, append, recover, cancellationBegins,
         resolve, read, expire, revokeAccess, deltaFails, crash

\* What a settlement makes the runner offer.
SettledOffer ==
    IF runner.cites /\ Settling[runner.pc] = "completed" THEN "message.citation"
    ELSE Settling[runner.pc]

(* The runner offers what it settled, or goes on to its catch.                 *)
LEMMA SettleMoves ==
    ASSUME runner \in Runners, settle
    PROVE  /\ runner'.pc \in {"done", "threw", "failing", "offering"}
           /\ runner'.pc = "offering" =>
                 /\ runner'.offer = SettledOffer /\ runner'.offer # "approval.required"
                 /\ db' \in settlePlatformTurn(db, Settling[runner.pc])
           /\ ~runner'.overtook => ~runner.overtook /\ (tx = Idle \/ db' = db)
<1> DEFINE outcome == Settling[runner.pc]
           caught == IF runner.pc = "failing" THEN "threw" ELSE "failing"
           results == settlePlatformTurn(db, outcome)
<1>1. outcome \in {"completed", "RUNTIME_FAILED", "cancelled"}
  BY DEF settle, Settling
<1>2. caught \in {"threw", "failing"}
  OBVIOUS
<1>3. \/ db' \in results /\ (Settles("done", "none") \/ Settles("offering", SettledOffer))
      \/ db' = db /\ Runner(caught, "none")
      \/ Settles(caught, "none")
  BY DEF settle, SettledOffer
<1>4. SettledOffer # "approval.required"
  BY <1>1 DEF SettledOffer
<1> HIDE DEF outcome, caught, results
<1>5. CASE db' \in results /\ Settles("done", "none")
  BY <1>5 DEF Settles, Runners
<1>6. CASE db' \in results /\ Settles("offering", SettledOffer)
  BY <1>4, <1>6 DEF Settles, Runners, results, outcome
<1>7. CASE db' = db /\ Runner(caught, "none")
  BY <1>2, <1>7 DEF Runner, Runners
<1>8. CASE Settles(caught, "none")
  BY <1>2, <1>8 DEF Settles, Runners
<1> QED
  BY <1>3, <1>5, <1>6, <1>7, <1>8

LEMMA SuspensionStep == ASSUME IInv, [Next]_vars PROVE Suspension'
<1>0. /\ Suspension /\ Decision /\ handle \in Handles /\ runner \in Runners
      /\ signal' => db'.cancel \/ db'.status # "running"
  BY SignalStep DEF IInv, TypeOK, Handles, Runners
<1>1. ASSUME UNCHANGED <<handle, runner>>, Follows(db, db'), EndsBoth(db, db')
      PROVE  Suspension'
  <2>1. Asking' => Asking
    BY <1>1 DEF Asking
  <2> QED
    BY <1>0, <1>1, <2>1, SuspensionKept DEF Suspension
<1>2. ASSUME runnerDecides PROVE Suspension'
  <2>1. Follows(db, db') /\ EndsBoth(db, db') /\ UNCHANGED handle
    BY <1>2, OtherFollows DEF runnerDecides, store
  <2>2. Asking /\ runner.pc = "working"
    BY <1>2 DEF runnerDecides, Asking
  <2> QED
    BY <1>0, <2>1, <2>2, SuspensionKept DEF Suspension
<1>3. ASSUME settle PROVE Suspension'
  <2>1. /\ runner.pc \in {"completing", "failing", "cancelling"}
        /\ UNCHANGED <<handle, signal>>
    BY <1>3 DEF settle, Settling
  <2>2. /\ db.cont.status = "absent" /\ ~handle.approvalPending
        /\ ~(handle.pc = "append" /\ handle.event = "approval.required")
    BY <1>0, <2>1 DEF Suspension
  <2>3. db'.cont = db.cont /\ db'.approval = db.approval
    BY <1>3, SettleWrites
  <2>4. runner'.pc # "working"
        /\ (runner'.pc = "offering" => runner'.offer # "approval.required")
    BY <1>0, <1>3, SettleMoves
  <2>5. ~Asking'
    BY <2>1, <2>2, <2>4 DEF Asking
  <2> QED
    BY <1>0, <2>1, <2>2, <2>3, <2>5 DEF Suspension, Active
<1>4. ASSUME raceAborted PROVE Suspension'
  <2>1. /\ Follows(db, db') /\ EndsBoth(db, db') /\ UNCHANGED runner /\ signal
        /\ handle.pc = "race"
    BY <1>4, OtherFollows DEF raceAborted, Race, store
  <2>2. /\ handle'.pc = "append" /\ handle'.event = "cancelled"
        /\ handle'.approvalPending = handle.approvalPending
    BY <1>0, <1>4 DEF raceAborted, Handle, Handles
  <2>3. ~(handle.approvalPending /\ db.cont.status \in Active)
    BY <1>0, <2>1 DEF Suspension
  <2>4. Asking' => Asking
    BY <2>1, <2>2 DEF Asking
  <2> QED
    BY <1>0, <2>1, <2>2, <2>3, <2>4, SuspensionKept
<1>5. ASSUME raceEvent PROVE Suspension'
  <2>1. /\ Follows(db, db') /\ EndsBoth(db, db') /\ runner.pc = "offering"
        /\ handle.pc = "race"
    BY <1>5, OtherFollows DEF raceEvent, Race, store
  <2>2. ~handle.approvalPending
    BY <1>0, <2>1 DEF Suspension
  <2>3. /\ handle'.approvalPending = handle.approvalPending /\ handle'.pc = "append"
        /\ handle'.event = "CAPABILITY_UNAVAILABLE" \/ handle'.event = runner.offer
    BY <1>0, <1>5 DEF raceEvent, Handle, Handles
  <2>4. \/ runner.offer # "message.citation" /\ runner'.pc = "done"
        \/ runner.offer = "message.citation" /\ runner'.pc = "offering"
           /\ runner'.offer = "completed"
    BY <1>0, <1>5 DEF raceEvent, Runner, Runners
  <2>5. Asking' => Asking
    BY <2>1, <2>3, <2>4 DEF Asking
  <2> QED
    BY <1>0, <2>1, <2>2, <2>3, <2>4, <2>5, SuspensionKept
<1>6. ASSUME raceDone \/ raceThrow PROVE Suspension'
  <2>1. /\ Follows(db, db') /\ EndsBoth(db, db') /\ UNCHANGED runner
        /\ handle.pc = "race"
    BY <1>6, OtherFollows DEF raceDone, raceThrow, Race, store
  <2>2. /\ handle'.approvalPending = handle.approvalPending
        /\ handle'.pc \in {"closed", "last", "catch"}
    BY <1>0, <1>6 DEF raceDone, raceThrow, Handle, Handles
  <2>3. handle.approvalPending /\ db.cont.status \in Active => handle'.pc = "closed"
    BY <1>0, <1>6 DEF raceDone, raceThrow, Handle, Handles, Suspension
  <2>4. Asking' => Asking
    BY <2>1, <2>2 DEF Asking
  <2> QED
    BY <1>0, <2>1, <2>2, <2>3, <2>4, SuspensionKept
<1>7. ASSUME deltaFails PROVE Suspension'
  <2>1. Follows(db, db') /\ EndsBoth(db, db') /\ runner.pc = "working"
    BY <1>7, OtherFollows DEF deltaFails, store
  <2>2. /\ handle'.pc = "catch" /\ handle'.approvalPending = handle.approvalPending
        /\ runner'.pc = "done"
    BY <1>0, <1>7 DEF deltaFails, Handle, Handles, Runner, Runners
  <2>3. ~handle.approvalPending /\ ~Asking'
    BY <1>0, <2>1, <2>2 DEF Suspension, Asking
  <2> QED
    BY <1>0, <2>1, <2>2, <2>3, SuspensionKept
<1>8. ASSUME append PROVE Suspension'
  <2>0. handle.pc \in {"append", "catch", "last"} /\ UNCHANGED <<runner, signal>>
    BY <1>8 DEF append
  <2>1. ~(handle.approvalPending /\ db.cont.status \in Active)
    BY <1>0, <2>0 DEF Suspension
  <2>2. \/ /\ Appended /\ Commits(HandleAppend)
        \/ /\ AppendThrew
           /\ db' = db \/ (Commits(HandleAppend) /\ "lost_ack" \in FaultKinds)
    BY <1>8 DEF append, Throws, RollsBack, Fault
  <2>3. AppendThrew => /\ handle'.pc \in {"catch", "recover", "closed"}
                       /\ handle'.approvalPending = handle.approvalPending
    BY <1>0 DEF AppendThrew, Handle, Handles
  <2>4. Appended => handle'.pc \in {"race", "closed"}
    BY <1>0 DEF Appended, Handle, Handles
  <2>5. Asking' => Asking
    BY <2>0, <2>2, <2>3, <2>4 DEF Asking
  <2>6. CASE Commits(HandleAppend) /\ handle.event = "approval.required"
    <3>1. Asks(db, db')
      BY <2>0, <2>6, AppendFollows
    <3>2. handle.pc = "append" /\ runner.pc = "done" /\ ~handle.approvalPending
      BY <1>0, <2>0, <2>6 DEF Decision, Suspension
    <3>3. db.intent = "none"
      BY <1>0, <2>6, <3>2 DEF Suspension, Asking
    <3>4. ~Asking' /\ ~signal'
      BY <1>0, <2>0, <2>2, <2>3, <2>4, <3>1, <3>2 DEF Asking, Asks, Suspension
    <3>5. \/ handle'.approvalPending
          \/ "lost_ack" \in FaultKinds /\ handle'.pc \in {"catch", "recover", "closed"}
      <4>1. db' # db
        BY <3>1 DEF Asks, Active
      <4>2. Appended => handle'.approvalPending
        BY <1>0, <2>6 DEF Appended, Handles, Outcomes, Failures
      <4> QED
        BY <2>2, <2>3, <4>1, <4>2
    <3>6. handle'.approvalPending => handle'.pc \in {"race", "closed"}
      BY <2>2, <2>3, <2>4, <3>2
    <3> QED
      BY <2>0, <2>2, <2>3, <2>4, <3>1, <3>2, <3>3, <3>4, <3>5, <3>6 DEF Suspension, Asks
  <2>7. CASE ~(Commits(HandleAppend) /\ handle.event = "approval.required")
    <3>1. Follows(db, db')
      BY <2>0, <2>2, <2>7, AppendFollows, OtherFollows
    <3>2. handle'.approvalPending = handle.approvalPending
      BY <1>0, <2>2, <2>3, <2>7 DEF Appended, Handle, Handles
    <3>3. handle.pc = "catch" => handle'.pc \in {"catch", "recover", "closed"}
      <4>1. handle.pc = "catch" => handle.event \in Outcomes
        BY <1>0 DEF Decision, Outcomes, Failures
      <4>2. Appended /\ handle.event \in Outcomes => handle'.pc = "closed"
        BY <1>0 DEF Appended, Handle, Handles
      <4> QED
        BY <2>2, <2>3, <4>1, <4>2
    <3> QED
      BY <1>0, <2>0, <2>1, <2>2, <2>3, <2>4, <2>5, <3>1, <3>2, <3>3
         DEF Suspension, Follows, Suspends
  <2> QED
    BY <2>6, <2>7
<1>9. ASSUME recover PROVE Suspension'
  <2>1. Follows(db, db') /\ EndsBoth(db, db') /\ UNCHANGED runner
    BY <1>9, OtherFollows DEF recover
  <2>2. handle'.pc = "closed" /\ handle'.approvalPending = handle.approvalPending
    BY <1>0, <1>9 DEF recover, Handle, Handles
  <2>3. Asking' => Asking
    BY <2>1, <2>2 DEF Asking
  <2> QED
    BY <1>0, <2>1, <2>2, <2>3, SuspensionKept
<1>10. ASSUME crash PROVE Suspension'
  <2>1. Follows(db, db') /\ EndsBoth(db, db')
    BY <1>10, OtherFollows DEF crash
  <2>2. /\ handle'.pc = "closed" /\ handle'.approvalPending = handle.approvalPending
        /\ runner'.pc = "done"
    BY <1>0, <1>10 DEF crash, Handle, Handles, Runner, Runners
  <2>3. ~Asking'
    BY <2>2 DEF Asking
  <2> QED
    BY <1>0, <2>1, <2>2, <2>3, SuspensionKept
<1>11. ASSUME \/ requestCancel \/ read \/ expire \/ revokeAccess
              \/ \E status \in {"approved", "denied"} : resolve(status)
              \/ appendBegins \/ cancellationBegins \/ UNCHANGED vars
       PROVE  Suspension'
  BY <1>1, <1>11, OtherFollows
     DEF requestCancel, read, expire, revokeAccess, resolve, appendBegins,
         cancellationBegins, Begins, vars, turn, store
<1> QED
  BY <1>2, <1>3, <1>4, <1>5, <1>6, <1>7, <1>8, <1>9, <1>10, <1>11
     DEF Next, RunnerStep, HandleStep

(* An append of an outcome is refused only by an Operation that is decided.    *)
LEMMA ThrowsDecided ==
    ASSUME IInv, handle.event \in Outcomes, Throws(HandleAppend)
    PROVE  Decided
<1>0. Sound(db) /\ db \in Facts
  BY SoundFacts DEF Sound
<1>1. handle.event \notin {"message.citation", "approval.required", "approval.resolved"}
  BY DEF Outcomes, Failures
<1>2. \A d : body(d, HandleAppend) = {} => d.status # "running"
  BY <1>1 DEF body, HandleAppend, appendGatewayOperationEvent
<1>3. \/ conflicts(db) \/ body(db, HandleAppend) = {}
      \/ body(reconciled(db), HandleAppend) = {}
  BY DEF Throws, Pending, Results
<1>4. conflicts(db) => Decided
  BY <1>0 DEF conflicts, Decided, Sound, OneTerminalEvent
<1>5. reconciled(db).status # "running" => Decided
  BY <1>0, ReconcileEffect DEF Decided
<1> QED
  BY <1>2, <1>3, <1>4, <1>5 DEF Decided

LEMMA DecisionStep == ASSUME IInv, [Next]_vars PROVE Decision'
<1>0. /\ Decision /\ handle \in Handles /\ runner \in Runners /\ faults \in Nat
      /\ Decided => Decided'
  BY DecidedStep, FaultsAssumption DEF IInv, TypeOK, Handles, Runners
<1>1. ASSUME UNCHANGED handle, faults' = 0 => faults = 0 PROVE Decision'
  BY <1>0, <1>1 DEF Decision
<1>2. ASSUME raceAborted \/ raceEvent PROVE Decision'
  <2>1. /\ handle'.pc = "append" /\ handle'.approvalPending = handle.approvalPending
        /\ handle'.terminalSeen =>
             handle'.event = "cancelled" \/ handle'.event = "CAPABILITY_UNAVAILABLE"
    BY <1>0, <1>2 DEF raceAborted, raceEvent, Handle, Handles
  <2> QED
    BY <1>0, <2>1 DEF Decision, Outcomes, Failures
<1>3. ASSUME deltaFails \/ raceThrow \/ raceDone PROVE Decision'
  <2>1. /\ handle'.approvalPending = handle.approvalPending
        /\ \/ handle'.pc \in {"catch", "last"} /\ handle'.event = "RUNTIME_FAILED"
           \/ handle'.pc = "closed" /\ handle.approvalPending
    BY <1>0, <1>3 DEF deltaFails, raceThrow, raceDone, Handle, Handles
  <2> QED
    BY <1>0, <2>1 DEF Decision
<1>4. ASSUME append PROVE Decision'
  <2>0. handle.pc \in {"append", "catch", "last"}
    BY <1>4 DEF append
  <2>1. CASE Appended /\ Commits(HandleAppend) /\ handle.event \in Outcomes
    <3>1. db'.status # "running"
      BY <2>0, <2>1, AppendFollows DEF Outcomes, Failures
    <3>2. handle'.pc = "closed"
      BY <1>0, <2>1 DEF Appended, Handle, Handles
    <3> QED
      BY <3>1, <3>2 DEF Decision, Decided
  <2>2. CASE Appended /\ Commits(HandleAppend) /\ handle.event \notin Outcomes
    <3>1. /\ handle'.pc = "race"
          /\ handle'.approvalPending =
               (handle.approvalPending \/ handle.event = "approval.required")
      BY <1>0, <2>2 DEF Appended, Handles
    <3>2. handle.event = "approval.required" => Decided'
      BY <2>0, <2>2, AppendFollows DEF Asks, Decided, Active
    <3> QED
      BY <1>0, <3>1, <3>2 DEF Decision
  <2>3. CASE AppendThrew /\ (faults' # 0 \/ Throws(HandleAppend))
    <3>1. /\ handle'.approvalPending = handle.approvalPending
          /\ \/ handle'.pc = "catch" /\ handle'.event = "RUNTIME_FAILED"
             \/ /\ handle'.pc \in {"recover", "closed"}
                /\ handle.pc \in {"catch", "last"} \/ handle.terminalSeen
      BY <1>0, <2>0, <2>3 DEF AppendThrew, Handle, Handles
    <3>2. CASE handle'.pc = "catch" /\ handle'.event = "RUNTIME_FAILED"
      BY <1>0, <3>1, <3>2 DEF Decision
    <3>3. CASE handle'.pc \in {"recover", "closed"}
      <4>1. handle.event \in Outcomes
        BY <1>0, <2>0, <3>1, <3>3 DEF Decision, Outcomes, Failures
      <4>2. faults' = 0 => Decided'
        BY <1>0, <2>3, <4>1, ThrowsDecided
      <4> QED
        BY <1>0, <3>1, <3>3, <4>2 DEF Decision
    <3> QED
      BY <3>1, <3>2, <3>3
  <2>4. \A kind : Fault(kind) => faults' # 0
    BY <1>0 DEF Fault
  <2> QED
    BY <1>4, <2>1, <2>2, <2>3, <2>4 DEF append
<1>5. ASSUME recover PROVE Decision'
  <2>1. /\ handle.pc = "recover" /\ handle'.pc = "closed" /\ faults' = faults
        /\ handle'.approvalPending = handle.approvalPending
    BY <1>0, <1>5 DEF recover, Handle, Handles
  <2> QED
    BY <1>0, <2>1 DEF Decision
<1>6. ASSUME crash PROVE Decision'
  <2>1. /\ handle'.pc = "closed" /\ faults' # 0
        /\ handle'.approvalPending = handle.approvalPending
    BY <1>0, <1>6 DEF crash, Fault, Handle, Handles
  <2> QED
    BY <1>0, <2>1 DEF Decision
<1>7. settle => UNCHANGED handle /\ (faults' = 0 => faults = 0)
  BY <1>0 DEF settle, Fault
<1> QED
  BY <1>1, <1>2, <1>3, <1>4, <1>5, <1>6, <1>7
     DEF Next, RunnerStep, HandleStep, vars, turn, runnerDecides, appendBegins,
         cancellationBegins, requestCancel, resolve, read, expire, revokeAccess

-------------------------------------------------------------------------------
(* Answers.                                                                    *)

\* Consistent facts that a transaction may write over.
Clean(d) == Consistent(d) /\ (d.status = "running" => d.intent = "none")

(* Consistent facts neither contradict each other nor have to be refused.      *)
LEMMA ConsistentStands ==
    ASSUME NEW d, Sound(d), Consistent(d)
    PROVE  AnswerAgrees(d) /\ ~conflicts(d)
<1>1. AnswerAgrees(d)
  BY DEF Consistent, AnswerAgrees
<1>2. CASE d.status = "running"
  <2>1. terminalEvents(d) = {}
    BY <1>2 DEF Sound, OneTerminalEvent
  <2>2. d.intent # "none" => d.assistant = d.intent
    BY <1>2 DEF Consistent
  <2> QED
    BY <1>1, <1>2, <2>1, <2>2 DEF conflicts
<1>3. CASE d.status # "running"
  <2>1. \E e \in Outcomes : OnlyTerminal(d, e) /\ StatusOf(e) = d.status
    BY <1>3 DEF Sound, OneTerminalEvent, OnlyTerminal, terminalEvents
  <2> QED
    BY <1>1, <1>3, <2>1 DEF conflicts, Consistent
<1> QED
  BY <1>2, <1>3

LEMMA CleanReconciled ==
    ASSUME NEW d, Sound(d), Consistent(d)
    PROVE  Clean(reconciled(d))
<1>1. CASE d.status = "running" /\ d.intent = "none"
  BY <1>1, ReconcileEffect DEF Clean
<1>2. CASE d.status = "running" /\ d.intent # "none"
  <2>1. d.assistant = d.intent /\ d.intent # "pending"
    BY <1>2 DEF Consistent, Sound, Facts, Outcomes, Failures
  <2> QED
    BY <1>2, <2>1, ReconcileEffect DEF Clean, Consistent
<1>3. CASE d.status # "running"
  BY <1>3, ReconcileEffect DEF Clean, Consistent
<1> QED
  BY <1>1, <1>2, <1>3

(* A completion is appended only over a completed answer.                      *)
LEMMA CleanAppended ==
    ASSUME NEW d \in Facts, Clean(d), NEW e \in Events,
           NEW r \in appendGatewayOperationEvent(d, e),
           e = "completed" => d.assistant = "completed"
    PROVE  Consistent(r)
<1>1. CASE e \in Outcomes /\ d.status = "running"
  <2>1. d.assistant = "pending" /\ e # "completed"
    BY <1>1 DEF Clean, Consistent
  <2>2. StatusOf(e) # "completed"
    BY <1>1, <2>1 DEF StatusOf, Outcomes, Failures
  <2> QED
    BY <1>1, <2>1, <2>2, OutcomeEffect DEF Consistent
<1>2. CASE e \in Outcomes /\ d.status # "running"
  BY <1>2, OutcomeEffect DEF Clean
<1>3. CASE e \notin Outcomes
  BY <1>3, EventEffect DEF Clean, Consistent
<1> QED
  BY <1>1, <1>2, <1>3

LEMMA CleanRequested ==
    ASSUME NEW d \in Facts, Clean(d), NEW r \in requestCancellation(d)
    PROVE  Consistent(r)
<1>1. CASE d.status # "running"
  BY <1>1, RequestEffect DEF Clean
<1>2. CASE d.status = "running"
  <2>1. d.intent = "none" /\ d.assistant = "pending"
    BY <1>2 DEF Clean, Consistent
  <2>2. /\ r.assistant = "pending" /\ r.intent = "none"
        /\ r.status \in {"running", "cancelled"}
    BY <1>2, <2>1, RequestEffect
  <2> QED
    BY <2>2 DEF Consistent
<1> QED
  BY <1>1, <1>2

LEMMA CleanResolved ==
    ASSUME NEW d \in Facts, Clean(d), NEW status \in {"approved", "denied"},
           NEW r \in resolveApproval(d, status)
    PROVE  Consistent(r)
<1>1. d.status = "running" /\ d.intent = "none" /\ d.assistant = "pending"
  BY ResolveEffect DEF Clean, Consistent
<1>2. /\ r.assistant = "pending" /\ r.intent = "none"
      /\ r.status \in {"running", "failed"}
  BY <1>1, ResolveEffect
<1> QED
  BY <1>2 DEF Consistent

(* While no settlement overtook a transaction, whatever commits is consistent. *)
LEMMA ConsistentStep ==
    ASSUME IInv, [Next]_vars, ~runner'.overtook
    PROVE  Consistent(db') /\ (tx' # Idle /\ db'.status = "running" => db'.intent = "none")
<1>0. /\ Sound(db) /\ db \in Facts /\ Suspends(db) /\ runner \in Runners
      /\ Decision /\ Answers
  BY SoundFacts, InvariantSuspends DEF Sound, IInv, TypeOK, Runners
<1>1. ~runner.overtook
  <2>1. settle => ~runner.overtook
    BY <1>0, SettleMoves
  <2>2. ~settle => runner'.overtook = runner.overtook
    BY <1>0
       DEF Next, RunnerStep, HandleStep, vars, turn, runnerDecides, raceAborted, raceEvent,
           raceDone, raceThrow, appendBegins, append, recover, cancellationBegins,
           requestCancel, resolve, read, expire, revokeAccess, deltaFails, crash,
           Runner, Runners
  <2> QED
    BY <2>1, <2>2
<1>2. Consistent(db) /\ (tx # Idle /\ db.status = "running" => db.intent = "none")
  BY <1>0, <1>1 DEF Answers
<1>3. CASE db' = db /\ tx' \in {Idle, tx}
  BY <1>2, <1>3
<1>4. ASSUME NEW t, t # Idle, NEW d, (d = db /\ tx = t) \/ d = reconciled(db)
      PROVE  Clean(d) /\ d \in Facts /\ Follows(db, d)
  BY <1>0, <1>2, <1>4, CleanReconciled, FollowsReconciled, FollowsItself DEF Clean, Follows
<1>5. ASSUME NEW t, Begins(t) PROVE db' = db /\ (db.status = "running" => db.intent = "none")
  <2>1. reconciled(db) = db /\ db' = db
    BY <1>5 DEF Begins
  <2> QED
    BY <1>0, <2>1, ReconcileEffect
<1>6. ASSUME appendBegins \/ cancellationBegins
      PROVE  Consistent(db') /\ (db'.status = "running" => db'.intent = "none")
  BY <1>2, <1>5, <1>6 DEF appendBegins, cancellationBegins
<1>7. ASSUME append PROVE tx' = Idle /\ Consistent(db')
  <2>0. handle.pc \in {"append", "catch", "last"} /\ handle.event \in Events
    BY <1>7, TurnIssues DEF append
  <2>1. tx' = Idle /\ (db' = db \/ Commits(HandleAppend))
    BY <1>7 DEF append, Throws, RollsBack, Commits, Finishing
  <2>2. ASSUME Commits(HandleAppend) PROVE Consistent(db')
    <3>1. HandleAppend # Idle /\ Reconciles(HandleAppend)
      BY DEF HandleAppend, Idle, Reconciles
    <3>2. PICK d : /\ (d = db /\ tx = HandleAppend) \/ d = reconciled(db)
                   /\ db' \in body(d, HandleAppend)
      BY <2>2, <3>1, CommitFrom
    <3>3. db' \in appendGatewayOperationEvent(d, handle.event)
      BY <3>2 DEF body, HandleAppend
    <3>4. handle.event = "completed" => db.assistant = "completed"
      BY <1>0, <2>0 DEF Decision, Answers
    <3>5. Clean(d) /\ d \in Facts /\ Follows(db, d)
      BY <1>4, <3>1, <3>2
    <3> QED
      BY <2>0, <3>3, <3>4, <3>5, CleanAppended DEF Follows
  <2> QED
    BY <1>2, <2>1, <2>2
<1>8. ASSUME requestCancel PROVE tx' = Idle /\ Consistent(db')
  <2>1. tx' = Idle /\ (db' = db \/ Commits(Cancelling))
    BY <1>8 DEF requestCancel, Throws, Commits, Finishing
  <2>2. ASSUME Commits(Cancelling) PROVE Consistent(db')
    <3>1. Cancelling # Idle /\ Reconciles(Cancelling)
      BY DEF Cancelling, Idle, Reconciles
    <3>2. PICK d : /\ (d = db /\ tx = Cancelling) \/ d = reconciled(db)
                   /\ db' \in body(d, Cancelling)
      BY <2>2, <3>1, CommitFrom
    <3>3. db' \in requestCancellation(d)
      BY <3>2 DEF body, Cancelling
    <3>4. Clean(d) /\ d \in Facts
      BY <1>4, <3>1, <3>2
    <3> QED
      BY <3>3, <3>4, CleanRequested
  <2> QED
    BY <1>2, <2>1, <2>2
<1>9. ASSUME NEW status \in {"approved", "denied"}, resolve(status)
      PROVE  tx' = Idle /\ Consistent(db')
  <2>1. tx' = Idle /\ db' \in resolveApproval(db, status)
    BY <1>9, CommitFrom DEF resolve, Reconciles, body
  <2>2. Clean(db)
    <3>1. db.approval = "pending"
      BY <2>1 DEF resolveApproval
    <3> QED
      BY <1>0, <1>2, <3>1 DEF Clean, Suspends
  <2> QED
    BY <1>0, <2>1, <2>2, CleanResolved
<1>10. ASSUME read \/ recover PROVE tx' = Idle /\ Consistent(db')
  <2>1. read => tx' = Idle /\ db' \in {db, reconciled(db)}
    BY CommitFrom DEF read, body, Reading
  <2>2. recover => tx' = Idle /\ db' \in {db, reconciled(db)}
    BY DEF recover
  <2> QED
    BY <1>0, <1>2, <1>10, <2>1, <2>2, CleanReconciled DEF Clean
<1>11. ASSUME settle PROVE tx' = tx /\ (db' = db \/ (tx = Idle /\ Consistent(db')))
  <2>1. tx' = tx /\ (tx = Idle \/ db' = db)
    BY <1>0, <1>11, SettleMoves DEF settle
  <2>2. ASSUME db' # db PROVE Consistent(db')
    <3>1. /\ db'.assistant \in {"completed", "RUNTIME_FAILED", "cancelled"}
          /\ db'.status = db.status
          /\ db'.intent = IF db.status = "running" THEN db'.assistant ELSE db.intent
          /\ db.status # "running" => OnlyTerminal(db, db'.assistant)
      BY <1>11, <2>2, SettleWrites DEF Settling
    <3>2. db.status # "running" => StatusOf(db'.assistant) = db.status
      BY <1>0, <3>1 DEF Sound, OneTerminalEvent, OnlyTerminal
    <3> QED
      BY <1>2, <3>1, <3>2 DEF Consistent
  <2> QED
    BY <2>1, <2>2
<1>12. ASSUME expire \/ revokeAccess PROVE tx' = tx /\ Consistent(db')
                                           /\ db'.status = db.status /\ db'.intent = db.intent
  BY <1>0, <1>2, <1>12 DEF expire, revokeAccess, Consistent, Facts
<1> QED
  BY <1>2, <1>3, <1>6, <1>7, <1>8, <1>9, <1>10, <1>11, <1>12
     DEF Next, RunnerStep, HandleStep, vars, store, runnerDecides, raceAborted, raceEvent,
         raceDone, raceThrow, deltaFails, crash

(* The runner offers an answer only after it settled it, and the loop appends  *)
(* only what it was offered.                                                   *)
LEMMA AnswersStep == ASSUME IInv, [Next]_vars PROVE Answers'
<1>0. /\ handle \in Handles /\ runner \in Runners
      /\ handle.pc = "append" /\ handle.event \in {"completed", "message.citation"}
            => db.assistant = "completed"
      /\ runner.pc = "offering" /\ runner.offer \in {"completed", "message.citation"}
           => db.assistant = "completed"
      /\ db.assistant = "completed" => db'.assistant = "completed"
  BY DecidedStep DEF IInv, TypeOK, Handles, Runners, Answers
<1>1. handle'.pc = "append" /\ handle'.event \in {"completed", "message.citation"}
        => db'.assistant = "completed"
  <2>1. CASE handle' = handle
    BY <1>0, <2>1
  <2>2. ASSUME raceEvent, handle'.event \in {"completed", "message.citation"}
        PROVE  db'.assistant = "completed"
    <3>1. runner.pc = "offering" /\ runner.offer \in {"completed", "message.citation"}
      BY <1>0, <2>2 DEF raceEvent, Handle, Handles
    <3> QED
      BY <1>0, <3>1
  <2>3. ASSUME raceAborted PROVE handle'.event \notin {"completed", "message.citation"}
    BY <1>0, <2>3 DEF raceAborted, Handle, Handles
  <2>4. ASSUME raceDone \/ raceThrow \/ deltaFails \/ recover \/ crash \/ append
        PROVE  handle'.pc # "append"
    BY <1>0, <2>4
       DEF raceDone, raceThrow, deltaFails, recover, crash, append, Appended, AppendThrew,
           Handle, Handles
  <2> QED
    BY <2>1, <2>2, <2>3, <2>4
       DEF Next, RunnerStep, HandleStep, vars, turn, runnerDecides, settle, appendBegins,
           cancellationBegins, requestCancel, resolve, read, expire, revokeAccess
<1>2. runner'.pc = "offering" /\ runner'.offer \in {"completed", "message.citation"}
        => db'.assistant = "completed"
  <2>1. CASE runner' = runner
    BY <1>0, <2>1
  <2>2. ASSUME runnerDecides PROVE runner'.offer \notin {"completed", "message.citation"}
    BY <1>0, <2>2 DEF runnerDecides, Runner, Runners
  <2>3. ASSUME settle, runner'.pc = "offering",
               runner'.offer \in {"completed", "message.citation"}
        PROVE  db'.assistant = "completed"
    <3>1. /\ runner'.offer = SettledOffer
          /\ db' \in settlePlatformTurn(db, Settling[runner.pc])
      BY <1>0, <2>3, SettleMoves
    <3>2. Settling[runner.pc] = "completed"
      BY <2>3, <3>1 DEF SettledOffer, settle, Settling
    <3>3. db \in Facts
      BY SoundFacts DEF Sound
    <3> QED
      BY <3>1, <3>2, <3>3 DEF settlePlatformTurn, Facts
  <2>4. ASSUME raceEvent, runner'.pc = "offering" PROVE db'.assistant = "completed"
    <3>1. runner.pc = "offering" /\ runner.offer = "message.citation"
      BY <1>0, <2>4 DEF raceEvent, Runner, Runners
    <3> QED
      BY <1>0, <3>1
  <2>5. ASSUME deltaFails \/ crash PROVE runner'.pc # "offering"
    BY <1>0, <2>5 DEF deltaFails, crash, Runner, Runners
  <2> QED
    BY <2>1, <2>2, <2>3, <2>4, <2>5
       DEF Next, RunnerStep, HandleStep, vars, turn, raceAborted, raceDone, raceThrow,
           appendBegins, append, recover, cancellationBegins, requestCancel, resolve, read,
           expire, revokeAccess
<1> QED
  BY <1>1, <1>2, ConsistentStep DEF Answers

-------------------------------------------------------------------------------
(* The refinement.                                                             *)

LEMMA InvariantTells ==
    IInv => /\ Lifecycle!Coherent /\ Answering(db)
            /\ db.approval = "pending" => db.intent = "none"
  BY DEF IInv, Telling, Answering, Suspension

(* Whatever the loop appends to a running Operation respects its lifecycle: a  *)
(* request comes first, a completion after its answer, and over a pending      *)
(* approval it only ever records that it failed.                               *)
LEMMA LoopAppendable ==
    ASSUME IInv, handle.pc \in {"append", "catch", "last"}, db.status = "running"
    PROVE  Appendable(db, handle.event)
<1>0. Suspension /\ Decision /\ Answers /\ Telling
  BY DEF IInv
<1>1. handle.event # "approval.resolved"
  BY DEF IInv
<1>2. ASSUME handle.event = "approval.required"
      PROVE  db.approval = "none" /\ db.assistant # "completed"
  <2>1. handle.pc = "append"
    BY <1>0, <1>2 DEF Decision
  <2>2. db.cont.status = "absent" /\ db.intent = "none"
    BY <1>0, <1>2, <2>1 DEF Suspension, Asking
  <2> QED
    BY <1>0, <2>2 DEF Telling
<1>3. handle.event \in {"completed", "message.citation"} => db.assistant = "completed"
  BY <1>0 DEF Decision, Answers
<1>4. ASSUME db.approval = "pending" PROVE handle.event = "RUNTIME_FAILED"
  <2>1. db.cont.status \in Active /\ db.cont.status # "absent"
    BY <1>0, <1>4 DEF Suspension, Active
  <2>2. handle.pc = "catch"
    BY <1>0, <2>1 DEF Suspension
  <2> QED
    BY <1>0, <2>2 DEF Decision
<1> QED
  BY <1>1, <1>2, <1>3, <1>4 DEF Appendable

(* Every step of the system is one of the lifecycle, or shows a client nothing *)
(* new.                                                                        *)
LEMMA TellsStep ==
    ASSUME IInv, [Next]_vars
    PROVE  /\ [Lifecycle!Next]_(Lifecycle!vars)
           /\ Answering(db')
           /\ db'.status = "running" /\ db'.approval = db.approval => db'.cont = db.cont
<1> DEFINE Goal == /\ [Lifecycle!Next]_(Lifecycle!vars)
                   /\ Answering(db')
                   /\ db'.status = "running" /\ db'.approval = db.approval
                        => db'.cont = db.cont
<1>0. /\ Sound(db) /\ db \in Facts /\ Lifecycle!Coherent /\ Answering(db)
      /\ db.approval = "pending" => db.intent = "none"
  BY SoundFacts, InvariantTells DEF Sound
<1>1. ASSUME Silent(db, db'), db'.intent = db.intent, db'.assistant = db.assistant,
             db'.cont = db.cont
      PROVE  Goal
  BY <1>0, <1>1, SilentStep DEF Silent, Answering
<1>2. ASSUME db' = db PROVE Goal
  BY <1>1, <1>2 DEF Silent
<1>3. ASSUME NEW t \in Transactions, Commits(t), db.status = "running" => Proper(db, t)
      PROVE  Goal
  <2>1. /\ [Lifecycle!Next]_(Lifecycle!vars)
        /\ db'.status = "running" => db.status = "running" /\ Stays(db, db')
    BY <1>0, <1>3, CommitTells
  <2> QED
    BY <1>0, <2>1 DEF Stays, Answering
<1>4. ASSUME settle PROVE Goal
  <2> DEFINE outcome == Settling[runner.pc]
  <2>1. outcome \in Outcomes /\ runner.pc \in {"completing", "failing", "cancelling"}
    BY <1>4 DEF settle, Settling, Outcomes, Failures
  <2>2. db' = db \/ db' \in settlePlatformTurn(db, outcome)
    BY <1>4 DEF settle
  <2>3. db.approval = "none"
    BY <2>1 DEF IInv, Suspension, Telling
  <2>4. db' # db => db'.cont = db.cont
    BY <1>4, SettleWrites
  <2> HIDE DEF outcome
  <2> QED
    BY <1>0, <1>2, <2>1, <2>2, <2>3, <2>4, AnswerTells
<1>5. ASSUME append PROVE Goal
  <2>1. /\ handle.pc \in {"append", "catch", "last"} /\ HandleAppend \in Transactions
    BY <1>5, TurnIssues DEF append
  <2>2. db' = db \/ Commits(HandleAppend)
    BY <1>5 DEF append, Throws, RollsBack
  <2>3. db.status = "running" => Proper(db, HandleAppend)
    BY <2>1, LoopAppendable DEF Proper, HandleAppend
  <2> QED
    BY <1>2, <1>3, <2>1, <2>2, <2>3
<1>6. ASSUME recover PROVE Goal
  <2>1. db' = db \/ db' = reconciled(db)
    BY <1>6 DEF recover
  <2>2. ASSUME db' = reconciled(db), reconciled(db) # db PROVE Goal
    <3>1. Silent(reconciled(db), db')
      BY <2>2 DEF Silent
    <3>2. [Lifecycle!Next]_(Lifecycle!vars)
      BY <1>0, <2>2, <3>1, ReconciledTells
    <3>3. db'.status # "running" 
      BY <1>0, <2>2, ReconcileEffect
    <3> QED
      BY <3>2, <3>3 DEF Answering
  <2> QED
    BY <1>2, <2>1, <2>2
<1>7. ASSUME requestCancel PROVE Goal
  <2>1. db' = db \/ Commits(Cancelling)
    BY <1>7 DEF requestCancel, Throws
  <2>2. Cancelling \in Transactions /\ Proper(db, Cancelling)
    BY TurnIssues DEF Proper, Cancelling
  <2> QED
    BY <1>2, <1>3, <2>1, <2>2
<1>8. ASSUME NEW status \in {"approved", "denied"}, resolve(status) PROVE Goal
  <2> DEFINE t == [op |-> "resolveApproval", status |-> status]
  <2>1. t \in Transactions /\ Proper(db, t) /\ Commits(t)
    BY <1>8, TurnIssues DEF Proper, resolve
  <2> QED
    BY <1>3, <2>1
<1>9. ASSUME read PROVE Goal
  <2>1. Reading \in Transactions /\ Proper(db, Reading) /\ Commits(Reading)
    BY <1>9, TurnIssues DEF Proper, Reading, read
  <2> QED
    BY <1>3, <2>1
<1>10. ASSUME expire \/ revokeAccess PROVE Goal
  <2>1. /\ db'.status = db.status /\ db'.approval = db.approval /\ db'.events = db.events
        /\ db'.assistant = db.assistant /\ db'.intent = db.intent /\ db'.cont = db.cont
    BY <1>0, <1>10 DEF expire, revokeAccess, Facts
  <2> QED
    BY <1>1, <2>1 DEF Silent
<1> HIDE DEF Goal
<1>11. Goal
  BY <1>2, <1>4, <1>5, <1>6, <1>7, <1>8, <1>9, <1>10
     DEF Next, RunnerStep, HandleStep, vars, store, runnerDecides, raceAborted, raceEvent,
         raceDone, raceThrow, appendBegins, Begins, cancellationBegins, deltaFails, crash
<1> QED
  BY <1>11 DEF Goal

(* An approval that does not exist yet is asked for before it is decided.      *)
LEMMA AskedFirst ==
    ASSUME [Lifecycle!Next]_(Lifecycle!vars)
    PROVE  /\ db'.approval = "none" => db.approval = "none"
           /\ db.approval = "none" => db'.approval \in {"none", "pending"}
           /\ db'.approval = "pending" => db.approval \in {"none", "pending"}
           /\ db'.status = "running" => db.status = "running"
<1>1. CASE UNCHANGED Lifecycle!vars
  BY <1>1 DEF Lifecycle!vars
<1>2. CASE Lifecycle!Next
  BY <1>2
     DEF Lifecycle!Next, Lifecycle!Ask, Lifecycle!Approve, Lifecycle!Deny,
         Lifecycle!Answer, Lifecycle!Cite, Lifecycle!End, Lifecycle!Running
<1> QED
  BY <1>1, <1>2

LEMMA TellingStep == ASSUME IInv, [Next]_vars PROVE Telling'
<1>0. Telling /\ Suspension
  BY DEF IInv
<1>1. /\ [Lifecycle!Next]_(Lifecycle!vars) /\ Answering(db')
      /\ db'.status = "running" /\ db'.approval = db.approval => db'.cont = db.cont
  BY TellsStep
<1>2. Lifecycle!Coherent'
  BY <1>0, <1>1, CoherentStep DEF Telling
<1>3. CASE Asks(db, db')
  <2>1. db.approval = "none" /\ db.status = "running"
    <3>1. db.approval \in {"none", "pending"}
      BY <1>1, <1>3, AskedFirst DEF Asks
    <3>2. db.approval # "pending"
      BY <1>0, <1>3 DEF Asks, Suspension, Active
    <3> QED
      BY <1>3, <3>1, <3>2 DEF Asks
  <2>2. Unclaimed(db'.cont)
    BY <1>0, <1>3, <2>1 DEF Asks, SameLease, Unclaimed, Telling
  <2> QED
    BY <1>1, <1>2, <1>3, <2>2 DEF Telling, Answering, Asks
<1>4. CASE \/ Follows(db, db')
           \/ settle /\ db' # db
  <2>1. /\ db.cont.status = "absent" <=> db'.cont.status = "absent"
        /\ db'.approval = "pending" => db'.cont.status = "waiting_approval"
    BY <1>0, <1>4, SettleWrites DEF Follows, Suspends, Suspension
  <2>2. db'.approval = "none" <=> db'.cont.status = "absent"
    BY <1>0, <1>1, <2>1, AskedFirst DEF Telling
  <2>3. db'.approval = "pending" => db.approval = "pending"
    BY <1>0, <1>1, <2>1, AskedFirst DEF Telling
  <2>4. db'.status = "running" /\ db'.approval \in {"none", "pending"}
          => Unclaimed(db'.cont)
    BY <1>0, <1>1, <2>3, AskedFirst DEF Telling
  <2> QED
    BY <1>1, <1>2, <2>2, <2>4 DEF Telling, Answering
<1> QED
  BY <1>3, <1>4, FactsStep

-------------------------------------------------------------------------------
(* The theorems.                                                               *)

LEMMA InvariantStart == Init => IInv
<1> SUFFICES ASSUME Init PROVE IInv
  OBVIOUS
<1>1. db \in Facts /\ TerminalUnique
  BY NewIsSound DEF Init, Sound, TerminalUnique
<1>2. handle \in Handles /\ runner \in Runners
  BY DEF Init, Handles, Runners
<1>3. attached \in BOOLEAN /\ signal \in BOOLEAN
  BY DEF Init
<1>4. faults \in 0..MaxFaults
  BY FaultsAssumption DEF Init
<1>5. TypeOK
  BY <1>1, <1>2, <1>3, <1>4 DEF TypeOK, Init, Handles, Runners
<1>6. ApprovalDrivesContinuation /\ ~db.job
  BY DEF Init, NewFacts, ApprovalDrivesContinuation
<1>7. runner.pc = "working" /\ ~handle.approvalPending
  BY DEF Init
<1>8. Suspension /\ Decision /\ Answers
  BY <1>7 DEF Init, NewFacts, Suspension, Decision, Answers, Consistent, Active
<1>9. Telling
  BY DEF Init, NewFacts, Telling, Unclaimed, Lifecycle!Coherent, Lifecycle!Running
<1> QED
  BY <1>1, <1>5, <1>6, <1>7, <1>8, <1>9 DEF IInv, Init

LEMMA InvariantStep == IInv /\ [Next]_vars => IInv'
<1> SUFFICES ASSUME IInv, [Next]_vars PROVE IInv'
  OBVIOUS
<1>1. db' \in Facts /\ OneTerminalEvent(db')
  BY StoreStep DEF Kept, Sound
<1>2. TypeOK'
  BY <1>1, LockStep, HandleStepSound, RunnerStepSound, FlagStep
     DEF TypeOK, HandleSound, RunnerSound, Handles, Runners, TurnTransactions
<1>3. ApprovalDrivesContinuation' /\ (db'.job /\ db'.status = "running" => db'.cont.status = "ready")
  BY StoryStep DEF ApprovalDrivesContinuation, Story
<1> QED
  BY <1>1, <1>2, <1>3, HandleStepSound, RunnerStepSound, SuspensionStep, DecisionStep,
     AnswersStep, TellingStep
     DEF IInv, TerminalUnique, HandleSound, RunnerSound

(* The invariant of a turn: whatever the loop, the runner, other requests and  *)
(* faults do, the facts are sound, the loop never appends nothing and the      *)
(* runner never offers nothing; a turn that waits for an approval is settled   *)
(* by nobody, a loop gives up what is decided, and it announces no completion  *)
(* that the runner has not settled.                                            *)
THEOREM TurnInvariant == Spec => []IInv
  BY InvariantStart, InvariantStep, PTL DEF Spec

(* Every state of a turn is well typed.                                        *)
THEOREM TurnTypes == Spec => []TypeOK
<1>1. IInv => TypeOK
  BY DEF IInv
<1> QED
  BY <1>1, TurnInvariant, PTL

(* Exactly one terminal event, the last one, in a terminal Operation and none  *)
(* in a running one, although four parties write it under faults.              *)
THEOREM TurnTerminalUnique == Spec => []TerminalUnique
<1>1. IInv => TerminalUnique
  BY DEF IInv
<1> QED
  BY <1>1, TurnInvariant, PTL

(* Approval, continuation and queue tell one story: a continuation waits only  *)
(* while its approval is pending, is ready only once approved and enqueued,    *)
(* and no job exists without an approval, under any faults.                    *)
THEOREM TurnApproval == Spec => []ApprovalDrivesContinuation
<1>1. IInv => ApprovalDrivesContinuation
  BY DEF IInv
<1> QED
  BY <1>1, TurnInvariant, PTL

(* A contradiction between the settled answer and the Operation has one cause: *)
(* the settlement committed while a transaction of the store was past its      *)
(* reconciliation.  Every other interleaving, retry, crash and lost            *)
(* acknowledgement leaves both telling the same story.                         *)
THEOREM TurnContradictedOnlyInWindow == Spec => []ContradictedOnlyInWindow
<1>1. IInv => ContradictedOnlyInWindow
  <2> SUFFICES ASSUME IInv, ~runner.overtook PROVE SettledAnswerStands
    BY DEF ContradictedOnlyInWindow
  <2>1. Sound(db) /\ Consistent(db)
    BY SoundFacts DEF IInv, Answers
  <2> QED
    BY <2>1, ConsistentStands DEF SettledAnswerStands
<1> QED
  BY <1>1, TurnInvariant, PTL

(* An Operation that ended leaves no continuation to resume and no approval to *)
(* decide, once its loop learnt of the approval request.                       *)
THEOREM TurnNothingLeftToResume == Spec => []NothingLeftToResume
<1>1. IInv => NothingLeftToResume
  BY DEF IInv, Suspension, NothingLeftToResume, Active
<1> QED
  BY <1>1, TurnInvariant, PTL

(* Without lost acknowledgements the loop always learns of it, so no ended     *)
(* Operation leaves anything to resume.                                        *)
THEOREM TurnEndsSuspension ==
    "lost_ack" \notin FaultKinds
      => (Spec => [](db.status # "running"
                       => db.cont.status \notin Active /\ db.approval # "pending"))
<1> SUFFICES ASSUME "lost_ack" \notin FaultKinds
             PROVE  Spec => [](db.status # "running"
                                 => db.cont.status \notin Active /\ db.approval # "pending")
  OBVIOUS
<1>1. IInv => (db.status # "running"
                 => db.cont.status \notin Active /\ db.approval # "pending")
  BY DEF IInv, Suspension, Active
<1> QED
  BY <1>1, TurnInvariant, PTL

(* Where no fault hits it, the loop ends only once the Operation is decided,   *)
(* whatever the runner, the canceller and the approver did meanwhile.          *)
THEOREM TurnLoopLeavesDecided == Spec => []LoopLeavesDecided
<1>1. IInv => LoopLeavesDecided
  BY DEF IInv, Decision, LoopLeavesDecided
<1> QED
  BY <1>1, TurnInvariant, PTL

(* What a client has read of a turn is never taken back: the stream grows at   *)
(* its end only, and nothing follows a terminal status.                        *)
THEOREM TurnHistoryKept == Spec => HistoryKept
<1>1. IInv /\ [Next]_vars => [Extends(db, db')]_vars
  <2> SUFFICES ASSUME IInv, [Next]_vars PROVE Extends(db, db')
    OBVIOUS
  <2>1. db \in Facts /\ db' \in Facts /\ Grows(db, db')
    BY StoreStep, SoundFacts DEF Kept, Sound
  <2> QED
    BY <2>1, GrowsExtends
<1> QED
  BY <1>1, TurnInvariant, PTL DEF Spec, HistoryKept

(* What any client sees of a turn is a life of the abstract Operation: one     *)
(* approval at most, asked for before there is an answer, and one end, which   *)
(* tells of a completion only when the answer is durable.                      *)
THEOREM TurnImplementsLifecycle == Spec => ImplementsLifecycle
<1>1. Init => Lifecycle!Begun
  BY DEF Init, NewFacts, Lifecycle!Begun
<1>2. IInv /\ [Next]_vars => [Lifecycle!Next]_(Lifecycle!vars)
  BY TellsStep
<1> QED
  BY <1>1, <1>2, TurnInvariant, PTL DEF Spec, ImplementsLifecycle, Lifecycle!Spec

(* A continuation that is approved is what the worker expects to find: nobody  *)
(* has claimed, cancelled, answered or ended anything of it.                   *)
LEMMA HandOver ==
    ASSUME IInv, [Next]_vars, db.approval # "approved", db'.approval = "approved"
    PROVE  db' = ApprovedFacts
<1>0. /\ Sound(db) /\ db \in Facts /\ db' \in Facts
      /\ Telling /\ Suspension /\ Telling'
  BY SoundFacts, StoreStep, TellingStep DEF Sound, Kept, IInv
<1>1. ASSUME NEW t \in TurnTransactions \cup {Reading}, Commits(t)
      PROVE  db'.approval \in {db.approval, "pending", "revoked"}
  <2>1. PICK d \in {db, reconciled(db)} : db' \in body(d, t)
    BY <1>1, CommitFrom
  <2>2. d \in Facts /\ d.approval = db.approval
    BY <1>0, <2>1, ReconcileEffect
  <2>3. CASE t \in [op : {"append"}, event : Events]
    <3>1. t.event \in Events /\ db' \in appendGatewayOperationEvent(d, t.event)
      BY <2>1, <2>3 DEF body
    <3> QED
      BY <2>2, <3>1, OutcomeEffect, EventEffect
  <2>4. CASE t \in [op : {"requestCancellation"}]
    <3>1. db' \in requestCancellation(d)
      BY <2>1, <2>4 DEF body
    <3> QED
      BY <2>2, <3>1, RequestEffect
  <2>5. CASE t = Reading
    BY <2>1, <2>2, <2>5 DEF body, Reading
  <2> QED
    BY <2>3, <2>4, <2>5 DEF TurnTransactions
<1>2. append \/ requestCancel \/ read => db'.approval \in {db.approval, "pending", "revoked"}
  <2>1. append => HandleAppend \in TurnTransactions
    BY TurnIssues DEF append
  <2> QED
    BY <1>1, <2>1, TurnIssues DEF append, requestCancel, read, Throws, RollsBack
<1>3. settle \/ recover => db'.approval = db.approval
  BY <1>0, SettleWrites, ReconcileEffect DEF recover
<1>4. expire \/ revokeAccess => db'.approval = db.approval
  BY <1>0 DEF expire, revokeAccess, Facts
<1>5. PICK status \in {"approved", "denied"} : resolve(status)
  BY <1>2, <1>3, <1>4
     DEF Next, RunnerStep, HandleStep, vars, store, runnerDecides, raceAborted, raceEvent,
         raceDone, raceThrow, appendBegins, Begins, cancellationBegins, deltaFails, crash
<1>6. db.access /\ db' \in resolveApproval(db, status)
  BY <1>5, CommitFrom DEF resolve, Reconciles, body
<1>7. /\ db.status = "running" /\ db.approval = "pending" /\ db'.status = "running"
      /\ db'.assistant = db.assistant /\ db'.cancel = db.cancel /\ db'.access = db.access
      /\ db'.intent = db.intent /\ db'.cont.status = "ready" /\ db'.job /\ ~db'.expired
      /\ SameLease(db.cont, db'.cont) /\ db.cont.status = "waiting_approval"
  BY <1>0, <1>6, ResolveEffect
<1>8. db'.intent = "none" /\ db'.assistant = "pending" /\ ~db'.cancel
  BY <1>0, <1>7 DEF Suspension, Telling, Active
<1>9. db'.events = <<"approval.required", "approval.resolved">>
  BY <1>0, <1>7, <1>8 DEF Telling, Lifecycle!Coherent, Lifecycle!Running
<1>10. db'.cont = [NewFacts.cont EXCEPT !.status = "ready"]
  <2>1. Unclaimed(db'.cont)
    BY <1>0, <1>7 DEF Telling, SameLease, Unclaimed
  <2> QED
    BY <1>0, <1>7, <2>1 DEF Unclaimed, NewFacts, Facts, Continuations
<1>11. /\ db'.status = "running" /\ db'.cancel = FALSE /\ db'.approval = "approved"
       /\ db'.expired = FALSE /\ db'.access = TRUE /\ db'.job = TRUE
  BY <1>0, <1>6, <1>7, <1>8 DEF Facts
<1> DEFINE Written(c, v) ==
        [status |-> "running", cancel |-> FALSE, intent |-> "none", events |-> v,
         assistant |-> "pending", approval |-> "approved", expired |-> FALSE, cont |-> c,
         access |-> TRUE, job |-> TRUE]
<1>12. db' = Written(db'.cont, db'.events)
  BY <1>0, <1>8, <1>11 DEF Facts
<1>13. ApprovedFacts = Written([NewFacts.cont EXCEPT !.status = "ready"],
                               <<"approval.required", "approval.resolved">>)
  <2>1. /\ ApprovedFacts.cont = [NewFacts.cont EXCEPT !.status = "ready"]
        /\ ApprovedFacts.events = <<"approval.required", "approval.resolved">>
        /\ ApprovedFacts.status = "running" /\ ApprovedFacts.cancel = FALSE
        /\ ApprovedFacts.intent = "none" /\ ApprovedFacts.assistant = "pending"
        /\ ApprovedFacts.approval = "approved" /\ ApprovedFacts.expired = FALSE
        /\ ApprovedFacts.access = TRUE /\ ApprovedFacts.job = TRUE
    BY DEF ApprovedFacts, NewFacts
  <2>2. ApprovedFacts = Written(ApprovedFacts.cont, ApprovedFacts.events)
    <3>1. ApprovedFacts \in Facts
      BY ApprovedSound DEF Sound
    <3> QED
      BY <2>1, <3>1 DEF Facts
  <2> QED
    BY <2>1, <2>2
<1> QED
  BY <1>9, <1>10, <1>12, <1>13

(* Whenever an approval is granted, the facts are exactly those from which     *)
(* McpContinuation starts, so its results hold of every approved turn.         *)
THEOREM TurnHandsOver == Spec => HandsOver
<1>1. IInv /\ [Next]_vars
        => [db.approval # "approved" /\ db'.approval = "approved" => db' = ApprovedFacts]_vars
  BY HandOver
<1> QED
  BY <1>1, TurnInvariant, PTL DEF Spec, HandsOver
===============================================================================

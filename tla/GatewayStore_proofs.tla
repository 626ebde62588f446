-------------------------- MODULE GatewayStore_proofs --------------------------
(* What every transaction of GatewayStore preserves, whoever runs it: the      *)
(* facts stay well formed, there is at most one terminal event, at the end of  *)
(* the stream, and what a client has read stays.  GatewayTurn_proofs and       *)
(* McpContinuation_proofs rest on these facts.                                 *)
EXTENDS GatewayStore, SequenceTheorems, TLAPS

\* A stream only grows, said event by event.
Grows(d, r) ==
    /\ Len(d.events) <= Len(r.events)
    /\ \A i \in 1..Len(d.events) : r.events[i] = d.events[i]
    /\ d.status # "running" => r.status = d.status /\ r.events = d.events

Sound(d) == d \in Facts /\ OneTerminalEvent(d)
Kept(d, r) == Sound(r) /\ Grows(d, r)

Transactions ==
    [op : {"append"}, event : Events]
    \cup [op : {"read", "requestCancellation", "cancelContinuation",
                "rejectContinuationAuthorization"}]
    \cup [op : {"resolveApproval"}, status : {"approved", "denied"}]
    \cup [op : {"settleContinuation"}, owner : Workers, gen : Nat, outcome : Outcomes]

-------------------------------------------------------------------------------
(* The fields of the facts and of a continuation.                              *)

(* A blank Operation is well formed and has no terminal event.                 *)
LEMMA NewIsSound == Sound(NewFacts)
<1>1. NewFacts.cont \in Continuations
  BY DEF NewFacts, Continuations, ContinuationFailures
<1>2. NewFacts.events \in Seq(Events) /\ DOMAIN NewFacts.events = {}
  BY EmptySeq DEF NewFacts
<1>3. NewFacts \in Facts
  BY <1>1, <1>2 DEF NewFacts, Facts
<1> QED
  BY <1>2, <1>3 DEF Sound, OneTerminalEvent, terminalEvents, NewFacts

(* So is an approved one.                                                      *)
LEMMA ApprovedSound == Sound(ApprovedFacts)
<1>1. NewFacts \in Facts
  BY NewIsSound DEF Sound
<1>2. [NewFacts.cont EXCEPT !.status = "ready"] \in Continuations
  BY <1>1 DEF Facts, Continuations, Active
<1>3. <<"approval.required", "approval.resolved">> \in Seq(Events)
  BY DEF Events
<1>4. ApprovedFacts \in Facts
  BY <1>1, <1>2, <1>3 DEF ApprovedFacts, Facts
<1>5. /\ ApprovedFacts.status = "running"
      /\ ApprovedFacts.events = <<"approval.required", "approval.resolved">>
  BY DEF ApprovedFacts, NewFacts
<1>6. terminalEvents(ApprovedFacts) = {}
  BY <1>5 DEF terminalEvents, Outcomes, Failures
<1> QED
  BY <1>4, <1>5, <1>6 DEF Sound, OneTerminalEvent

(* Withdrawing a lease leaves a well-formed continuation, whatever the status. *)
LEMMA UnleasedContinuation ==
    ASSUME NEW c \in Continuations, NEW st \in Active \cup Terminal,
           NEW f \in ContinuationFailures
    PROVE  Unleased(c, st, f) \in Continuations
  BY DEF Continuations, Unleased

(* So does a claim of a process that gets a live lease.                        *)
LEMMA ClaimedContinuation ==
    ASSUME NEW c \in Continuations, NEW w \in Workers
    PROVE  Claimed(c, w, 1) \in Continuations
<1>1. c.gen + 1 \in Nat
  BY DEF Continuations
<1>2. /\ "running" \in {"absent"} \cup Active \cup Terminal
      /\ w \in Workers \cup {NoOwner} /\ 1 \in {0, 1}
  BY DEF Active
<1> QED
  BY <1>1, <1>2 DEF Continuations, Claimed

(* A status or an expiry written alone leaves a continuation well formed.      *)
LEMMA PatchedContinuation ==
    ASSUME NEW c \in Continuations
    PROVE  /\ \A st \in Active : [c EXCEPT !.status = st] \in Continuations
           /\ [c EXCEPT !.expires = 0] \in Continuations
  BY DEF Continuations

-------------------------------------------------------------------------------
(* Streams.                                                                    *)

(* Facts with the stream and the status of sound facts are sound.              *)
LEMMA SameStream ==
    ASSUME NEW d, NEW r, Sound(d), r \in Facts,
           r.status = d.status, r.events = d.events
    PROVE  Kept(d, r)
<1>1. d.events \in Seq(Events) /\ Len(d.events) \in Nat
  BY LenProperties DEF Sound, Facts
<1>2. OneTerminalEvent(r)
  BY DEF Sound, OneTerminalEvent, terminalEvents
<1> QED
  BY <1>1, <1>2 DEF Sound, Kept, Grows

(* Growth is transitive, so a transaction may be proved statement by statement. *)
LEMMA KeptTransitive ==
    ASSUME NEW d, NEW m, NEW r, d \in Facts, Kept(d, m), Kept(m, r)
    PROVE  Kept(d, r)
<1>1. /\ d.events \in Seq(Events) /\ Len(d.events) \in Nat
      /\ m.events \in Seq(Events) /\ Len(m.events) \in Nat
      /\ r.events \in Seq(Events) /\ Len(r.events) \in Nat
  BY LenProperties DEF Kept, Sound, Facts
<1>2. Len(d.events) <= Len(m.events) /\ Len(m.events) <= Len(r.events)
  BY DEF Kept, Grows
<1>3. Len(d.events) <= Len(r.events)
  BY <1>1, <1>2
<1>4. ASSUME NEW i \in 1..Len(d.events) PROVE r.events[i] = d.events[i]
  <2>1. i \in 1..Len(m.events)
    BY <1>1, <1>2
  <2> QED
    BY <2>1 DEF Kept, Grows
<1>5. d.status # "running" => r.status = d.status /\ r.events = d.events
  BY DEF Kept, Grows
<1> QED
  BY <1>3, <1>4, <1>5 DEF Kept, Grows

(* Growth said event by event is the growth that the action property states.   *)
LEMMA GrowsExtends ==
    ASSUME NEW d, NEW r, d \in Facts, r \in Facts, Grows(d, r)
    PROVE  Extends(d, r)
<1> DEFINE n == Len(d.events)
           prefix == SubSeq(r.events, 1, n)
<1>1. /\ d.events \in Seq(Events) /\ n \in Nat
      /\ r.events \in Seq(Events) /\ Len(r.events) \in Nat
  BY LenProperties DEF Facts
<1>2. n <= Len(r.events) /\ \A i \in 1..n : r.events[i] = d.events[i]
  BY DEF Grows
<1>3. \A i \in 1..n : r.events[i] \in Events
  BY <1>1, <1>2, ElementOfSeq
<1>4. /\ prefix \in Seq(Events)
      /\ Len(prefix) = (IF 1 <= n THEN n - 1 + 1 ELSE 0)
      /\ \A i \in 1..(n - 1 + 1) : prefix[i] = r.events[1 + i - 1]
  <2> HIDE DEF n
  <2>1. 1 \in Int /\ n \in Int
    BY <1>1
  <2> QED
    BY <1>3, <2>1, SubSeqProperties
<1>5. Len(prefix) = n
  BY <1>1, <1>4
<1>6. \A i \in 1..n : prefix[i] = d.events[i]
  <2> SUFFICES ASSUME NEW i \in 1..n PROVE prefix[i] = d.events[i]
    OBVIOUS
  <2>1. i \in 1..(n - 1 + 1) /\ 1 + i - 1 = i
    BY <1>1
  <2> QED
    BY <1>2, <1>4, <2>1
<1>7. prefix = d.events
  <2> HIDE DEF prefix
  <2> QED
    BY <1>1, <1>4, <1>5, <1>6, SeqEqual
<1> QED
  BY <1>7 DEF Extends, Grows

(* An event at the end of the stream of a running Operation: it stays running  *)
(* with an ordinary event, and ends with an outcome.                           *)
LEMMA AppendedStream ==
    ASSUME NEW d, NEW r, NEW e \in Events, Sound(d), r \in Facts,
           d.status = "running", r.events = Append(d.events, e),
           IF e \in Outcomes THEN r.status = StatusOf(e) ELSE r.status = "running"
    PROVE  Kept(d, r)
<1> DEFINE n == Len(d.events)
<1>1. d.events \in Seq(Events) /\ n \in Nat /\ DOMAIN d.events = 1..n
  BY LenProperties DEF Sound, Facts
<1>2. /\ r.events \in Seq(Events) /\ Len(r.events) = n + 1
      /\ \A i \in 1..n : r.events[i] = d.events[i]
      /\ r.events[n + 1] = e
  BY <1>1, AppendProperties
<1>3. DOMAIN r.events = 1..(n + 1)
  BY <1>2, LenProperties
<1>4. terminalEvents(d) = {}
  BY DEF Sound, OneTerminalEvent
<1>5. \A i \in 1..n : r.events[i] \notin Outcomes
  BY <1>1, <1>2, <1>4 DEF terminalEvents
<1>6. \A i \in DOMAIN r.events : i \in 1..n \/ i = n + 1
  BY <1>1, <1>3
<1>7. n + 1 \in DOMAIN r.events
  BY <1>1, <1>3
<1>8. Grows(d, r)
  BY <1>1, <1>2 DEF Grows
<1>9. CASE e \in Outcomes
  <2>1. terminalEvents(r) = {n + 1}
    BY <1>2, <1>5, <1>6, <1>7, <1>9 DEF terminalEvents
  <2>2. r.status = StatusOf(e) /\ r.status # "running"
    BY <1>9 DEF StatusOf, Outcomes, Failures
  <2>3. OneTerminalEvent(r)
    BY <1>2, <2>1, <2>2 DEF OneTerminalEvent
  <2> QED
    BY <1>8, <2>3 DEF Kept, Sound
<1>10. CASE e \notin Outcomes
  <2>1. terminalEvents(r) = {}
    BY <1>2, <1>5, <1>6, <1>10 DEF terminalEvents
  <2> QED
    BY <1>8, <1>10, <2>1 DEF Kept, Sound, OneTerminalEvent
<1> QED
  BY <1>9, <1>10

-------------------------------------------------------------------------------
(* The transaction bodies.                                                     *)

(* Reconciliation only writes what sound facts imply: the terminal event of an *)
(* intent, or the answer of the terminal event.                                *)
LEMMA ReconciledKept ==
    ASSUME NEW d, Sound(d)
    PROVE  Kept(d, reconciled(d)) /\ reconciled(d).job = d.job
<1>1. CASE d.intent # "none" /\ d.status = "running"
  <2> DEFINE r == terminated(d, d.intent)
  <2>1. d.intent \in Outcomes /\ d.intent \in Events
    BY <1>1 DEF Sound, Facts, Events
  <2>2. StatusOf(d.intent) \in Terminal
    BY <2>1 DEF StatusOf, Outcomes, Terminal
  <2>3. Append(d.events, d.intent) \in Seq(Events)
    BY <2>1, AppendProperties DEF Sound, Facts
  <2>4. r \in Facts
    BY <2>2, <2>3 DEF terminated, Sound, Facts
  <2>5. /\ r.status = StatusOf(d.intent) /\ r.job = d.job
        /\ r.events = Append(d.events, d.intent)
    BY DEF terminated, Sound, Facts
  <2>6. Kept(d, r)
    BY <1>1, <2>1, <2>4, <2>5, AppendedStream
  <2> QED
    BY <1>1, <2>5, <2>6 DEF reconciled
<1>2. CASE ~(d.intent # "none" /\ d.status = "running") /\ d.status # "running" /\ d.assistant = "pending"
  <2> DEFINE e == CHOOSE e \in Outcomes : OnlyTerminal(d, e)
             r == [d EXCEPT !.assistant = e]
  <2>1. \E o \in Outcomes : OnlyTerminal(d, o)
    BY <1>2 DEF Sound, OneTerminalEvent, OnlyTerminal, terminalEvents
  <2>2. e \in Outcomes
    BY <2>1
  <2> HIDE DEF e
  <2>3. r \in Facts /\ r.status = d.status /\ r.events = d.events /\ r.job = d.job
    BY <2>2 DEF Sound, Facts
  <2> USE DEF e
  <2> QED
    BY <1>2, <2>3, SameStream DEF reconciled
<1>3. CASE ~(d.intent # "none" /\ d.status = "running") /\ ~(d.status # "running" /\ d.assistant = "pending")
  <2>1. reconciled(d) = d
    BY <1>3 DEF reconciled
  <2> QED
    BY <2>1, SameStream DEF Sound
<1> QED
  BY <1>1, <1>2, <1>3

(* appendGatewayOperationEvent, the only writer of events.                     *)
LEMMA AppendKept ==
    ASSUME NEW d, NEW e \in Events, NEW r \in appendGatewayOperationEvent(d, e), Sound(d)
    PROVE  Kept(d, r) /\ r.job = d.job
<1>0. d \in Facts /\ Append(d.events, e) \in Seq(Events)
  BY AppendProperties DEF Sound, Facts
<1>1. CASE d.status # "running"
  <2>1. r = d
    BY <1>1 DEF appendGatewayOperationEvent
  <2> QED
    BY <2>1, SameStream DEF Sound
<1>2. CASE d.status = "running" /\ e \in Outcomes
  <2>1. r = terminated(d, e)
    <3>1. e \notin {"message.citation", "approval.required", "approval.resolved"}
      BY <1>2 DEF Outcomes, Failures
    <3> QED
      BY <1>2, <3>1 DEF appendGatewayOperationEvent
  <2>2. StatusOf(e) \in Terminal
    BY <1>2 DEF StatusOf, Outcomes, Terminal
  <2>3. terminated(d, e) \in Facts
    BY <1>0, <2>2 DEF terminated, Facts
  <2>4. /\ r.status = StatusOf(e) /\ r.job = d.job /\ r.events = Append(d.events, e)
    BY <1>0, <2>1 DEF terminated, Facts
  <2> QED
    BY <1>2, <2>1, <2>3, <2>4, AppendedStream
<1>3. CASE d.status = "running" /\ e \notin Outcomes
  <2> DEFINE plain == [d EXCEPT !.events = Append(@, e)]
             waits == [d EXCEPT !.events = Append(@, e), !.approval = "pending",
                                !.cont.status = "waiting_approval"]
  <2>1. [d.cont EXCEPT !.status = "waiting_approval"] \in Continuations
    BY <1>0, PatchedContinuation DEF Facts, Active
  <2>2. plain \in Facts /\ waits \in Facts
    BY <1>0, <2>1 DEF Facts
  <2>3. /\ plain.status = d.status /\ plain.job = d.job /\ plain.events = Append(d.events, e)
        /\ waits.status = d.status /\ waits.job = d.job /\ waits.events = Append(d.events, e)
    BY <1>0 DEF Facts
  <2>4. Kept(d, plain) /\ Kept(d, waits)
    BY <1>3, <2>2, <2>3, AppendedStream
  <2>5. e \in {"message.citation", "approval.required", "approval.resolved"}
    BY <1>3 DEF Events
  <2>6. r \in {plain, waits}
    BY <1>3, <2>5 DEF appendGatewayOperationEvent
  <2> HIDE DEF plain, waits
  <2> QED
    BY <2>3, <2>4, <2>6
<1> QED
  BY <1>1, <1>2, <1>3

(* A withdrawn continuation and the terminal event that goes with it: the      *)
(* common end of a cancellation, a refusal and a settlement.                   *)
LEMMA WithdrawnKept ==
    ASSUME NEW d, NEW m, NEW e \in Outcomes, NEW r \in appendGatewayOperationEvent(m, e),
           Sound(d), m \in Facts, m.status = d.status, m.events = d.events, m.job = d.job
    PROVE  Kept(d, r) /\ r.job = d.job
<1>1. Kept(d, m)
  BY SameStream
<1>2. Kept(m, r) /\ r.job = m.job
  BY <1>1, AppendKept DEF Kept, Events
<1> QED
  BY <1>1, <1>2, KeptTransitive DEF Sound

LEMMA CancelKept ==
    ASSUME NEW d, NEW statuses, NEW r \in cancelContinuationWithinTransaction(d, statuses),
           Sound(d)
    PROVE  Kept(d, r) /\ r.job = d.job
<1> DEFINE m == [d EXCEPT !.cont = Unleased(d.cont, "cancelled", "none"),
                          !.approval = IF @ = "pending" THEN "revoked" ELSE @]
<1>1. Unleased(d.cont, "cancelled", "none") \in Continuations
  BY UnleasedContinuation DEF Sound, Facts, Terminal, ContinuationFailures
<1>2. m \in Facts
  BY <1>1 DEF Sound, Facts
<1>3. m.status = d.status /\ m.events = d.events /\ m.job = d.job
  BY DEF Sound, Facts
<1>4. r \in appendGatewayOperationEvent(m, "cancelled")
  BY DEF cancelContinuationWithinTransaction
<1>5. "cancelled" \in Outcomes
  BY DEF Outcomes
<1> HIDE DEF m
<1> QED
  BY <1>2, <1>3, <1>4, <1>5, WithdrawnKept

LEMMA RejectKept ==
    ASSUME NEW d, NEW r \in rejectContinuationAuthorization(d), Sound(d)
    PROVE  Kept(d, r) /\ r.job = d.job
<1> DEFINE m == [d EXCEPT !.cont = Unleased(d.cont, "failed", "reauthorization_failed")]
<1>1. Unleased(d.cont, "failed", "reauthorization_failed") \in Continuations
  BY UnleasedContinuation DEF Sound, Facts, Terminal, ContinuationFailures
<1>2. m \in Facts /\ m.status = d.status /\ m.events = d.events /\ m.job = d.job
  BY <1>1 DEF Sound, Facts
<1>3. r \in appendGatewayOperationEvent(m, "FORBIDDEN")
  BY DEF rejectContinuationAuthorization
<1>4. "FORBIDDEN" \in Outcomes
  BY DEF Outcomes, Failures
<1> QED
  BY <1>2, <1>3, <1>4, WithdrawnKept

LEMMA RequestKept ==
    ASSUME NEW d, NEW r \in requestCancellation(d), Sound(d)
    PROVE  Kept(d, r) /\ r.job = d.job
<1> DEFINE asked == [d EXCEPT !.cancel = TRUE]
<1>1. /\ asked \in Facts /\ asked.status = d.status /\ asked.events = d.events
      /\ asked.job = d.job
  BY DEF Sound, Facts
<1>2. Kept(d, asked)
  BY <1>1, SameStream
<1>3. \/ r = d \/ r = asked
      \/ r \in cancelContinuationWithinTransaction(asked, {"waiting_approval", "ready"})
  BY DEF requestCancellation
<1>4. CASE r = d
  BY <1>4, SameStream DEF Sound
<1>5. CASE r = asked
  BY <1>1, <1>2, <1>5
<1>6. CASE r \in cancelContinuationWithinTransaction(asked, {"waiting_approval", "ready"})
  <2> HIDE DEF asked
  <2>1. Kept(asked, r) /\ r.job = asked.job
    BY <1>2, <1>6, CancelKept DEF Kept
  <2> QED
    BY <1>1, <1>2, <2>1, KeptTransitive DEF Sound
<1> QED
  BY <1>3, <1>4, <1>5, <1>6

LEMMA SettleKept ==
    ASSUME NEW d, NEW owner, NEW gen, NEW outcome \in Outcomes,
           NEW r \in settleContinuation(d, owner, gen, outcome), Sound(d)
    PROVE  Kept(d, r) /\ r.job = d.job
<1> DEFINE failure == IF outcome = "completed" THEN "none" ELSE "adapter_failed"
           m == [d EXCEPT !.cont = Unleased(d.cont, StatusOf(outcome), failure)]
<1>1. \/ r \in cancelContinuationWithinTransaction(d, {"running"})
      \/ r \in appendGatewayOperationEvent(m, outcome)
  BY DEF settleContinuation
<1>2. StatusOf(outcome) \in Terminal /\ failure \in ContinuationFailures
  BY DEF StatusOf, Outcomes, Terminal, ContinuationFailures
<1>3. Unleased(d.cont, StatusOf(outcome), failure) \in Continuations
  <2> HIDE DEF failure
  <2> QED
    BY <1>2, UnleasedContinuation DEF Sound, Facts
<1>4. m \in Facts /\ m.status = d.status /\ m.events = d.events /\ m.job = d.job
  BY <1>3 DEF Sound, Facts
<1>5. CASE r \in cancelContinuationWithinTransaction(d, {"running"})
  BY <1>5, CancelKept
<1>6. CASE r \in appendGatewayOperationEvent(m, outcome)
  <2> HIDE DEF m
  <2> QED
    BY <1>4, <1>6, WithdrawnKept
<1> QED
  BY <1>1, <1>5, <1>6

(* The settlement of the answer touches neither stream nor status.             *)
LEMMA AnswerKept ==
    ASSUME NEW d, NEW outcome \in Outcomes, NEW r \in settlePlatformTurn(d, outcome), Sound(d)
    PROVE  Kept(d, r) /\ r.job = d.job
<1> DEFINE m == [d EXCEPT !.assistant = outcome,
                          !.intent = IF d.status = "running" THEN outcome ELSE @]
<1>1. r = m
  BY DEF settlePlatformTurn
<1>2. m \in Facts /\ m.status = d.status /\ m.events = d.events /\ m.job = d.job
  BY DEF Sound, Facts
<1> QED
  BY <1>1, <1>2, SameStream

(* The approval is resolved by an event, then written, then the continuation   *)
(* becomes ready, or is refused together with the Operation.                   *)
LEMMA ResolveKept ==
    ASSUME NEW d, NEW status \in {"approved", "denied"}, NEW r \in resolveApproval(d, status),
           Sound(d)
    PROVE  Kept(d, r)
<1> DEFINE Decided(q) == [q EXCEPT !.approval = status]
           Refused(p) == IF d.cont.status = "waiting_approval"
                         THEN [p EXCEPT !.cont = Unleased(p.cont, "failed", "approval_denied")]
                         ELSE p
<1>1. ASSUME NEW q \in appendGatewayOperationEvent(d, "approval.resolved")
      PROVE  Kept(d, Decided(q))
  <2>1. Kept(d, q)
    BY <1>1, AppendKept DEF Events
  <2>2. /\ Decided(q) \in Facts /\ Decided(q).status = q.status
        /\ Decided(q).events = q.events
    BY <2>1 DEF Kept, Sound, Facts
  <2>3. Kept(q, Decided(q))
    BY <2>1, <2>2, SameStream DEF Kept
  <2> QED
    BY <2>1, <2>3, KeptTransitive DEF Sound
<1>2. PICK q \in appendGatewayOperationEvent(d, "approval.resolved") :
         \/ r \in appendGatewayOperationEvent(Refused(Decided(q)), "APPROVAL_DENIED")
         \/ r = markReadyAndEnqueue(Decided(q))
  BY DEF resolveApproval
<1> DEFINE p == Decided(q)
<1>3. Kept(d, p) /\ p \in Facts
  BY <1>1 DEF Kept, Sound
<1> HIDE DEF p
<1>4. CASE r = markReadyAndEnqueue(p)
  <2>1. [p.cont EXCEPT !.status = "ready"] \in Continuations
    BY <1>3, PatchedContinuation DEF Facts, Active
  <2>2. r \in Facts /\ r.status = p.status /\ r.events = p.events
    BY <1>3, <1>4, <2>1 DEF markReadyAndEnqueue, Facts
  <2>3. Kept(p, r)
    BY <1>3, <2>2, SameStream DEF Kept
  <2> QED
    BY <1>3, <2>3, KeptTransitive DEF Sound
<1>5. CASE r \in appendGatewayOperationEvent(Refused(p), "APPROVAL_DENIED")
  <2>1. Unleased(p.cont, "failed", "approval_denied") \in Continuations
    BY <1>3, UnleasedContinuation DEF Facts, Terminal, ContinuationFailures
  <2>2. /\ Refused(p) \in Facts /\ Refused(p).status = p.status
        /\ Refused(p).events = p.events /\ Refused(p).job = p.job
    BY <1>3, <2>1 DEF Facts
  <2> HIDE DEF Refused
  <2>3. Kept(p, r)
    BY <1>3, <1>5, <2>2, WithdrawnKept DEF Kept, Outcomes, Failures
  <2> QED
    BY <1>3, <2>3, KeptTransitive DEF Sound
<1> QED
  BY <1>2, <1>4, <1>5 DEF p

-------------------------------------------------------------------------------
(* What each transaction body does to the fields that the invariants relate.   *)

(* A terminal event ends a running Operation, takes its intent, and nothing    *)
(* else.                                                                       *)
LEMMA OutcomeEffect ==
    ASSUME NEW d \in Facts, NEW e \in Outcomes, NEW r \in appendGatewayOperationEvent(d, e)
    PROVE  /\ r \in Facts
           /\ r.cont = d.cont /\ r.approval = d.approval /\ r.job = d.job
           /\ r.assistant = d.assistant /\ r.cancel = d.cancel /\ r.access = d.access
           /\ r.status # "running"
           /\ d.status # "running" => r = d
           /\ d.status = "running" => /\ r.status = StatusOf(e) /\ r.intent = "none"
                                      /\ r.events = Append(d.events, e)
<1>1. e \notin {"message.citation", "approval.required", "approval.resolved"}
  BY DEF Outcomes, Failures
<1>2. \/ r = terminated(d, e) /\ d.status = "running"
      \/ r = d /\ d.status # "running"
  BY <1>1 DEF appendGatewayOperationEvent
<1>3. StatusOf(e) \in Terminal /\ StatusOf(e) # "running"
  BY DEF StatusOf, Outcomes, Failures, Terminal
<1>4. Append(d.events, e) \in Seq(Events)
  BY AppendProperties DEF Facts, Events
<1>5. /\ terminated(d, e).cont = d.cont /\ terminated(d, e).approval = d.approval
      /\ terminated(d, e).job = d.job /\ terminated(d, e).assistant = d.assistant
      /\ terminated(d, e).cancel = d.cancel /\ terminated(d, e).access = d.access
      /\ terminated(d, e).status = StatusOf(e) /\ terminated(d, e).intent = "none"
      /\ terminated(d, e).events = Append(d.events, e)
  BY DEF terminated, Facts
<1>6. terminated(d, e) \in Facts
  BY <1>3, <1>4 DEF terminated, Facts
<1> QED
  BY <1>2, <1>3, <1>5, <1>6

\* Owner, generation, expiry and failure code, whatever the status.
SameLease(c, k) ==
    k.owner = c.owner /\ k.gen = c.gen /\ k.expires = c.expires /\ k.failure = c.failure

(* Any other event needs a running Operation, and leaves it running.           *)
LEMMA EventEffect ==
    ASSUME NEW d \in Facts, NEW e \in Events \ Outcomes,
           NEW r \in appendGatewayOperationEvent(d, e)
    PROVE  /\ r \in Facts /\ d.status = "running" /\ r.status = "running"
           /\ r.intent = d.intent /\ r.assistant = d.assistant /\ r.cancel = d.cancel
           /\ r.access = d.access /\ r.job = d.job /\ r.expired = d.expired
           /\ r.events = Append(d.events, e)
           /\ e # "approval.required" => r.cont = d.cont /\ r.approval = d.approval
           /\ e = "approval.required" =>
                 /\ ~d.cancel /\ d.cont.status \notin Active
                 /\ r.cont.status = "waiting_approval" /\ SameLease(d.cont, r.cont)
                 /\ r.approval = "pending"
<1> DEFINE plain == [d EXCEPT !.events = Append(@, e)]
           waits == [d EXCEPT !.events = Append(@, e), !.approval = "pending",
                              !.cont.status = "waiting_approval"]
<1>1. e \in {"message.citation", "approval.required", "approval.resolved"}
  BY DEF Events
<1>2. /\ d.status = "running"
      /\ \/ r = plain /\ e # "approval.required"
         \/ r = waits /\ e = "approval.required" /\ ~d.cancel /\ d.cont.status \notin Active
  BY <1>1 DEF appendGatewayOperationEvent
<1>3. Append(d.events, e) \in Seq(Events)
  BY AppendProperties DEF Facts
<1>4. [d.cont EXCEPT !.status = "waiting_approval"] \in Continuations
  BY PatchedContinuation DEF Facts, Active
<1>5. plain \in Facts /\ waits \in Facts
  BY <1>3, <1>4 DEF Facts
<1>6. /\ plain.cont = d.cont /\ plain.approval = d.approval /\ plain.job = d.job
      /\ plain.status = d.status /\ plain.intent = d.intent /\ plain.cancel = d.cancel
      /\ plain.assistant = d.assistant /\ plain.access = d.access
      /\ plain.expired = d.expired /\ plain.events = Append(d.events, e)
  BY DEF Facts
<1>7. /\ waits.approval = "pending" /\ waits.job = d.job
      /\ waits.status = d.status /\ waits.intent = d.intent /\ waits.cancel = d.cancel
      /\ waits.assistant = d.assistant /\ waits.access = d.access
      /\ waits.expired = d.expired /\ waits.events = Append(d.events, e)
      /\ waits.cont = [d.cont EXCEPT !.status = "waiting_approval"]
  BY DEF Facts
<1>8. waits.cont.status = "waiting_approval" /\ SameLease(d.cont, waits.cont)
  BY <1>7 DEF Facts, Continuations, SameLease
<1> HIDE DEF plain, waits
<1> QED
  BY <1>2, <1>5, <1>6, <1>7, <1>8

(* A withdrawal ends continuation, approval and Operation together.            *)
LEMMA CancelEffect ==
    ASSUME NEW d \in Facts, NEW statuses,
           NEW r \in cancelContinuationWithinTransaction(d, statuses)
    PROVE  /\ r \in Facts /\ r.assistant = d.assistant /\ r.cancel = d.cancel
           /\ r.access = d.access
           /\ d.cont.status \in statuses
           /\ r.cont.status = "cancelled"
           /\ r.approval = IF d.approval = "pending" THEN "revoked" ELSE d.approval
           /\ r.status # "running"
           /\ d.status # "running" => /\ r.status = d.status /\ r.intent = d.intent
                                      /\ r.events = d.events
           /\ d.status = "running" => /\ r.status = "cancelled" /\ r.intent = "none"
                                      /\ r.events = Append(d.events, "cancelled")
<1> DEFINE m == [d EXCEPT !.cont = Unleased(d.cont, "cancelled", "none"),
                          !.approval = IF @ = "pending" THEN "revoked" ELSE @]
<1>1. Unleased(d.cont, "cancelled", "none") \in Continuations
  BY UnleasedContinuation DEF Facts, Terminal, ContinuationFailures
<1>2. Unleased(d.cont, "cancelled", "none").status = "cancelled"
  BY DEF Unleased, Facts, Continuations
<1>3. /\ m \in Facts /\ m.assistant = d.assistant /\ m.cancel = d.cancel
      /\ m.access = d.access /\ m.status = d.status /\ m.intent = d.intent
      /\ m.events = d.events
      /\ m.cont = Unleased(d.cont, "cancelled", "none")
      /\ m.approval = IF d.approval = "pending" THEN "revoked" ELSE d.approval
  BY <1>1 DEF Facts
<1>4. r \in appendGatewayOperationEvent(m, "cancelled") /\ d.cont.status \in statuses
  BY DEF cancelContinuationWithinTransaction
<1>5. "cancelled" \in Outcomes /\ StatusOf("cancelled") = "cancelled"
  BY DEF Outcomes, StatusOf, Failures
<1> HIDE DEF m
<1> QED
  BY <1>2, <1>3, <1>4, <1>5, OutcomeEffect

LEMMA RequestEffect ==
    ASSUME NEW d \in Facts, NEW r \in requestCancellation(d)
    PROVE  /\ r \in Facts /\ r.assistant = d.assistant /\ r.access = d.access
           /\ d.status # "running" => r = d
           /\ d.status = "running" => r.cancel
           /\ \/ /\ r.cont = d.cont /\ r.status = d.status /\ r.intent = d.intent
                 /\ r.approval = d.approval /\ r.events = d.events
                 /\ d.status = "running" => d.cont.status \notin {"waiting_approval", "ready"}
              \/ /\ d.status = "running" /\ d.cont.status \in {"waiting_approval", "ready"}
                 /\ r.status = "cancelled" /\ r.intent = "none"
                 /\ r.cont.status = "cancelled"
                 /\ r.approval = IF d.approval = "pending" THEN "revoked" ELSE d.approval
                 /\ r.events = Append(d.events, "cancelled")
<1> DEFINE asked == [d EXCEPT !.cancel = TRUE]
<1>1. /\ asked \in Facts /\ asked.cont = d.cont /\ asked.status = d.status
      /\ asked.intent = d.intent /\ asked.approval = d.approval /\ asked.access = d.access
      /\ asked.assistant = d.assistant /\ asked.cancel = TRUE
      /\ asked.events = d.events
  BY DEF Facts
<1>2. \/ d.status # "running" /\ r = d
      \/ /\ d.status = "running" /\ r = asked
         /\ d.cont.status \notin {"waiting_approval", "ready"}
      \/ /\ d.status = "running"
         /\ r \in cancelContinuationWithinTransaction(asked, {"waiting_approval", "ready"})
  BY DEF requestCancellation
<1> HIDE DEF asked
<1>3. CASE r \in cancelContinuationWithinTransaction(asked, {"waiting_approval", "ready"})
           /\ d.status = "running"
  BY <1>1, <1>3, CancelEffect
<1> QED
  BY <1>1, <1>2, <1>3

(* A lost authorization and a settlement end the Operation that they find      *)
(* running, and touch neither the answer nor who may see it.                   *)
LEMMA RejectEffect ==
    ASSUME NEW d \in Facts, NEW r \in rejectContinuationAuthorization(d)
    PROVE  /\ r \in Facts /\ r.assistant = d.assistant /\ r.cancel = d.cancel
           /\ r.access = d.access /\ r.approval = d.approval
           /\ d.status = "running" /\ r.status = "failed" /\ r.intent = "none"
           /\ r.events = Append(d.events, "FORBIDDEN")
<1> DEFINE m == [d EXCEPT !.cont = Unleased(d.cont, "failed", "reauthorization_failed")]
<1>1. Unleased(d.cont, "failed", "reauthorization_failed") \in Continuations
  BY UnleasedContinuation DEF Facts, Terminal, ContinuationFailures
<1>2. /\ m \in Facts /\ m.assistant = d.assistant /\ m.cancel = d.cancel
      /\ m.access = d.access /\ m.approval = d.approval /\ m.events = d.events
      /\ m.status = d.status
  BY <1>1 DEF Facts
<1>3. r \in appendGatewayOperationEvent(m, "FORBIDDEN") /\ d.status = "running"
  BY DEF rejectContinuationAuthorization
<1>4. "FORBIDDEN" \in Outcomes /\ StatusOf("FORBIDDEN") = "failed"
  BY DEF Outcomes, Failures, StatusOf
<1> HIDE DEF m
<1> QED
  BY <1>2, <1>3, <1>4, OutcomeEffect

LEMMA SettleEffect ==
    ASSUME NEW d \in Facts, NEW owner, NEW gen, NEW outcome \in Outcomes,
           NEW r \in settleContinuation(d, owner, gen, outcome)
    PROVE  /\ r \in Facts /\ r.assistant = d.assistant /\ r.cancel = d.cancel
           /\ r.access = d.access /\ r.status # "running"
           /\ d.approval # "pending" => r.approval = d.approval
           /\ d.status # "running" =>
                 /\ r.status = d.status /\ r.intent = d.intent /\ r.events = d.events
                 /\ r.approval = d.approval
           /\ d.status = "running" =>
                 /\ r.intent = "none"
                 /\ \E e \in {outcome, "cancelled"} :
                       /\ r.status = StatusOf(e) /\ r.events = Append(d.events, e)
                       /\ e = "completed" => d.assistant = "completed"
<1> DEFINE failure == IF outcome = "completed" THEN "none" ELSE "adapter_failed"
           m == [d EXCEPT !.cont = Unleased(d.cont, StatusOf(outcome), failure)]
<1>1. \/ /\ r \in cancelContinuationWithinTransaction(d, {"running"})
         /\ d.status = "running"
      \/ /\ r \in appendGatewayOperationEvent(m, outcome)
         /\ outcome = "completed" => d.assistant = "completed"
  BY DEF settleContinuation
<1>2. /\ StatusOf(outcome) \in Terminal /\ failure \in ContinuationFailures
      /\ StatusOf("cancelled") = "cancelled"
  BY DEF StatusOf, Outcomes, Failures, Terminal, ContinuationFailures
<1> HIDE DEF failure
<1>3. Unleased(d.cont, StatusOf(outcome), failure) \in Continuations
  BY <1>2, UnleasedContinuation DEF Facts
<1>4. /\ m \in Facts /\ m.assistant = d.assistant /\ m.cancel = d.cancel
      /\ m.access = d.access /\ m.approval = d.approval /\ m.events = d.events
      /\ m.status = d.status /\ m.intent = d.intent
  BY <1>3 DEF Facts
<1> HIDE DEF m
<1>5. CASE r \in cancelContinuationWithinTransaction(d, {"running"}) /\ d.status = "running"
  BY <1>2, <1>5, CancelEffect
<1>6. CASE /\ r \in appendGatewayOperationEvent(m, outcome)
           /\ outcome = "completed" => d.assistant = "completed"
  BY <1>4, <1>6, OutcomeEffect
<1> QED
  BY <1>1, <1>5, <1>6

(* A decision needs a running Operation and a pending approval: it makes the   *)
(* continuation ready, or fails it together with the Operation.                *)
LEMMA ResolveEffect ==
    ASSUME NEW d \in Facts, NEW status \in {"approved", "denied"},
           NEW r \in resolveApproval(d, status)
    PROVE  /\ r \in Facts /\ d.status = "running" /\ d.approval = "pending"
           /\ r.assistant = d.assistant /\ r.cancel = d.cancel /\ r.access = d.access
           /\ r.approval = status
           /\ \/ /\ d.cont.status = "waiting_approval" /\ r.cont.status = "ready"
                 /\ r.status = "running" /\ r.intent = d.intent
                 /\ SameLease(d.cont, r.cont) /\ r.job
                 /\ ~r.expired /\ status = "approved"
                 /\ r.events = Append(d.events, "approval.resolved")
              \/ /\ r.status = "failed" /\ r.intent = "none" /\ status = "denied"
                 /\ r.events = Append(Append(d.events, "approval.resolved"), "APPROVAL_DENIED")
                 /\ r.cont.status = IF d.cont.status = "waiting_approval" THEN "failed"
                                    ELSE d.cont.status
<1> DEFINE Resolved(q) == [q EXCEPT !.approval = status]
           Refused(p) == IF d.cont.status = "waiting_approval"
                         THEN [p EXCEPT !.cont = Unleased(p.cont, "failed", "approval_denied")]
                         ELSE p
<1>0. "approval.resolved" \in Events \ Outcomes
  BY DEF Events, Outcomes, Failures
<1>1. PICK q \in appendGatewayOperationEvent(d, "approval.resolved") :
         /\ d.approval = "pending" /\ ~d.expired
         /\ \/ /\ r \in appendGatewayOperationEvent(Refused(Resolved(q)), "APPROVAL_DENIED")
               /\ status = "denied"
            \/ /\ r = markReadyAndEnqueue(Resolved(q)) /\ d.cont.status = "waiting_approval"
               /\ status = "approved"
  BY DEF resolveApproval
<1>2. /\ q \in Facts /\ d.status = "running" /\ q.status = "running"
      /\ q.intent = d.intent /\ q.assistant = d.assistant /\ q.cancel = d.cancel
      /\ q.access = d.access /\ q.cont = d.cont /\ q.expired = d.expired
      /\ q.events = Append(d.events, "approval.resolved")
  BY <1>0, EventEffect
<1> DEFINE p == Resolved(q)
<1>3. /\ p \in Facts /\ p.status = "running" /\ p.intent = d.intent
      /\ p.assistant = d.assistant /\ p.cancel = d.cancel /\ p.access = d.access
      /\ p.cont = d.cont /\ p.approval = status /\ p.expired = d.expired
      /\ p.events = Append(d.events, "approval.resolved")
  BY <1>2 DEF Facts
<1> HIDE DEF p
<1>4. CASE /\ r = markReadyAndEnqueue(p) /\ d.cont.status = "waiting_approval"
           /\ status = "approved"
  <2>1. [p.cont EXCEPT !.status = "ready"] \in Continuations
    BY <1>3, PatchedContinuation DEF Facts, Active
  <2>2. /\ r \in Facts /\ r.status = p.status /\ r.intent = p.intent
        /\ r.assistant = p.assistant /\ r.cancel = p.cancel /\ r.access = p.access
        /\ r.approval = p.approval /\ r.cont = [p.cont EXCEPT !.status = "ready"]
        /\ r.job = TRUE /\ r.expired = p.expired /\ r.events = p.events
    BY <1>3, <1>4, <2>1 DEF markReadyAndEnqueue, Facts
  <2>3. r.cont.status = "ready" /\ SameLease(d.cont, r.cont)
    BY <1>3, <2>2 DEF Facts, Continuations, SameLease
  <2> QED
    BY <1>1, <1>2, <1>3, <1>4, <2>2, <2>3
<1>5. CASE /\ r \in appendGatewayOperationEvent(Refused(p), "APPROVAL_DENIED")
           /\ status = "denied"
  <2>1. Unleased(p.cont, "failed", "approval_denied") \in Continuations
    BY <1>3, UnleasedContinuation DEF Facts, Terminal, ContinuationFailures
  <2>2. Unleased(p.cont, "failed", "approval_denied").status = "failed"
    BY <1>3 DEF Unleased, Facts, Continuations
  <2>3. /\ Refused(p) \in Facts /\ Refused(p).status = "running"
        /\ Refused(p).assistant = d.assistant /\ Refused(p).cancel = d.cancel
        /\ Refused(p).access = d.access /\ Refused(p).approval = status
        /\ Refused(p).events = Append(d.events, "approval.resolved")
    BY <1>3, <2>1 DEF Facts
  <2>4. Refused(p).cont.status = IF d.cont.status = "waiting_approval" THEN "failed"
                                 ELSE d.cont.status
    BY <1>3, <2>1, <2>2 DEF Facts
  <2>5. "APPROVAL_DENIED" \in Outcomes /\ StatusOf("APPROVAL_DENIED") = "failed"
    BY DEF Outcomes, StatusOf, Failures
  <2> HIDE DEF Refused
  <2>6. /\ r \in Facts /\ r.cont = Refused(p).cont /\ r.approval = status
        /\ r.assistant = d.assistant /\ r.cancel = d.cancel /\ r.access = d.access
        /\ r.status = "failed" /\ r.intent = "none"
        /\ r.events = Append(Append(d.events, "approval.resolved"), "APPROVAL_DENIED")
    <3> DEFINE m == Refused(p)
               e == "APPROVAL_DENIED"
    <3>1. r \in appendGatewayOperationEvent(m, e)
      BY <1>5
    <3> HIDE DEF m
    <3>2. /\ r \in Facts /\ r.cont = m.cont /\ r.approval = m.approval
          /\ r.assistant = m.assistant /\ r.cancel = m.cancel /\ r.access = m.access
          /\ m.status = "running" =>
                r.status = StatusOf(e) /\ r.intent = "none" /\ r.events = Append(m.events, e)
      BY <2>3, <2>5, <3>1, OutcomeEffect DEF m
    <3> QED
      BY <2>3, <2>5, <3>2 DEF m
  <2> QED
    BY <1>1, <1>2, <1>5, <2>4, <2>6
<1> QED
  BY <1>1, <1>4, <1>5 DEF p

(* A reconciliation ends a running Operation by its intent, or answers an      *)
(* ended one by its terminal event.                                            *)
LEMMA ReconcileEffect ==
    ASSUME NEW d, Sound(d)
    PROVE  /\ reconciled(d) \in Facts
           /\ reconciled(d).cont = d.cont /\ reconciled(d).approval = d.approval
           /\ reconciled(d).cancel = d.cancel /\ reconciled(d).access = d.access
           /\ d.status = "running" /\ d.intent = "none" => reconciled(d) = d
           /\ d.status = "running" /\ d.intent # "none"
                => /\ reconciled(d).status = StatusOf(d.intent)
                   /\ reconciled(d).events = Append(d.events, d.intent)
                   /\ reconciled(d).status # "running"
                   /\ reconciled(d).intent = "none"
                   /\ reconciled(d).assistant = d.assistant
           /\ d.status # "running"
                => /\ reconciled(d).status = d.status /\ reconciled(d).intent = d.intent
                   /\ reconciled(d).events = d.events
                   /\ d.assistant # "pending" => reconciled(d).assistant = d.assistant
                   /\ d.assistant = "pending"
                        => /\ reconciled(d).assistant # "pending"
                           /\ StatusOf(reconciled(d).assistant) = d.status
<1>0. d \in Facts /\ reconciled(d) \in Facts
  BY ReconciledKept DEF Kept, Sound
<1>1. CASE d.intent # "none" /\ d.status = "running"
  <2>1. d.intent \in Outcomes
    BY <1>0, <1>1 DEF Facts
  <2>2. StatusOf(d.intent) # "running"
    BY <2>1 DEF StatusOf, Outcomes, Failures
  <2>3. reconciled(d) = terminated(d, d.intent)
    BY <1>1 DEF reconciled
  <2>4. /\ reconciled(d).cont = d.cont /\ reconciled(d).approval = d.approval
        /\ reconciled(d).cancel = d.cancel /\ reconciled(d).access = d.access
        /\ reconciled(d).assistant = d.assistant
        /\ reconciled(d).status = StatusOf(d.intent) /\ reconciled(d).intent = "none"
        /\ reconciled(d).events = Append(d.events, d.intent)
    BY <1>0, <2>3 DEF terminated, Facts
  <2> QED
    BY <1>0, <1>1, <2>2, <2>4
<1>2. CASE d.status # "running" /\ d.assistant = "pending"
  <2> DEFINE e == CHOOSE e \in Outcomes : OnlyTerminal(d, e)
  <2>1. \E o \in Outcomes : OnlyTerminal(d, o)
    BY <1>2 DEF Sound, OneTerminalEvent, OnlyTerminal, terminalEvents
  <2>2. e \in Outcomes /\ OnlyTerminal(d, e)
    BY <2>1
  <2>3. reconciled(d) = [d EXCEPT !.assistant = e]
    BY <1>2 DEF reconciled
  <2> HIDE DEF e
  <2>4. StatusOf(e) = d.status /\ e # "pending"
    BY <1>2, <2>2 DEF Sound, OneTerminalEvent, OnlyTerminal, Outcomes, Failures
  <2>5. /\ reconciled(d).cont = d.cont /\ reconciled(d).approval = d.approval
        /\ reconciled(d).cancel = d.cancel /\ reconciled(d).access = d.access
        /\ reconciled(d).status = d.status /\ reconciled(d).intent = d.intent
        /\ reconciled(d).assistant = e /\ reconciled(d).events = d.events
    BY <1>0, <2>3 DEF Facts
  <2> QED
    BY <1>0, <1>2, <2>4, <2>5
<1>3. CASE /\ ~(d.intent # "none" /\ d.status = "running")
           /\ ~(d.status # "running" /\ d.assistant = "pending")
  <2>1. reconciled(d) = d
    BY <1>3 DEF reconciled
  <2> QED
    BY <1>0, <1>3, <2>1
<1> QED
  BY <1>1, <1>2, <1>3

-------------------------------------------------------------------------------
(* Transactions.                                                               *)

\* Only the approval enqueues a job.
KeepsJob(t, d, r) == t.op # "resolveApproval" => r.job = d.job

LEMMA BodyKept ==
    ASSUME NEW d, NEW t \in Transactions, NEW r \in body(d, t), Sound(d)
    PROVE  Kept(d, r) /\ KeepsJob(t, d, r)
<1>1. CASE t.op = "append"
  <2>1. t.event \in Events /\ r \in appendGatewayOperationEvent(d, t.event)
    BY <1>1 DEF Transactions, body
  <2> QED
    BY <2>1, AppendKept DEF KeepsJob
<1>2. CASE t.op = "read"
  <2>1. r = d
    BY <1>2 DEF body
  <2> QED
    BY <2>1, SameStream DEF Sound, KeepsJob
<1>3. CASE t.op = "requestCancellation"
  <2>1. r \in requestCancellation(d)
    BY <1>3 DEF body
  <2> QED
    BY <2>1, RequestKept DEF KeepsJob
<1>4. CASE t.op = "resolveApproval"
  <2>1. t.status \in {"approved", "denied"} /\ r \in resolveApproval(d, t.status)
    BY <1>4 DEF Transactions, body
  <2> QED
    BY <1>4, <2>1, ResolveKept DEF KeepsJob
<1>5. CASE t.op = "cancelContinuation"
  <2>1. r \in cancelContinuationWithinTransaction(d, Active)
    BY <1>5 DEF body, cancelContinuation
  <2> QED
    BY <2>1, CancelKept DEF KeepsJob
<1>6. CASE t.op = "rejectContinuationAuthorization"
  <2>1. r \in rejectContinuationAuthorization(d)
    BY <1>6 DEF body
  <2> QED
    BY <2>1, RejectKept DEF KeepsJob
<1>7. CASE t.op = "settleContinuation"
  <2>1. /\ t.outcome \in Outcomes
        /\ r \in settleContinuation(d, t.owner, t.gen, t.outcome)
    BY <1>7 DEF Transactions, body
  <2> QED
    BY <2>1, SettleKept DEF KeepsJob
<1> QED
  BY <1>1, <1>2, <1>3, <1>4, <1>5, <1>6, <1>7 DEF Transactions

(* The facts that a transaction writes over: those it finds, past its          *)
(* reconciliation or without one, or those it has just reconciled.             *)
LEMMA CommitFrom ==
    ASSUME NEW t, Commits(t)
    PROVE  /\ tx' = Idle
           /\ \/ (tx = t \/ ~Reconciles(t)) /\ db' \in body(db, t)
              \/ tx # t /\ Reconciles(t) /\ ~conflicts(db) /\ db' \in body(reconciled(db), t)
  BY DEF Commits, Finishing, Pending, Results

(* Whatever a transaction commits, in one step or past its reconciliation.     *)
LEMMA CommitKept ==
    ASSUME NEW t \in Transactions, Sound(db), Commits(t)
    PROVE  Kept(db, db') /\ KeepsJob(t, db, db')
<1>1. db' \in body(db, t) \/ db' \in body(reconciled(db), t)
  BY DEF Commits, Pending, Results
<1>2. CASE db' \in body(db, t)
  BY <1>2, BodyKept
<1>3. CASE db' \in body(reconciled(db), t)
  <2>1. Kept(db, reconciled(db)) /\ reconciled(db).job = db.job
    BY ReconciledKept
  <2>2. Kept(reconciled(db), db') /\ KeepsJob(t, reconciled(db), db')
    BY <1>3, <2>1, BodyKept DEF Kept
  <2> QED
    BY <2>1, <2>2, KeptTransitive DEF Sound, KeepsJob
<1> QED
  BY <1>1, <1>2, <1>3

-------------------------------------------------------------------------------
(* The lifecycle that a client sees.                                           *)

\* The facts that a client sees are the same.
Silent(d, r) ==
    /\ r.status = d.status /\ r.approval = d.approval /\ r.events = d.events
    /\ r.assistant = "completed" <=> d.assistant = "completed"

\* The answer that a running Operation has is its intent.
Answering(d) ==
    d.status = "running" => d.assistant = IF d.intent = "none" THEN "pending" ELSE d.intent

LEMMA SilentStep ==
    ASSUME Silent(db, db')
    PROVE  UNCHANGED Lifecycle!vars
<1>1. (db'.assistant = "completed") = (db.assistant = "completed")
  BY DEF Silent
<1> QED
  BY <1>1 DEF Silent, Lifecycle!vars

LEMMA EndStep ==
    ASSUME NEW e \in Outcomes, db.status = "running",
           e = "completed" => db.assistant = "completed",
           db.approval = "pending" => e \in {"cancelled", "RUNTIME_FAILED"},
           db'.status = StatusOf(e),
           db'.assistant = "completed" <=> db.assistant = "completed",
           db'.approval = IF db.approval = "pending" /\ e = "cancelled" THEN "revoked"
                          ELSE db.approval,
           db'.events = Append(db.events, e)
    PROVE  Lifecycle!Next
<1>1. StatusOf(e) = IF e \in {"completed", "cancelled"} THEN e ELSE "failed"
  BY DEF StatusOf, Outcomes, Failures
<1>2. Lifecycle!End(e)
  <2>1. (db'.assistant = "completed") = (db.assistant = "completed")
    OBVIOUS
  <2> QED
    BY <1>1, <2>1 DEF Lifecycle!End, Lifecycle!Running, Lifecycle!Tells
<1> QED
  BY <1>2 DEF Lifecycle!Next

(* The streams that an approval goes through, event by event.                  *)
LEMMA SecondAppended ==
    ASSUME NEW S, NEW s \in Seq(S), NEW f \in S, NEW t \in Seq(S),
           Len(s) = 1, Len(t) = 2, t[1] = s[1], t[2] = f
    PROVE  Append(s, f) = t
<1>0. Len(s) + 1 = 2
  OBVIOUS
<1>1. Append(s, f) \in Seq(S) /\ Len(Append(s, f)) = 2
  <2>1. Append(s, f) \in Seq(S) /\ Len(Append(s, f)) = Len(s) + 1
    BY AppendProperties
  <2> QED
    BY <1>0, <2>1
<1>2. Append(s, f)[1] = s[1]
  <2>1. \A i \in 1..Len(s) : Append(s, f)[i] = s[i]
    BY AppendProperties
  <2> QED
    BY <2>1
<1>3. Append(s, f)[2] = f
  <2>1. Append(s, f)[Len(s) + 1] = f
    BY AppendProperties
  <2> QED
    BY <1>0, <2>1
<1>4. \A i \in 1..2 : Append(s, f)[i] = t[i]
  <2>1. \A i \in 1..2 : i = 1 \/ i = 2
    OBVIOUS
  <2> QED
    BY <1>2, <1>3, <2>1
<1> QED
  BY <1>1, <1>4, SeqEqual

LEMMA ShortStreams ==
    ASSUME NEW e, NEW f
    PROVE  Append(<<>>, e) = <<e>> /\ Append(<<e>>, f) = <<e, f>>
<1> DEFINE S == {e, f}
           s == <<e>>
           t == <<e, f>>
<1>1. s \in Seq(S) /\ f \in S /\ Len(s) = 1 /\ s[1] = e
  OBVIOUS
<1>2. t \in Seq(S) /\ Len(t) = 2 /\ t[1] = e /\ t[2] = f
  OBVIOUS
<1>3. Append(s, f) = t
  <2> HIDE DEF S, s, t
  <2> QED
    BY <1>1, <1>2, SecondAppended
<1>4. Append(<<>>, e) = <<e>>
  OBVIOUS
<1> QED
  BY <1>3, <1>4

(* The abstract steps keep the stream coherent with status and approval.       *)
LEMMA CoherentStep ==
    ASSUME Lifecycle!Coherent, [Lifecycle!Next]_(Lifecycle!vars)
    PROVE  Lifecycle!Coherent'
<1>1. CASE UNCHANGED Lifecycle!vars
  BY <1>1 DEF Lifecycle!Coherent, Lifecycle!vars, Lifecycle!Running
<1>2. CASE Lifecycle!Ask
  <2>1. /\ db'.status = "running" /\ db'.approval = "pending"
        /\ db'.assistant # "completed"
        /\ db.events = <<>> /\ db'.events = Append(db.events, "approval.required")
    BY <1>2
       DEF Lifecycle!Coherent, Lifecycle!Ask, Lifecycle!Running, Lifecycle!Tells
  <2>2. db'.events = <<"approval.required">>
    BY <2>1, ShortStreams
  <2> QED
    BY <2>1, <2>2 DEF Lifecycle!Coherent, Lifecycle!Running
<1>3. CASE Lifecycle!Approve
  <2>1. /\ db'.status = "running" /\ db'.approval = "approved"
        /\ db.events = <<"approval.required">>
        /\ db'.events = Append(db.events, "approval.resolved")
    BY <1>3
       DEF Lifecycle!Coherent, Lifecycle!Approve, Lifecycle!Running, Lifecycle!Tells
  <2>2. db'.events = <<"approval.required", "approval.resolved">>
    BY <2>1, ShortStreams
  <2> QED
    BY <2>1, <2>2 DEF Lifecycle!Coherent, Lifecycle!Running
<1>4. CASE Lifecycle!Deny \/ Lifecycle!Answer \/ Lifecycle!Cite
  BY <1>4
     DEF Lifecycle!Coherent, Lifecycle!Deny, Lifecycle!Answer, Lifecycle!Cite,
         Lifecycle!Running, Lifecycle!Tells
<1>5. ASSUME NEW e \in Outcomes, Lifecycle!End(e) PROVE Lifecycle!Coherent'
  BY <1>5
     DEF Lifecycle!Coherent, Lifecycle!End, Lifecycle!Running, Lifecycle!Tells
<1> QED
  BY <1>1, <1>2, <1>3, <1>4, <1>5 DEF Lifecycle!Next

\* What the writer of an event has to respect for the lifecycle.
Appendable(d, e) ==
    /\ e # "approval.resolved"
    /\ e = "approval.required" => d.approval = "none" /\ d.assistant # "completed"
    /\ e \in {"completed", "message.citation"} => d.assistant = "completed"
    /\ d.approval = "pending" /\ e \in Outcomes => e = "RUNTIME_FAILED"

\* The same of any transaction.
Proper(d, t) ==
    /\ t.op = "append" => Appendable(d, t.event)
    /\ t.op \in {"rejectContinuationAuthorization", "settleContinuation"}
          => d.approval # "pending"

\* A running Operation keeps its intent, its answer and, unless its approval
\* moves on, its continuation.
Stays(d, r) ==
    /\ r.intent = d.intent /\ r.assistant = d.assistant
    /\ r.approval = d.approval => r.cont = d.cont

(* A transaction on an ended Operation shows a client nothing new.             *)
LEMMA EndedSilent ==
    ASSUME NEW t \in Transactions, NEW d \in Facts, d.status # "running",
           NEW r \in body(d, t)
    PROVE  Silent(d, r) /\ r.status # "running"
<1>1. CASE t.op = "append"
  <2>1. t.event \in Events /\ r \in appendGatewayOperationEvent(d, t.event)
    BY <1>1 DEF Transactions, body
  <2>2. r = d
    BY <2>1, OutcomeEffect, EventEffect
  <2> QED
    BY <2>2 DEF Silent
<1>2. CASE t.op = "read"
  BY <1>2 DEF body, Silent
<1>3. CASE t.op = "requestCancellation"
  <2>1. r \in requestCancellation(d)
    BY <1>3 DEF body
  <2> QED
    BY <2>1, RequestEffect DEF Silent
<1>4. CASE t.op = "resolveApproval"
  <2>1. t.status \in {"approved", "denied"} /\ r \in resolveApproval(d, t.status)
    BY <1>4 DEF Transactions, body
  <2> QED
    BY <2>1, ResolveEffect
<1>5. CASE t.op = "cancelContinuation" \/ t.op = "rejectContinuationAuthorization"
  BY <1>5 DEF body, cancelContinuation, rejectContinuationAuthorization
<1>6. CASE t.op = "settleContinuation"
  <2>1. /\ t.outcome \in Outcomes
        /\ r \in settleContinuation(d, t.owner, t.gen, t.outcome)
    BY <1>6 DEF Transactions, body
  <2>2. /\ r.status = d.status /\ r.events = d.events /\ r.assistant = d.assistant
        /\ r.approval = d.approval
    BY <2>1, SettleEffect
  <2> QED
    BY <2>2 DEF Silent
<1> QED
  BY <1>1, <1>2, <1>3, <1>4, <1>5, <1>6 DEF Transactions

(* A reconciliation that writes tells the end of the Operation, or nothing.    *)
LEMMA ReconciledTells ==
    ASSUME Sound(db), Answering(db), Lifecycle!Coherent, reconciled(db) # db,
           db.approval = "pending" /\ db.status = "running" => db.intent = "none",
           Silent(reconciled(db), db')
    PROVE  [Lifecycle!Next]_(Lifecycle!vars)
<1>1. CASE db.status = "running"
  <2>1. db.intent # "none" /\ db.intent \in Outcomes
    BY <1>1, ReconcileEffect DEF Sound, Facts
  <2>2. db.assistant = db.intent /\ db.approval # "pending"
    BY <1>1, <2>1 DEF Answering
  <2>3. /\ db'.status = StatusOf(db.intent) /\ db'.approval = db.approval
        /\ db'.events = Append(db.events, db.intent)
        /\ db'.assistant = "completed" <=> db.assistant = "completed"
    BY <1>1, <2>1, ReconcileEffect DEF Silent
  <2> QED
    BY <1>1, <2>1, <2>2, <2>3, EndStep
<1>2. CASE db.status # "running"
  <2>1. db.assistant = "pending" => db.status # "completed"
    BY DEF Lifecycle!Coherent
  <2>2. StatusOf("completed") = "completed"
    BY DEF StatusOf, Failures
  <2>3. Silent(db, reconciled(db))
    BY <1>2, <2>1, <2>2, ReconcileEffect DEF Silent
  <2>4. Silent(db, db')
    BY <2>3 DEF Silent
  <2> QED
    BY <2>4, SilentStep
<1> QED
  BY <1>1, <1>2

(* Every event that is appended to a running Operation is told.                *)
LEMMA AppendTells ==
    ASSUME NEW e \in Events, db \in Facts, db.status = "running", Appendable(db, e),
           db' \in appendGatewayOperationEvent(db, e)
    PROVE  Lifecycle!Next /\ (db'.status = "running" => Stays(db, db'))
<1>1. CASE e \in Outcomes
  <2>1. /\ db'.status = StatusOf(e) /\ db'.assistant = db.assistant
        /\ db'.approval = db.approval /\ db'.events = Append(db.events, e)
        /\ db'.status # "running"
    BY <1>1, OutcomeEffect
  <2>2. /\ e = "completed" => db.assistant = "completed"
        /\ db.approval = "pending" => e = "RUNTIME_FAILED"
    BY <1>1 DEF Appendable
  <2> QED
    BY <1>1, <2>1, <2>2, EndStep
<1>2. CASE e = "message.citation"
  <2>1. e \in Events \ Outcomes /\ e # "approval.required"
    BY <1>2 DEF Outcomes, Failures
  <2>2. /\ db'.status = "running" /\ db'.intent = db.intent
        /\ db'.assistant = db.assistant /\ db'.approval = db.approval
        /\ db'.cont = db.cont /\ db'.events = Append(db.events, e)
    BY <2>1, EventEffect
  <2>3. db.assistant = "completed"
    BY <1>2 DEF Appendable
  <2>4. Lifecycle!Cite
    BY <1>2, <2>2, <2>3 DEF Lifecycle!Cite, Lifecycle!Running, Lifecycle!Tells
  <2> QED
    BY <2>2, <2>4 DEF Lifecycle!Next, Stays
<1>3. CASE e = "approval.required"
  <2>1. e \in Events \ Outcomes
    BY <1>3 DEF Outcomes, Failures
  <2>2. /\ db'.status = "running" /\ db'.intent = db.intent
        /\ db'.assistant = db.assistant /\ db'.approval = "pending"
        /\ db'.events = Append(db.events, e)
    BY <1>3, <2>1, EventEffect
  <2>3. db.approval = "none" /\ db.assistant # "completed"
    BY <1>3 DEF Appendable
  <2>4. Lifecycle!Ask
    BY <1>3, <2>2, <2>3 DEF Lifecycle!Ask, Lifecycle!Running, Lifecycle!Tells
  <2> QED
    BY <2>2, <2>3, <2>4 DEF Lifecycle!Next, Stays
<1> QED
  BY <1>1, <1>2, <1>3 DEF Appendable, Events

LEMMA RequestTells ==
    ASSUME db \in Facts, db.status = "running", db' \in requestCancellation(db)
    PROVE  /\ [Lifecycle!Next]_(Lifecycle!vars)
           /\ db'.status = "running" => Stays(db, db')
<1>1. CASE /\ db'.cont = db.cont /\ db'.status = db.status /\ db'.intent = db.intent
           /\ db'.approval = db.approval /\ db'.events = db.events
  <2>1. db'.assistant = db.assistant
    BY RequestEffect
  <2> QED
    BY <1>1, <2>1, SilentStep DEF Silent, Stays
<1>2. CASE /\ db'.status = "cancelled" /\ db'.events = Append(db.events, "cancelled")
           /\ db'.approval = IF db.approval = "pending" THEN "revoked" ELSE db.approval
  <2>1. db'.assistant = db.assistant
    BY RequestEffect
  <2>2. "cancelled" \in Outcomes /\ StatusOf("cancelled") = "cancelled"
    BY DEF Outcomes, StatusOf, Failures
  <2> QED
    BY <1>2, <2>1, <2>2, EndStep
<1> QED
  BY <1>1, <1>2, RequestEffect

LEMMA ResolveTells ==
    ASSUME db \in Facts, NEW status \in {"approved", "denied"},
           db' \in resolveApproval(db, status)
    PROVE  Lifecycle!Next /\ (db'.status = "running" => Stays(db, db'))
<1>1. /\ db.status = "running" /\ db.approval = "pending" /\ db'.approval = status
      /\ db'.assistant = db.assistant
      /\ (db'.assistant = "completed") = (db.assistant = "completed")
  BY ResolveEffect
<1>2. CASE /\ db'.status = "running" /\ db'.intent = db.intent /\ status = "approved"
           /\ db'.events = Append(db.events, "approval.resolved")
  <2>1. Lifecycle!Approve
    BY <1>1, <1>2 DEF Lifecycle!Approve, Lifecycle!Running, Lifecycle!Tells
  <2> QED
    BY <1>1, <1>2, <2>1 DEF Lifecycle!Next, Stays
<1>3. CASE /\ db'.status = "failed" /\ status = "denied"
           /\ db'.events = Append(Append(db.events, "approval.resolved"), "APPROVAL_DENIED")
  <2>1. Lifecycle!Deny
    BY <1>1, <1>3 DEF Lifecycle!Deny, Lifecycle!Running
  <2> QED
    BY <1>3, <2>1 DEF Lifecycle!Next
<1> QED
  BY <1>2, <1>3, ResolveEffect

(* The worker's transactions end the Operation that they find running.         *)
LEMMA WorkerTells ==
    ASSUME NEW t \in Transactions, db \in Facts, db.status = "running",
           t.op \in {"cancelContinuation", "rejectContinuationAuthorization",
                     "settleContinuation"},
           Proper(db, t), db' \in body(db, t)
    PROVE  Lifecycle!Next /\ db'.status # "running"
<1>0. /\ "cancelled" \in Outcomes /\ StatusOf("cancelled") = "cancelled"
      /\ "FORBIDDEN" \in Outcomes /\ StatusOf("FORBIDDEN") = "failed"
  BY DEF Outcomes, StatusOf, Failures
<1>1. CASE t.op = "cancelContinuation"
  <2>1. db' \in cancelContinuationWithinTransaction(db, Active)
    BY <1>1 DEF body, cancelContinuation
  <2>2. /\ db'.status = "cancelled" /\ db'.assistant = db.assistant
        /\ db'.approval = IF db.approval = "pending" THEN "revoked" ELSE db.approval
        /\ db'.events = Append(db.events, "cancelled")
    BY <2>1, CancelEffect
  <2> QED
    BY <1>0, <2>2, EndStep
<1>2. CASE t.op = "rejectContinuationAuthorization"
  <2>1. db' \in rejectContinuationAuthorization(db)
    BY <1>2 DEF body
  <2>2. /\ db'.status = "failed" /\ db'.assistant = db.assistant
        /\ db'.approval = db.approval /\ db.approval # "pending"
        /\ db'.events = Append(db.events, "FORBIDDEN")
    BY <1>2, <2>1, RejectEffect DEF Proper
  <2> QED
    BY <1>0, <2>2, EndStep
<1>3. CASE t.op = "settleContinuation"
  <2>1. /\ t.outcome \in Outcomes
        /\ db' \in settleContinuation(db, t.owner, t.gen, t.outcome)
    BY <1>3 DEF Transactions, body
  <2>2. /\ db'.status # "running" /\ db'.assistant = db.assistant
        /\ db.approval # "pending" /\ db'.approval = db.approval
    BY <1>3, <2>1, SettleEffect DEF Proper
  <2>3. PICK e \in {t.outcome, "cancelled"} :
           /\ db'.status = StatusOf(e) /\ db'.events = Append(db.events, e)
           /\ e = "completed" => db.assistant = "completed"
    BY <2>1, SettleEffect
  <2>4. e \in Outcomes
    BY <1>0, <2>1
  <2> QED
    BY <2>2, <2>3, <2>4, EndStep
<1> QED
  BY <1>1, <1>2, <1>3

(* Whatever a transaction commits on sound and coherent facts is a step of the *)
(* lifecycle, or none that a client sees.                                      *)
LEMMA CommitTells ==
    ASSUME NEW t \in Transactions, Commits(t),
           Sound(db), Answering(db), Lifecycle!Coherent,
           db.status = "running" => Proper(db, t),
           db.approval = "pending" /\ db.status = "running" => db.intent = "none"
    PROVE  /\ [Lifecycle!Next]_(Lifecycle!vars)
           /\ db'.status = "running" => db.status = "running" /\ Stays(db, db')
<1>0. db \in Facts /\ Sound(reconciled(db))
  BY ReconciledKept DEF Sound, Kept
<1>1. CASE db' \in body(db, t) /\ db.status # "running"
  BY <1>0, <1>1, EndedSilent, SilentStep
<1>2. CASE db' \in body(db, t) /\ db.status = "running"
  <2>1. CASE t.op = "append"
    <3>1. /\ t.event \in Events /\ Appendable(db, t.event)
          /\ db' \in appendGatewayOperationEvent(db, t.event)
      BY <1>2, <2>1 DEF Transactions, body, Proper
    <3> QED
      BY <1>0, <1>2, <3>1, AppendTells
  <2>2. CASE t.op = "read"
    <3>1. db' = db
      BY <1>2, <2>2 DEF body
    <3> QED
      BY <1>2, <3>1, SilentStep DEF Silent, Stays
  <2>3. CASE t.op = "requestCancellation"
    <3>1. db' \in requestCancellation(db)
      BY <1>2, <2>3 DEF body
    <3> QED
      BY <1>0, <1>2, <3>1, RequestTells
  <2>4. CASE t.op = "resolveApproval"
    <3>1. t.status \in {"approved", "denied"} /\ db' \in resolveApproval(db, t.status)
      BY <1>2, <2>4 DEF Transactions, body
    <3> QED
      BY <1>0, <1>2, <3>1, ResolveTells
  <2>5. CASE t.op \in {"cancelContinuation", "rejectContinuationAuthorization",
                       "settleContinuation"}
    BY <1>0, <1>2, <2>5, WorkerTells
  <2> QED
    BY <2>1, <2>2, <2>3, <2>4, <2>5 DEF Transactions
<1>3. CASE db' \in body(reconciled(db), t) /\ reconciled(db) # db
  <2>1. reconciled(db).status # "running"
    BY <1>3, ReconcileEffect
  <2>2. Silent(reconciled(db), db') /\ db'.status # "running"
    BY <1>0, <1>3, <2>1, EndedSilent DEF Sound
  <2> QED
    BY <1>3, <2>2, ReconciledTells
<1> QED
  BY <1>1, <1>2, <1>3, CommitFrom

(* The settlement of the answer is told as an answer, if it is one: too late   *)
(* for an Operation that ended, it finds the answer that its end announced.    *)
LEMMA AnswerTells ==
    ASSUME NEW outcome \in Outcomes, db' \in settlePlatformTurn(db, outcome),
           Sound(db), Lifecycle!Coherent,
           db.status = "running" => db.approval \in {"none", "approved"}
    PROVE  [Lifecycle!Next]_(Lifecycle!vars) /\ Answering(db')
<1>1. /\ db' = [db EXCEPT !.assistant = outcome,
                          !.intent = IF db.status = "running" THEN outcome ELSE @]
      /\ db.assistant \in {"pending", outcome}
      /\ db.status # "running" => OnlyTerminal(db, outcome)
  BY DEF settlePlatformTurn
<1>2. /\ db'.assistant = outcome /\ db'.status = db.status
      /\ db'.intent = IF db.status = "running" THEN outcome ELSE db.intent
      /\ db'.approval = db.approval /\ db'.events = db.events
  BY <1>1 DEF Sound, Facts
<1>3. outcome # "none" /\ outcome # "pending" /\ StatusOf("completed") = "completed"
  BY DEF Outcomes, Failures, StatusOf
<1>4. Answering(db')
  BY <1>2, <1>3 DEF Answering
<1>5. CASE db.status = "running" /\ outcome = "completed" /\ db.assistant = "pending"
  <2>1. Lifecycle!Answer
    BY <1>2, <1>5 DEF Lifecycle!Answer, Lifecycle!Running
  <2> QED
    BY <1>4, <2>1 DEF Lifecycle!Next
<1>6. CASE ~(outcome = "completed" /\ db.assistant = "pending")
  <2>1. Silent(db, db')
    BY <1>1, <1>2, <1>6 DEF Silent
  <2> QED
    BY <1>4, <2>1, SilentStep
<1>7. CASE db.status # "running" /\ outcome = "completed"
  <2>1. StatusOf(outcome) = db.status
    BY <1>1, <1>7 DEF Sound, OneTerminalEvent, OnlyTerminal
  <2>2. db.assistant = "completed"
    BY <1>3, <1>7, <2>1 DEF Lifecycle!Coherent
  <2>3. Silent(db, db')
    BY <1>2, <1>7, <2>2 DEF Silent
  <2> QED
    BY <1>4, <2>3, SilentStep
<1> QED
  BY <1>5, <1>6, <1>7
===========================================================================

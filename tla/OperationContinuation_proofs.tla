--------------------- MODULE OperationContinuation_proofs ---------------------
(* TLAPS proofs about OperationContinuation, for every number of workers, Tool *)
(* Calls, continuations, generations and calls under way, with no bound on the *)
(* clock.                                                                      *)
EXTENDS OperationContinuation, TLAPS

USE DEF Seqs, SettleFailure, Active, Terminal

(* What each SET clause does to a row, and that it stays a row.                *)
LEMMA ClaimedRow ==
    ASSUME NEW row \in Row, NEW w \in Workers, NEW e \in Nat
    PROVE  /\ row.gen < MaxGeneration => Claimed(row, w, e) \in Row
           /\ Claimed(row, w, e).status = "running"
           /\ Claimed(row, w, e).gen = row.gen + 1
           /\ Claimed(row, w, e).owner = w
           /\ Claimed(row, w, e).call = row.call
           /\ Claimed(row, w, e).expires = e
           /\ Claimed(row, w, e).failure = row.failure
<1>1. row.gen < MaxGeneration => row.gen + 1 \in 0..MaxGeneration
  BY BoundsAssumption DEF Row
<1>2. row.gen + 1 \in 0..MaxGeneration => Claimed(row, w, e) \in Row
  BY DEF Row, Claimed
<1> QED
  BY <1>1, <1>2 DEF Row, Claimed

LEMMA RenewedRow ==
    ASSUME NEW row \in Row, NEW e \in Nat
    PROVE  /\ Renewed(row, e) \in Row
           /\ Renewed(row, e).status = row.status
           /\ Renewed(row, e).gen = row.gen
           /\ Renewed(row, e).owner = row.owner
           /\ Renewed(row, e).call = row.call
           /\ Renewed(row, e).expires = e
           /\ Renewed(row, e).failure = row.failure
  BY DEF Row, Renewed

LEMMA UnleasedRow ==
    ASSUME NEW row \in Row,
           NEW st \in {"ready", "completed", "failed", "cancelled"},
           NEW f \in {"none", SettleFailure}
    PROVE  /\ Unleased(row, st, f) \in Row
           /\ Unleased(row, st, f).status = st
           /\ Unleased(row, st, f).gen = row.gen
           /\ Unleased(row, st, f).owner = NoOwner
           /\ Unleased(row, st, f).call = row.call
           /\ Unleased(row, st, f).expires = 0
           /\ Unleased(row, st, f).failure = f
  BY BoundsAssumption DEF Row, Unleased

NewRow(c) == [NoRow EXCEPT !.status = "waiting_approval", !.call = c]

LEMMA BlankRow == NoRow \in Row
  BY BoundsAssumption DEF NoRow, Row

LEMMA CreatedRow ==
    ASSUME NEW c \in Calls
    PROVE  /\ NewRow(c) \in Row
           /\ NewRow(c).status = "waiting_approval" /\ NewRow(c).call = c
           /\ NewRow(c).gen = 0 /\ NewRow(c).owner = NoOwner
           /\ NewRow(c).expires = 0 /\ NewRow(c).failure = "none"
<1>1. NoRow \in Row
  BY BlankRow
<1> QED
  BY <1>1 DEF NewRow, NoRow, Row

LEMMA ReadyRow ==
    ASSUME NEW row \in Row
    PROVE  [row EXCEPT !.status = "ready"] \in Row
  BY DEF Row

LEMMA TypeStep == ASSUME TypeOK, [Next]_vars PROVE TypeOK'
<1>0. ASSUME NEW call \in inflight
      PROVE  /\ call.seq \in Seqs /\ call.owner \in Workers
             /\ call.gen \in 0..MaxGeneration
             /\ call.now + LeaseDuration \in Nat
             /\ rows[call.seq] \in Row
  BY LeaseAssumption DEF TypeOK, LeaseCall
<1>1. ASSUME NEW c \in Calls, createWaiting(c) PROVE TypeOK'
  <2>1. PICK s \in Seqs : rows' = [rows EXCEPT ![s] = NewRow(c)]
    BY <1>1 DEF createWaiting, NewRow
  <2>2. rows' \in [Seqs -> Row]
    BY <2>1, CreatedRow DEF TypeOK
  <2> QED
    BY <1>1, <2>2 DEF createWaiting, env, TypeOK
<1>2. ASSUME NEW s \in Seqs, markReady(s) PROVE TypeOK'
  BY <1>2, ReadyRow DEF markReady, env, TypeOK
<1>3. ASSUME NEW s \in Seqs, cancel(s) PROVE TypeOK'
  <2>1. Unleased(rows[s], "cancelled", "none") \in Row
    BY UnleasedRow DEF TypeOK
  <2> QED
    BY <1>3, <2>1 DEF cancel, env, TypeOK
<1>4. ASSUME NEW s \in Seqs, NEW w \in Workers, claim(s, w) \/ claimForExecution(s, w)
      PROVE  TypeOK'
  <2>1. ClaimCall(s, w) \in LeaseCall
    BY BoundsAssumption DEF ClaimCall, LeaseCall, TypeOK
  <2> QED
    BY <1>4, <2>1 DEF claim, claimForExecution, Start, env, TypeOK
<1>5. ASSUME NEW g \in granted,
             NEW kind \in {"heartbeat", "release", "complete", "fail"}, present(kind, g)
      PROVE  TypeOK'
  <2>1. g[1] \in Seqs /\ g[2] \in 1..MaxGeneration /\ g[3] \in Workers /\ clock \in Nat
    BY DEF TypeOK
  <2>2. g[2] \in 0..MaxGeneration
    BY <2>1, BoundsAssumption
  <2>3. [kind |-> kind, seq |-> g[1], owner |-> g[3], gen |-> g[2], now |-> clock]
          \in LeaseCall
    BY <2>1, <2>2 DEF LeaseCall
  <2> QED
    BY <1>5, <2>3 DEF present, Start, env, TypeOK
<1>6. ASSUME NEW call \in inflight, claimRow(call) PROVE TypeOK'
  <2> DEFINE row == rows[call.seq]
             new == Claimed(row, call.owner, call.now + LeaseDuration)
  <2>1. row.gen < MaxGeneration => new \in Row
    BY <1>0, ClaimedRow
  <2>2. row.gen < MaxGeneration => row.gen + 1 \in 1..MaxGeneration
    BY <1>0, BoundsAssumption DEF Row
  <2>3. rows' \in [Seqs -> Row]
    BY <1>0, <1>6, <2>1 DEF claimRow, Write, TypeOK
  <2>4. granted' \subseteq Seqs \X (1..MaxGeneration) \X Workers
    BY <1>0, <1>6, <2>2 DEF claimRow, TypeOK
  <2> QED
    BY <1>6, <2>3, <2>4 DEF claimRow, Write, env, TypeOK
<1>7. ASSUME NEW call \in inflight, heartbeatContinuation(call) PROVE TypeOK'
  <2>1. Renewed(rows[call.seq], call.now + LeaseDuration) \in Row
    BY <1>0, RenewedRow
  <2>2. rows' \in [Seqs -> Row]
    BY <1>0, <1>7, <2>1 DEF heartbeatContinuation, Write, TypeOK
  <2> QED
    BY <1>7, <2>2 DEF heartbeatContinuation, Write, env, TypeOK
<1>8. ASSUME NEW call \in inflight, releaseContinuation(call) PROVE TypeOK'
  <2>1. Unleased(rows[call.seq], "ready", "none") \in Row
    BY <1>0, UnleasedRow
  <2>2. rows' \in [Seqs -> Row]
    BY <1>0, <1>8, <2>1 DEF releaseContinuation, Write, TypeOK
  <2> QED
    BY <1>8, <2>2 DEF releaseContinuation, Write, env, TypeOK
<1>9. ASSUME NEW call \in inflight, settleContinuation(call) PROVE TypeOK'
  <2>1. /\ Unleased(rows[call.seq], "completed", "none") \in Row
        /\ Unleased(rows[call.seq], "failed", SettleFailure) \in Row
    BY <1>0, UnleasedRow
  <2>2. rows' \in [Seqs -> Row]
    BY <1>0, <1>9, <2>1 DEF settleContinuation, Write, TypeOK
  <2> QED
    BY <1>0, <1>9, <2>2 DEF settleContinuation, Write, env, TypeOK
<1>10. ASSUME NEW call \in inflight, Lose(call) PROVE TypeOK'
  BY <1>10 DEF Lose, env, TypeOK
<1>11. ASSUME Environment PROVE TypeOK'
  <2> USE DEF TypeOK, Unchanged, env
  <2>1. ASSUME NEW status \in {"completed", "failed", "cancelled"}, operationTerminal(status)
        PROVE  TypeOK'
    BY <2>1 DEF operationTerminal
  <2>2. ASSUME requestCancellation PROVE TypeOK'
    BY <2>2 DEF requestCancellation
  <2>3. ASSUME NEW c \in Calls, markCallRunning(c) PROVE TypeOK'
    BY <2>3 DEF markCallRunning
  <2>4. ASSUME NEW c \in Calls, NEW d \in {"approved", "denied"}, decide(c, d) PROVE TypeOK'
    BY <2>4 DEF decide
  <2>5. ASSUME revokeAccess PROVE TypeOK'
    BY <2>5 DEF revokeAccess
  <2>6. ASSUME Tick PROVE TypeOK'
    BY <2>6 DEF Tick
  <2> QED
    BY <1>11, <2>1, <2>2, <2>3, <2>4, <2>5, <2>6 DEF Environment
<1>12. CASE UNCHANGED vars
  BY <1>12 DEF vars, TypeOK
<1> QED
  BY <1>1, <1>2, <1>3, <1>4, <1>5, <1>6, <1>7, <1>8, <1>9, <1>10, <1>11, <1>12
     DEF Next, Repository

(* Type correctness: every field of every row, call under way and history      *)
(* variable stays in its set; the generation never passes its CHECK bound.     *)
THEOREM TypeCorrect == Spec => []TypeOK
<1>1. Init => TypeOK
  BY BlankRow DEF Init, TypeOK
<1> QED
  BY <1>1, TypeStep, PTL DEF Spec

-------------------------------------------------------------------------------
(* The inductive step of IInv.                                                 *)

Approvals == \A c \in Calls : approval[c] = "approved" => approval'[c] = "approved"

(* A step that writes no row: the calls' checks, lost calls and the rest of    *)
(* the system.                                                                 *)
LEMMA QuietStep ==
    ASSUME IInv, TypeOK', UNCHANGED <<rows, granted, settledBy>>, Approvals, CallsInPast'
    PROVE  IInv'
<1>1. RowsBound' /\ SettledRows' /\ RowChecks' /\ OneActiveContinuation'
  BY DEF IInv, RowsBound, SettledRows, RowChecks, OneActiveContinuation
<1>2. GenerationIssuedOnce' /\ OwnerHoldsLatestGrant' /\ SettledByLatestGrant'
  BY DEF IInv, GenerationIssuedOnce, OwnerHoldsLatestGrant, SettledByLatestGrant
<1>3. RunsOnlyApproved'
  BY DEF IInv, RunsOnlyApproved, RowsBound, Approvals
<1> QED
  BY <1>1, <1>2, <1>3 DEF IInv

(* A step that rewrites row s and grants nothing, where s is neither created   *)
(* nor given a new owner or generation.                                        *)
LEMMA RewriteStep ==
    ASSUME IInv, TypeOK', CallsInPast', UNCHANGED <<granted, approval>>,
           NEW s \in Seqs, NEW r \in Row,
           rows' = [rows EXCEPT ![s] = r],
           rows[s].status \in Active,
           r.status # "absent", r.status = "waiting_approval" => rows[s].status = r.status,
           r.call = rows[s].call, r.gen = rows[s].gen,
           LeaseCheck(r), TerminalCheck(r),
           r.status = "running" => rows[s].status = "running" /\ r.owner = rows[s].owner,
           r.status \in {"ready", "running", "completed", "failed"}
              => approval[r.call] = "approved",
           \/ settledBy' = settledBy
           \/ /\ r.status \in {"completed", "failed"}
              /\ rows[s].status = "running"
              /\ settledBy' = [settledBy EXCEPT ![s] = {<<rows[s].gen, rows[s].owner>>}]
    PROVE  IInv'
<1> USE DEF IInv
<1>1. /\ \A t \in Seqs : t # s => rows'[t] = rows[t]
      /\ rows'[s] = r
  BY DEF TypeOK
<1>2. RowsBound'
  BY <1>1 DEF RowsBound
<1>3. SettledRows'
  BY <1>1 DEF SettledRows, TypeOK
<1>4. RowChecks'
  BY <1>1 DEF RowChecks
<1>5. OneActiveContinuation'
  BY <1>1 DEF OneActiveContinuation
<1>6. GenerationIssuedOnce'
  BY DEF GenerationIssuedOnce
<1>7. OwnerHoldsLatestGrant'
  <2> SUFFICES ASSUME NEW t \in Seqs
               PROVE  /\ rows'[t].status = "running"
                          => <<t, rows'[t].gen, rows'[t].owner>> \in granted
                      /\ \A g \in granted : g[1] = t => g[2] <= rows'[t].gen
    BY DEF OwnerHoldsLatestGrant
  <2>1. rows'[t].gen = rows[t].gen
    BY <1>1
  <2>2. rows'[t].status = "running"
          => rows[t].status = "running" /\ rows'[t].owner = rows[t].owner
    BY <1>1
  <2> QED
    BY <2>1, <2>2 DEF OwnerHoldsLatestGrant
<1>8. SettledByLatestGrant'
  <2>1. CASE settledBy' = settledBy
    BY <2>1 DEF SettledByLatestGrant
  <2>2. CASE /\ rows[s].status = "running"
             /\ settledBy' = [settledBy EXCEPT ![s] = {<<rows[s].gen, rows[s].owner>>}]
    <3>1. /\ <<s, rows[s].gen, rows[s].owner>> \in granted
          /\ \A g \in granted : g[1] = s => g[2] <= rows[s].gen
      BY <2>2 DEF OwnerHoldsLatestGrant
    <3>2. settledBy \in [Seqs -> SUBSET ((0..MaxGeneration) \X Workers)]
      BY DEF TypeOK
    <3>3. /\ \A t \in Seqs : t # s => settledBy'[t] = settledBy[t]
          /\ settledBy'[s] = {<<rows[s].gen, rows[s].owner>>}
      BY <2>2, <3>2
    <3>4. ASSUME NEW t \in Seqs, NEW f \in settledBy'[t]
          PROVE  /\ <<t, f[1], f[2]>> \in granted
                 /\ \A g \in granted : g[1] = t => g[2] <= f[1]
      <4>1. CASE t = s
        <5>1. f[1] = rows[s].gen /\ f[2] = rows[s].owner
          BY <3>3, <3>4, <4>1
        <5> QED
          BY <3>1, <4>1, <5>1
      <4>2. CASE t # s
        BY <3>3, <3>4, <4>2 DEF SettledByLatestGrant
      <4> QED
        BY <4>1, <4>2
    <3> QED
      BY <3>4 DEF SettledByLatestGrant
  <2> QED
    BY <2>1, <2>2
<1>9. RunsOnlyApproved'
  BY <1>1 DEF RunsOnlyApproved
<1> QED
  BY <1>2, <1>3, <1>4, <1>5, <1>6, <1>7, <1>8, <1>9

(* A claim whose WHERE clause matched: the only step that grants.              *)
LEMMA GrantStep ==
    ASSUME IInv, TypeOK', CallsInPast', UNCHANGED <<settledBy, approval>>,
           NEW s \in Seqs, NEW w \in Workers, NEW e \in Nat,
           rows[s].status \in {"ready", "running"},
           rows' = [rows EXCEPT ![s] = Claimed(rows[s], w, e)],
           granted' = granted \cup {<<s, rows[s].gen + 1, w>>}
    PROVE  IInv'
<1> USE DEF IInv
<1> DEFINE r == Claimed(rows[s], w, e)
<1>0. rows[s] \in Row /\ rows[s].gen \in Nat
  BY BoundsAssumption DEF TypeOK, Row
<1>1. /\ \A t \in Seqs : t # s => rows'[t] = rows[t]
      /\ rows'[s].status = "running" /\ rows'[s].gen = rows[s].gen + 1
      /\ rows'[s].owner = w /\ rows'[s].call = rows[s].call
      /\ rows'[s].expires = e /\ rows'[s].failure = rows[s].failure
  BY <1>0, ClaimedRow DEF TypeOK
<1> HIDE DEF r
<1>2. RowsBound'
  BY <1>1 DEF RowsBound
<1>3. SettledRows'
  BY <1>1 DEF SettledRows
<1>4. RowChecks'
  <2>1. w # NoOwner /\ rows[s].gen + 1 >= 1 /\ rows[s].failure = "none"
    BY <1>0, OwnersAssumption DEF RowChecks, TerminalCheck
  <2> QED
    BY <1>1, <2>1 DEF RowChecks, LeaseCheck, TerminalCheck
<1>5. OneActiveContinuation'
  BY <1>1 DEF OneActiveContinuation
<1>6. \A g \in granted : g[1] \in Seqs /\ g[2] \in Nat /\ (g[1] = s => g[2] <= rows[s].gen)
  <2>1. \A g \in granted : g[1] \in Seqs /\ g[2] \in 1..MaxGeneration
    BY DEF TypeOK
  <2>2. \A g \in granted : g[1] = s => g[2] <= rows[s].gen
    BY DEF OwnerHoldsLatestGrant
  <2> QED
    BY <2>1, <2>2, BoundsAssumption
<1>7. GenerationIssuedOnce'
  <2>1. \A g \in granted : g[1] = s => g[2] # rows[s].gen + 1
    BY <1>0, <1>6
  <2> QED
    BY <2>1 DEF GenerationIssuedOnce
<1>8. OwnerHoldsLatestGrant'
  <2>1. \A g \in granted' : g[1] = s => g[2] <= rows[s].gen + 1
    BY <1>0, <1>6
  <2>2. \A g \in granted' : g[1] # s => g \in granted
    OBVIOUS
  <2> QED
    BY <1>1, <2>1, <2>2 DEF OwnerHoldsLatestGrant
<1>9. SettledByLatestGrant'
  <2>1. settledBy[s] = {}
    BY DEF SettledRows
  <2>2. \A g \in granted' : g \in granted \/ g[1] = s
    OBVIOUS
  <2> QED
    BY <2>1, <2>2 DEF SettledByLatestGrant
<1>10. RunsOnlyApproved'
  BY <1>1 DEF RunsOnlyApproved
<1> QED
  BY <1>2, <1>3, <1>4, <1>5, <1>7, <1>8, <1>9, <1>10

(* A new row: every earlier row of the Operation is final.                     *)
LEMMA CreateStep ==
    ASSUME IInv, TypeOK', NEW c \in Calls, createWaiting(c)
    PROVE  IInv'
<1> USE DEF IInv
<1>1. PICK s \in Seqs :
        /\ NextSeq(s)
        /\ \A t \in Seqs : t = s - 1 => rows[t].status \notin Active
        /\ rows' = [rows EXCEPT ![s] = NewRow(c)]
  BY DEF createWaiting, NewRow
<1>2. /\ \A t \in Seqs : t # s => rows'[t] = rows[t]
      /\ rows'[s] = NewRow(c)
  BY <1>1 DEF TypeOK
<1>3. UNCHANGED <<granted, settledBy, approval, inflight, clock>>
  BY DEF createWaiting, env
<1>4. rows[s].status = "absent" /\ rows[s] = NoRow
  BY <1>1 DEF NextSeq, RowsBound
<1>5. RowsBound'
  BY <1>2, CreatedRow DEF RowsBound
<1>6. SettledRows'
  BY <1>2, <1>3, <1>4 DEF SettledRows
<1>7. CallsInPast'
  BY <1>3 DEF CallsInPast
<1>8. RowChecks'
  BY <1>2, CreatedRow DEF RowChecks, LeaseCheck, TerminalCheck
<1>9. OneActiveContinuation'
  <2>1. \A t \in Seqs : t < s => rows[t].status \in Terminal
    <3> SUFFICES ASSUME NEW t \in Seqs, t < s PROVE rows[t].status \in Terminal
      OBVIOUS
    <3>1. t \in 1..(s - 1) /\ s - 1 \in Seqs
      BY BoundsAssumption
    <3>2. CASE t = s - 1
      BY <1>1, <3>1, <3>2 DEF NextSeq, TypeOK, Row
    <3>3. CASE t < s - 1
      BY <1>1, <3>1, <3>3, BoundsAssumption DEF NextSeq, OneActiveContinuation
    <3> QED
      BY <3>1, <3>2, <3>3, BoundsAssumption
  <2>2. \A t \in Seqs : s < t => rows[t].status = "absent"
    BY <1>4 DEF OneActiveContinuation
  <2> QED
    BY <1>2, <2>1, <2>2 DEF OneActiveContinuation
<1>10. GenerationIssuedOnce'
  BY <1>3 DEF GenerationIssuedOnce
<1>11. OwnerHoldsLatestGrant'
  <2>1. NewRow(c).gen = rows[s].gen /\ NewRow(c).status # "running"
    BY <1>4, CreatedRow DEF NoRow
  <2> QED
    BY <1>2, <1>3, <2>1 DEF OwnerHoldsLatestGrant
<1>12. SettledByLatestGrant'
  BY <1>3 DEF SettledByLatestGrant
<1>13. RunsOnlyApproved'
  BY <1>2, <1>3, CreatedRow DEF RunsOnlyApproved
<1> QED
  BY <1>5, <1>6, <1>7, <1>8, <1>9, <1>10, <1>11, <1>12, <1>13

LEMMA InductiveStep == ASSUME IInv, [Next]_vars PROVE IInv'
<1>0. TypeOK'
  BY TypeStep DEF IInv
<1>a. ASSUME NEW call \in inflight
      PROVE  /\ call \in LeaseCall /\ call.seq \in Seqs /\ call.owner \in Workers
             /\ call.now + LeaseDuration \in Nat /\ rows[call.seq] \in Row
  BY LeaseAssumption DEF IInv, TypeOK, LeaseCall
<1>1. ASSUME NEW c \in Calls, createWaiting(c) PROVE IInv'
  BY <1>0, <1>1, CreateStep
<1>2. ASSUME NEW s \in Seqs, markReady(s) PROVE IInv'
  <2> DEFINE r == [rows[s] EXCEPT !.status = "ready"]
  <2>1. /\ rows[s] \in Row /\ r \in Row /\ r.status = "ready"
        /\ r.call = rows[s].call /\ r.gen = rows[s].gen /\ r.owner = rows[s].owner
        /\ r.expires = rows[s].expires /\ r.failure = rows[s].failure
    BY ReadyRow DEF IInv, TypeOK, Row
  <2>2. LeaseCheck(r) /\ TerminalCheck(r)
    BY <1>2, <2>1 DEF IInv, RowChecks, LeaseCheck, TerminalCheck, markReady
  <2>3. /\ rows' = [rows EXCEPT ![s] = r]
        /\ rows[s].status \in Active
        /\ approval[r.call] = "approved"
        /\ UNCHANGED <<granted, settledBy, approval, inflight, clock>>
    BY <1>2, <2>1 DEF markReady, env
  <2>4. CallsInPast'
    BY <2>3 DEF IInv, CallsInPast
  <2> HIDE DEF r
  <2> QED
    BY <1>0, <2>1, <2>2, <2>3, <2>4, RewriteStep
<1>3. ASSUME NEW s \in Seqs, cancel(s) PROVE IInv'
  <2> DEFINE r == Unleased(rows[s], "cancelled", "none")
  <2>1. /\ r \in Row /\ r.status = "cancelled" /\ r.failure = "none"
        /\ r.call = rows[s].call /\ r.gen = rows[s].gen
        /\ r.owner = NoOwner /\ r.expires = 0
    BY UnleasedRow DEF IInv, TypeOK
  <2>2. LeaseCheck(r) /\ TerminalCheck(r)
    BY <2>1 DEF LeaseCheck, TerminalCheck
  <2>3. /\ rows' = [rows EXCEPT ![s] = r] /\ rows[s].status \in Active
        /\ UNCHANGED <<granted, settledBy, approval, inflight, clock>>
    BY <1>3 DEF cancel, env
  <2>4. CallsInPast'
    BY <2>3 DEF IInv, CallsInPast
  <2> HIDE DEF r
  <2> QED
    BY <1>0, <2>1, <2>2, <2>3, <2>4, RewriteStep
<1>4. ASSUME NEW call, call.now = clock, Start(call) PROVE IInv'
  <2>1. CallsInPast'
    BY <1>4 DEF Start, IInv, CallsInPast, TypeOK
  <2> QED
    BY <1>0, <1>4, <2>1, QuietStep DEF Start, env, Approvals
<1>5. ASSUME NEW call \in inflight, claimRow(call) PROVE IInv'
  <2> DEFINE row == rows[call.seq]
             matches == Claimable(row, call.now) /\ row.gen < MaxGeneration
  <2>1. CallsInPast' /\ UNCHANGED <<settledBy, approval>>
    BY <1>5 DEF claimRow, Write, IInv, CallsInPast, env
  <2>2. CASE matches
    <3>1. rows[call.seq].status \in {"ready", "running"}
      BY <2>2 DEF Claimable
    <3>2. /\ rows' = [rows EXCEPT ![call.seq] =
                         Claimed(rows[call.seq], call.owner, call.now + LeaseDuration)]
          /\ granted' = granted \cup {<<call.seq, rows[call.seq].gen + 1, call.owner>>}
      BY <1>5, <2>2 DEF claimRow, Write
    <3> QED
      BY <1>0, <1>a, <2>1, <3>1, <3>2, GrantStep
  <2>3. CASE ~matches
    BY <1>0, <1>5, <2>1, <2>3, QuietStep DEF claimRow, Write, Approvals
  <2> QED
    BY <2>2, <2>3
<1>6. ASSUME NEW call \in inflight, heartbeatContinuation(call) PROVE IInv'
  <2> DEFINE r == Renewed(rows[call.seq], call.now + LeaseDuration)
  <2>1. CallsInPast' /\ UNCHANGED <<granted, settledBy, approval>>
    BY <1>6 DEF heartbeatContinuation, Write, IInv, CallsInPast, env
  <2>2. CASE MatchesLease(call)
    <3>1. /\ r \in Row /\ r.status = rows[call.seq].status /\ r.gen = rows[call.seq].gen
          /\ r.owner = rows[call.seq].owner /\ r.call = rows[call.seq].call
          /\ r.failure = rows[call.seq].failure
      BY <1>a, RenewedRow
    <3>2. rows[call.seq].status = "running" /\ rows' = [rows EXCEPT ![call.seq] = r]
      BY <1>6, <2>2 DEF MatchesLease, HeldBy, heartbeatContinuation, Write
    <3>3. LeaseCheck(r) /\ TerminalCheck(r)
      BY <1>a, <3>1, <3>2 DEF IInv, RowChecks, LeaseCheck, TerminalCheck
    <3>4. approval[r.call] = "approved"
      BY <1>a, <3>1, <3>2 DEF IInv, RunsOnlyApproved
    <3> HIDE DEF r
    <3> QED
      BY <1>0, <1>a, <2>1, <3>1, <3>2, <3>3, <3>4, RewriteStep
  <2>3. CASE ~MatchesLease(call)
    BY <1>0, <1>6, <2>1, <2>3, QuietStep DEF heartbeatContinuation, Write, Approvals
  <2> QED
    BY <2>2, <2>3
<1>7. ASSUME NEW call \in inflight, releaseContinuation(call) PROVE IInv'
  <2> DEFINE r == Unleased(rows[call.seq], "ready", "none")
  <2>1. CallsInPast' /\ UNCHANGED <<granted, settledBy, approval>>
    BY <1>7 DEF releaseContinuation, Write, IInv, CallsInPast, env
  <2>2. CASE MatchesLease(call)
    <3>1. /\ r \in Row /\ r.status = "ready" /\ r.gen = rows[call.seq].gen
          /\ r.owner = NoOwner /\ r.call = rows[call.seq].call
          /\ r.failure = "none" /\ r.expires = 0
      BY <1>a, UnleasedRow
    <3>2. rows[call.seq].status = "running" /\ rows' = [rows EXCEPT ![call.seq] = r]
      BY <1>7, <2>2 DEF MatchesLease, HeldBy, releaseContinuation, Write
    <3>3. LeaseCheck(r) /\ TerminalCheck(r)
      BY <3>1 DEF LeaseCheck, TerminalCheck
    <3>4. approval[r.call] = "approved"
      BY <1>a, <3>1, <3>2 DEF IInv, RunsOnlyApproved
    <3> HIDE DEF r
    <3> QED
      BY <1>0, <1>a, <2>1, <3>1, <3>2, <3>3, <3>4, RewriteStep
  <2>3. CASE ~MatchesLease(call)
    BY <1>0, <1>7, <2>1, <2>3, QuietStep DEF releaseContinuation, Write, Approvals
  <2> QED
    BY <2>2, <2>3
<1>8. ASSUME NEW call \in inflight, settleContinuation(call) PROVE IInv'
  <2> DEFINE r == IF call.kind = "complete"
                  THEN Unleased(rows[call.seq], "completed", "none")
                  ELSE Unleased(rows[call.seq], "failed", SettleFailure)
  <2>1. CallsInPast' /\ UNCHANGED <<granted, approval>>
    BY <1>8 DEF settleContinuation, Write, IInv, CallsInPast, env
  <2>2. CASE MatchesLease(call)
    <3>1. /\ r \in Row /\ r.status \in {"completed", "failed"}
          /\ r.gen = rows[call.seq].gen /\ r.owner = NoOwner
          /\ r.call = rows[call.seq].call /\ r.expires = 0
          /\ (r.status = "failed") <=> (r.failure # "none")
      BY <1>a, UnleasedRow
    <3>2. /\ rows[call.seq].status = "running" /\ rows' = [rows EXCEPT ![call.seq] = r]
          /\ call.gen = rows[call.seq].gen /\ call.owner = rows[call.seq].owner
          /\ settledBy' = [settledBy EXCEPT ![call.seq] = {<<call.gen, call.owner>>}]
      BY <1>8, <2>2 DEF MatchesLease, HeldBy, settleContinuation, Write
    <3>3. LeaseCheck(r) /\ TerminalCheck(r)
      BY <3>1 DEF LeaseCheck, TerminalCheck
    <3>4. approval[r.call] = "approved"
      BY <1>a, <3>1, <3>2 DEF IInv, RunsOnlyApproved
    <3>5. r.status # "absent" /\ r.status # "waiting_approval" /\ r.status # "running"
      BY <3>1
    <3> HIDE DEF r
    <3> QED
      BY <1>0, <1>a, <2>1, <3>1, <3>2, <3>3, <3>4, <3>5, RewriteStep
  <2>3. CASE ~MatchesLease(call)
    BY <1>0, <1>8, <2>1, <2>3, QuietStep DEF settleContinuation, Write, Approvals
  <2> QED
    BY <2>2, <2>3
<1>9. ASSUME NEW call \in inflight, Lose(call) PROVE IInv'
  <2>1. CallsInPast'
    BY <1>9 DEF Lose, IInv, CallsInPast
  <2> QED
    BY <1>0, <1>9, <2>1, QuietStep DEF Lose, env, Approvals
<1>10. ASSUME Environment PROVE IInv'
  <2>1. UNCHANGED <<rows, inflight, granted, settledBy>> /\ clock' \in {clock, clock + 1}
    BY <1>10 DEF Environment, operationTerminal, requestCancellation, markCallRunning,
                 decide, revokeAccess, Tick, Unchanged, env
  <2>2. CallsInPast'
    <3> SUFFICES ASSUME NEW call \in inflight PROVE call.now <= clock'
      BY <2>1 DEF CallsInPast
    <3>1. call.now \in Nat /\ clock \in Nat /\ call.now <= clock
      BY DEF IInv, CallsInPast, TypeOK, LeaseCall
    <3> QED
      BY <2>1, <3>1
  <2>3. Approvals
    BY <1>10 DEF Environment, operationTerminal, requestCancellation, markCallRunning,
                 decide, revokeAccess, Tick, env, Approvals, IInv, TypeOK
  <2> QED
    BY <1>0, <2>1, <2>2, <2>3, QuietStep
<1>11. CASE UNCHANGED vars
  <2>1. CallsInPast'
    BY <1>11 DEF vars, IInv, CallsInPast
  <2> QED
    BY <1>0, <1>11, <2>1, QuietStep DEF vars, Approvals
<1>12. ASSUME NEW s \in Seqs, NEW w \in Workers, claim(s, w) \/ claimForExecution(s, w)
       PROVE  IInv'
  BY <1>4, <1>12 DEF claim, claimForExecution, ClaimCall
<1>13. ASSUME NEW g \in granted,
              NEW kind \in {"heartbeat", "release", "complete", "fail"}, present(kind, g)
       PROVE  IInv'
  BY <1>4, <1>13 DEF present
<1> QED
  BY <1>1, <1>2, <1>3, <1>5, <1>6, <1>7, <1>8, <1>9, <1>10, <1>11, <1>12, <1>13
     DEF Next, Repository

LEMMA InductiveInit == Init => IInv
<1> SUFFICES ASSUME Init PROVE IInv
  OBVIOUS
<1>1. TypeOK
  BY BlankRow DEF Init, TypeOK
<1> QED
  BY <1>1 DEF Init, IInv, RowsBound, SettledRows, CallsInPast, RowChecks, LeaseCheck,
              TerminalCheck, OneActiveContinuation, GenerationIssuedOnce,
              OwnerHoldsLatestGrant, SettledByLatestGrant, RunsOnlyApproved, NoRow

(* The inductive invariant holds in every reachable state.                     *)
THEOREM Inductive == Spec => []IInv
  BY InductiveInit, InductiveStep, PTL DEF Spec
-------------------------------------------------------------------------------
(* Fencing: a generation has one owner, a running row is owned by the latest   *)
(* grant, and only that grant can have settled it.                             *)
THEOREM Fencing ==
    Spec => [](GenerationIssuedOnce /\ OwnerHoldsLatestGrant /\ SettledByLatestGrant)
<1>1. IInv => GenerationIssuedOnce /\ OwnerHoldsLatestGrant /\ SettledByLatestGrant
  BY DEF IInv
<1> QED
  BY <1>1, Inductive, PTL

\* A lease generation is handed out once, whatever claims overlap (claim-store.ts:67-93).
THEOREM IssuedOnce == Spec => []GenerationIssuedOnce
<1>1. IInv => GenerationIssuedOnce
  BY DEF IInv
<1> QED
  BY <1>1, Inductive, PTL

\* The owner that a row records is the worker of its latest grant (claim-store.ts:41-50).
THEOREM LatestGrant == Spec => []OwnerHoldsLatestGrant
<1>1. IInv => OwnerHoldsLatestGrant
  BY DEF IInv
<1> QED
  BY <1>1, Inductive, PTL

(* Continuations of an Operation follow one another: only the last created one *)
(* can be active.                                                              *)
THEOREM Succession == Spec => []OneActiveContinuation
<1>1. IInv => OneActiveContinuation
  BY DEF IInv
<1> QED
  BY <1>1, Inductive, PTL

(* No continuation becomes ready, runs or is settled without an approval.      *)
THEOREM Approval == Spec => []RunsOnlyApproved
<1>1. IInv => RunsOnlyApproved
  BY DEF IInv
<1> QED
  BY <1>1, Inductive, PTL

(* The rows written satisfy the CHECK constraints of the table.                *)
THEOREM Checks == Spec => []RowChecks
<1>1. IInv => RowChecks
  BY DEF IInv
<1> QED
  BY <1>1, Inductive, PTL

-------------------------------------------------------------------------------
(* Which rows a step can touch, and how: the facts the action properties and   *)
(* the refinement share.                                                       *)

Touch(s, r) == rows' = [rows EXCEPT ![s] = r]

LEMMA RowSteps ==
    ASSUME IInv, [Next]_vars
    PROVE  \/ UNCHANGED <<rows, granted, settledBy>>
           \/ \E c \in Calls, s \in Seqs :
                /\ rows[s] = NoRow /\ Touch(s, NewRow(c))
                /\ UNCHANGED <<granted, settledBy>>
           \/ \E s \in Seqs :
                /\ rows[s].status = "waiting_approval"
                /\ Touch(s, [rows[s] EXCEPT !.status = "ready"])
                /\ UNCHANGED <<granted, settledBy>>
           \/ \E s \in Seqs :
                /\ rows[s].status \in Active
                /\ Touch(s, Unleased(rows[s], "cancelled", "none"))
                /\ UNCHANGED <<granted, settledBy>>
           \/ \E s \in Seqs, w \in Workers, now \in 0..clock :
                /\ Claimable(rows[s], now)
                /\ Touch(s, Claimed(rows[s], w, now + LeaseDuration))
                /\ granted' = granted \cup {<<s, rows[s].gen + 1, w>>}
                /\ UNCHANGED settledBy
           \/ \E s \in Seqs, e \in Nat :
                /\ rows[s].status = "running"
                /\ Touch(s, Renewed(rows[s], e))
                /\ UNCHANGED <<granted, settledBy>>
           \/ \E s \in Seqs :
                /\ rows[s].status = "running"
                /\ Touch(s, Unleased(rows[s], "ready", "none"))
                /\ UNCHANGED <<granted, settledBy>>
           \/ \E s \in Seqs :
                /\ rows[s].status = "running"
                /\ \/ Touch(s, Unleased(rows[s], "completed", "none"))
                   \/ Touch(s, Unleased(rows[s], "failed", SettleFailure))
                /\ settledBy' = [settledBy EXCEPT ![s] = {<<rows[s].gen, rows[s].owner>>}]
                /\ UNCHANGED granted
<1> DEFINE Quiet == UNCHANGED <<rows, granted, settledBy>>
<1>a. ASSUME NEW call \in inflight
      PROVE  /\ call.seq \in Seqs /\ call.owner \in Workers /\ call.now \in 0..clock
             /\ call.now + LeaseDuration \in Nat
  BY LeaseAssumption DEF IInv, TypeOK, LeaseCall, CallsInPast
<1>1. ASSUME NEW c \in Calls, createWaiting(c)
      PROVE  \E s \in Seqs : /\ rows[s] = NoRow /\ Touch(s, NewRow(c))
                             /\ UNCHANGED <<granted, settledBy>>
  BY <1>1 DEF createWaiting, NextSeq, NewRow, Touch, IInv, RowsBound
<1>2. ASSUME NEW s \in Seqs, markReady(s)
      PROVE  /\ rows[s].status = "waiting_approval"
             /\ Touch(s, [rows[s] EXCEPT !.status = "ready"])
             /\ UNCHANGED <<granted, settledBy>>
  BY <1>2 DEF markReady, Touch
<1>3. ASSUME NEW s \in Seqs, cancel(s)
      PROVE  /\ rows[s].status \in Active
             /\ Touch(s, Unleased(rows[s], "cancelled", "none"))
             /\ UNCHANGED <<granted, settledBy>>
  BY <1>3 DEF cancel, Touch
<1>4. ASSUME NEW s \in Seqs, NEW w \in Workers, claim(s, w) \/ claimForExecution(s, w)
      PROVE  Quiet
  BY <1>4 DEF claim, claimForExecution, Start
<1>5. ASSUME NEW g \in granted,
             NEW kind \in {"heartbeat", "release", "complete", "fail"}, present(kind, g)
      PROVE  Quiet
  BY <1>5 DEF present, Start
<1>6. ASSUME NEW call \in inflight, claimRow(call)
      PROVE  \/ Quiet
             \/ \E s \in Seqs, w \in Workers, now \in 0..clock :
                  /\ Claimable(rows[s], now)
                  /\ Touch(s, Claimed(rows[s], w, now + LeaseDuration))
                  /\ granted' = granted \cup {<<s, rows[s].gen + 1, w>>}
                  /\ UNCHANGED settledBy
  BY <1>a, <1>6 DEF claimRow, Write, Touch
<1>7. ASSUME NEW call \in inflight, heartbeatContinuation(call)
      PROVE  \/ Quiet
             \/ \E s \in Seqs, e \in Nat :
                  /\ rows[s].status = "running"
                  /\ Touch(s, Renewed(rows[s], e))
                  /\ UNCHANGED <<granted, settledBy>>
  BY <1>a, <1>7 DEF heartbeatContinuation, Write, MatchesLease, HeldBy, Touch
<1>8. ASSUME NEW call \in inflight, releaseContinuation(call)
      PROVE  \/ Quiet
             \/ \E s \in Seqs : /\ rows[s].status = "running"
                                /\ Touch(s, Unleased(rows[s], "ready", "none"))
                                /\ UNCHANGED <<granted, settledBy>>
  BY <1>a, <1>8 DEF releaseContinuation, Write, MatchesLease, HeldBy, Touch
<1>9. ASSUME NEW call \in inflight, settleContinuation(call)
      PROVE  \/ Quiet
             \/ \E s \in Seqs :
                  /\ rows[s].status = "running"
                  /\ \/ Touch(s, Unleased(rows[s], "completed", "none"))
                     \/ Touch(s, Unleased(rows[s], "failed", SettleFailure))
                  /\ settledBy' = [settledBy EXCEPT ![s] = {<<rows[s].gen, rows[s].owner>>}]
                  /\ UNCHANGED granted
  <2>1. CASE MatchesLease(call)
    <3>1. /\ rows[call.seq].status = "running"
          /\ call.gen = rows[call.seq].gen /\ call.owner = rows[call.seq].owner
      BY <2>1 DEF MatchesLease, HeldBy
    <3>2. \/ Touch(call.seq, Unleased(rows[call.seq], "completed", "none"))
          \/ Touch(call.seq, Unleased(rows[call.seq], "failed", SettleFailure))
      BY <1>9, <2>1 DEF settleContinuation, Write, Touch
    <3>3. /\ settledBy' =
               [settledBy EXCEPT ![call.seq] = {<<rows[call.seq].gen, rows[call.seq].owner>>}]
          /\ UNCHANGED granted
      BY <1>9, <2>1, <3>1 DEF settleContinuation
    <3> QED
      BY <1>a, <3>1, <3>2, <3>3
  <2>2. CASE ~MatchesLease(call)
    BY <1>9, <2>2 DEF settleContinuation, Write
  <2> QED
    BY <2>1, <2>2
<1>10. ASSUME NEW call \in inflight, Lose(call) PROVE Quiet
  BY <1>10 DEF Lose
<1>11. ASSUME Environment PROVE Quiet
  BY <1>11 DEF Environment, operationTerminal, requestCancellation, markCallRunning,
               decide, revokeAccess, Tick, Unchanged
<1>12. CASE UNCHANGED vars
  BY <1>12 DEF vars
<1> HIDE DEF Quiet
<1>13. Quiet => UNCHANGED <<rows, granted, settledBy>>
  BY DEF Quiet
<1> QED
  BY <1>1, <1>2, <1>3, <1>4, <1>5, <1>6, <1>7, <1>8, <1>9, <1>10, <1>11, <1>12, <1>13
     DEF Next, Repository

(* One row changes per step; its generation and, while its lease is live, its  *)
(* owner's term are kept; a final row is not touched at all.                   *)
LEMMA RowsKept ==
    ASSUME IInv, [Next]_vars, NEW s \in Seqs
    PROVE  /\ rows[s].status \in Terminal => rows'[s] = rows[s]
           /\ rows[s].gen <= rows'[s].gen
           /\ rows[s].status = "running" /\ Live(rows[s], clock)
                 => rows'[s].gen = rows[s].gen
<1>1. /\ rows \in [Seqs -> Row] /\ clock \in Nat
      /\ \A t \in Seqs : rows[t] \in Row /\ rows[t].gen \in Nat /\ rows[t].expires \in Nat
  BY BoundsAssumption DEF IInv, TypeOK, Row
<1> DEFINE Kept == /\ rows[s].status \in Terminal => rows'[s] = rows[s]
                   /\ rows[s].gen <= rows'[s].gen
                   /\ rows[s].status = "running" /\ Live(rows[s], clock)
                         => rows'[s].gen = rows[s].gen
<1>2. CASE UNCHANGED <<rows, granted, settledBy>>
  BY <1>1, <1>2
<1>3. ASSUME NEW t \in Seqs, NEW r, Touch(t, r),
             rows[t].status \notin Terminal, r.gen = rows[t].gen
      PROVE  Kept
  BY <1>1, <1>3 DEF Touch
<1>4. ASSUME NEW t \in Seqs, NEW w \in Workers, NEW now \in 0..clock,
             Claimable(rows[t], now), Touch(t, Claimed(rows[t], w, now + LeaseDuration))
      PROVE  Kept
  <2>1. now + LeaseDuration \in Nat
    BY <1>1, LeaseAssumption
  <2>2. rows'[t].gen = rows[t].gen + 1 /\ (t # s => rows'[s] = rows[s])
    BY <1>1, <1>4, <2>1, ClaimedRow DEF Touch
  <2>3. rows[t].status \notin Terminal
    BY <1>4 DEF Claimable
  <2>4. rows[t].status = "running" => ~Live(rows[t], clock)
    BY <1>1, <1>4 DEF Claimable, Live
  <2> QED
    BY <1>1, <2>2, <2>3, <2>4
<1>5. ASSUME NEW c \in Calls, NEW t \in Seqs, rows[t] = NoRow, Touch(t, NewRow(c))
      PROVE  Kept
  <2>1. NewRow(c).gen = rows[t].gen /\ rows[t].status \notin Terminal
    BY <1>5, CreatedRow DEF NoRow
  <2> QED
    BY <1>3, <1>5, <2>1
<1>6. ASSUME NEW t \in Seqs, rows[t].status = "waiting_approval",
             Touch(t, [rows[t] EXCEPT !.status = "ready"])
      PROVE  Kept
  <2>1. [rows[t] EXCEPT !.status = "ready"].gen = rows[t].gen
    BY <1>1 DEF Row
  <2> QED
    BY <1>3, <1>6, <2>1
<1>7. ASSUME NEW t \in Seqs, NEW e \in Nat, rows[t].status = "running",
             Touch(t, Renewed(rows[t], e))
      PROVE  Kept
  <2>1. Renewed(rows[t], e).gen = rows[t].gen
    BY <1>1, RenewedRow
  <2> QED
    BY <1>3, <1>7, <2>1
<1>8. ASSUME NEW t \in Seqs, rows[t].status \in Active,
             NEW st \in {"ready", "completed", "failed", "cancelled"},
             NEW f \in {"none", SettleFailure}, Touch(t, Unleased(rows[t], st, f))
      PROVE  Kept
  <2>1. Unleased(rows[t], st, f).gen = rows[t].gen
    BY <1>1, UnleasedRow
  <2> QED
    BY <1>3, <1>8, <2>1
<1> HIDE DEF Kept
<1>9. Kept
  BY RowSteps, <1>2, <1>4, <1>5, <1>6, <1>7, <1>8 DEF Kept
<1> QED
  BY <1>9 DEF Kept

(* Final rows never change, generations never go back.                         *)
THEOREM Finality == Spec => FinalRowsKept
<1>1. IInv /\ [Next]_vars =>
        [\A s \in Seqs :
           /\ rows[s].status \in Terminal => rows'[s] = rows[s]
           /\ rows[s].gen <= rows'[s].gen]_vars
  BY RowsKept
<1> QED
  BY <1>1, Inductive, PTL DEF Spec, FinalRowsKept

(* A live lease is not taken over, however stale the claim's clock sample is.  *)
THEOREM LiveLease == Spec => LiveLeaseKept
<1>1. IInv /\ [Next]_vars =>
        [\A s \in Seqs : rows[s].status = "running" /\ Live(rows[s], clock)
                          => rows'[s].gen = rows[s].gen]_vars
  BY RowsKept
<1> QED
  BY <1>1, Inductive, PTL DEF Spec, LiveLeaseKept

-------------------------------------------------------------------------------
(* Refinement: a step on a row is a step on the abstract lease of its sequence *)
(* number.                                                                     *)
LEMMA OutcomeCases ==
    ASSUME NEW row \in Row
    PROVE  /\ row.status \notin Terminal => OutcomeOf(row) = "open"
           /\ row.status = "completed" => OutcomeOf(row) = "completed"
           /\ row.status = "failed" => OutcomeOf(row) = "failed"
           /\ row.status = "cancelled" => OutcomeOf(row) = "abandoned"
  BY DEF OutcomeOf

LEMMA RefinesInit == Init => Lease!Init
  BY DEF Init, Lease!Init, OutcomeOf, NoRow

(* The abstract image of a step that gives row t the fields of r.              *)
LEMMA TouchMap ==
    ASSUME IInv, NEW t \in Seqs, NEW r, Touch(t, r)
    PROVE  /\ [s \in Seqs |-> rows'[s].gen] = [[s \in Seqs |-> rows[s].gen] EXCEPT ![t] = r.gen]
           /\ [s \in Seqs |-> rows'[s].owner] = [[s \in Seqs |-> rows[s].owner] EXCEPT ![t] = r.owner]
           /\ [s \in Seqs |-> OutcomeOf(rows[s])]' =
                [[s \in Seqs |-> OutcomeOf(rows[s])] EXCEPT ![t] = OutcomeOf(r)]
           /\ [s \in Seqs |-> rows[s].gen][t] = rows[t].gen
           /\ [s \in Seqs |-> rows[s].owner][t] = rows[t].owner
           /\ [s \in Seqs |-> OutcomeOf(rows[s])][t] = OutcomeOf(rows[t])
<1>1. /\ \A s \in Seqs : s # t => rows'[s] = rows[s]
      /\ rows'[t] = r
  BY DEF Touch, IInv, TypeOK
<1>2. [s \in Seqs |-> OutcomeOf(rows'[s])] =
        [[s \in Seqs |-> OutcomeOf(rows[s])] EXCEPT ![t] = OutcomeOf(r)]
  BY <1>1
<1>3. [s \in Seqs |-> OutcomeOf(rows[s])]' = [s \in Seqs |-> OutcomeOf(rows'[s])]
  BY DEF OutcomeOf
<1> QED
  BY <1>1, <1>2, <1>3

LEMMA RefinesStep == ASSUME IInv, [Next]_vars PROVE [Lease!Next]_(Lease!vars)
<1>0. \A s \in Seqs : rows[s] \in Row /\ rows[s].owner \in Workers \cup {NoOwner}
  BY DEF IInv, TypeOK, Row
<1>1. CASE UNCHANGED <<rows, granted, settledBy>>
  BY <1>1 DEF Lease!vars
<1>2. ASSUME NEW t \in Seqs, NEW r, Touch(t, r), UNCHANGED <<granted, settledBy>>,
             r.gen = rows[t].gen, r.owner = rows[t].owner,
             OutcomeOf(r) = OutcomeOf(rows[t])
      PROVE  UNCHANGED (Lease!vars)
  <2>1. \A s \in Seqs : /\ rows'[s].gen = rows[s].gen /\ rows'[s].owner = rows[s].owner
                       /\ OutcomeOf(rows'[s]) = OutcomeOf(rows[s])
    BY <1>2 DEF Touch, IInv, TypeOK
  <2>2. /\ [s \in Seqs |-> rows'[s].gen] = [s \in Seqs |-> rows[s].gen]
        /\ [s \in Seqs |-> rows'[s].owner] = [s \in Seqs |-> rows[s].owner]
        /\ [s \in Seqs |-> OutcomeOf(rows'[s])] = [s \in Seqs |-> OutcomeOf(rows[s])]
    BY <2>1
  <2> QED
    BY <1>2, <2>2 DEF Lease!vars, OutcomeOf
<1>3. ASSUME NEW c \in Calls, NEW t \in Seqs, rows[t] = NoRow, Touch(t, NewRow(c)),
             UNCHANGED <<granted, settledBy>>
      PROVE  UNCHANGED (Lease!vars)
  <2>1. /\ NewRow(c).gen = rows[t].gen /\ NewRow(c).owner = rows[t].owner
        /\ OutcomeOf(NewRow(c)) = OutcomeOf(rows[t])
    BY <1>0, <1>3, CreatedRow, OutcomeCases DEF NoRow
  <2> QED
    BY <1>2, <1>3, <2>1
<1>4. ASSUME NEW t \in Seqs, rows[t].status = "waiting_approval",
             Touch(t, [rows[t] EXCEPT !.status = "ready"]),
             UNCHANGED <<granted, settledBy>>
      PROVE  UNCHANGED (Lease!vars)
  <2> DEFINE r == [rows[t] EXCEPT !.status = "ready"]
  <2>1. r \in Row /\ r.status = "ready" /\ r.gen = rows[t].gen /\ r.owner = rows[t].owner
    BY <1>0, ReadyRow DEF Row
  <2>2. OutcomeOf(r) = OutcomeOf(rows[t])
    BY <1>0, <1>4, <2>1, OutcomeCases
  <2> HIDE DEF r
  <2>3. Touch(t, r)
    BY <1>4 DEF r
  <2> QED
    BY <1>2, <1>4, <2>1, <2>2, <2>3
<1>5. ASSUME NEW t \in Seqs, rows[t].status \in Active,
             Touch(t, Unleased(rows[t], "cancelled", "none")),
             UNCHANGED <<granted, settledBy>>
      PROVE  Lease!Abandon(t)
  <2> DEFINE r == Unleased(rows[t], "cancelled", "none")
  <2>1. r \in Row /\ r.status = "cancelled" /\ r.gen = rows[t].gen /\ r.owner = NoOwner
    BY <1>0, UnleasedRow
  <2>2. OutcomeOf(rows[t]) = "open" /\ OutcomeOf(r) = "abandoned"
    BY <1>0, <1>5, <2>1, OutcomeCases
  <2> HIDE DEF r
  <2>3. Touch(t, r)
    BY <1>5 DEF r
  <2>4. [s \in Seqs |-> OutcomeOf(rows[s])][t] = "open"
    BY <2>2
  <2>5. [s \in Seqs |-> OutcomeOf(rows[s])]' =
            [[s \in Seqs |-> OutcomeOf(rows[s])] EXCEPT ![t] = "abandoned"]
    BY <2>2, <2>3, TouchMap DEF OutcomeOf
  <2>6. [s \in Seqs |-> rows[s].owner]' =
            [[s \in Seqs |-> rows[s].owner] EXCEPT ![t] = NoOwner]
    BY <2>1, <2>3, TouchMap
  <2>7. [s \in Seqs |-> rows[s].gen]' = [s \in Seqs |-> rows[s].gen]
    BY <2>1, <2>3 DEF Touch, IInv, TypeOK
  <2> QED
    BY <1>5, <2>4, <2>5, <2>6, <2>7 DEF Lease!Abandon, OutcomeOf
<1>6. ASSUME NEW t \in Seqs, NEW w \in Workers, NEW now \in 0..clock,
             Claimable(rows[t], now), Touch(t, Claimed(rows[t], w, now + LeaseDuration)),
             granted' = granted \cup {<<t, rows[t].gen + 1, w>>}, UNCHANGED settledBy
      PROVE  Lease!Grant(t, w)
  <2> DEFINE r == Claimed(rows[t], w, now + LeaseDuration)
  <2>1. now + LeaseDuration \in Nat
    BY LeaseAssumption DEF IInv, TypeOK
  <2>2. r.status = "running" /\ r.gen = rows[t].gen + 1 /\ r.owner = w
    BY <1>0, <2>1, ClaimedRow
  <2>3. OutcomeOf(rows[t]) = "open" /\ OutcomeOf(r) = "open"
    BY <1>0, <1>6, <2>2 DEF Claimable, OutcomeOf
  <2> HIDE DEF r
  <2>4. Touch(t, r)
    BY <1>6 DEF r
  <2>5. \A s \in Seqs : OutcomeOf(rows'[s]) = OutcomeOf(rows[s])
    BY <2>3, <2>4 DEF Touch, IInv, TypeOK
  <2>6. [s \in Seqs |-> OutcomeOf(rows[s])]' = [s \in Seqs |-> OutcomeOf(rows[s])]
    BY <2>5 DEF OutcomeOf
  <2>7. [s \in Seqs |-> rows[s].gen]' =
            [[s \in Seqs |-> rows[s].gen] EXCEPT ![t] = rows[t].gen + 1]
    BY <2>2, <2>4 DEF Touch, IInv, TypeOK
  <2>8. [s \in Seqs |-> rows[s].owner]' = [[s \in Seqs |-> rows[s].owner] EXCEPT ![t] = w]
    BY <2>2, <2>4 DEF Touch, IInv, TypeOK
  <2>9. /\ [s \in Seqs |-> OutcomeOf(rows[s])][t] = "open"
        /\ [s \in Seqs |-> rows[s].gen][t] = rows[t].gen
    BY <2>3
  <2>10. granted' = granted \cup {<<t, [s \in Seqs |-> rows[s].gen][t] + 1, w>>}
    BY <1>6, <2>9
  <2>11. [s \in Seqs |-> rows[s].gen]' =
           [[s \in Seqs |-> rows[s].gen] EXCEPT ![t] = [s \in Seqs |-> rows[s].gen][t] + 1]
    BY <2>7, <2>9
  <2> QED
    BY <1>6, <2>6, <2>8, <2>9, <2>10, <2>11 DEF Lease!Grant, OutcomeOf
<1>7. ASSUME NEW t \in Seqs, NEW e \in Nat, rows[t].status = "running",
             Touch(t, Renewed(rows[t], e)), UNCHANGED <<granted, settledBy>>
      PROVE  UNCHANGED (Lease!vars)
  <2> DEFINE r == Renewed(rows[t], e)
  <2>1. r \in Row /\ r.status = "running" /\ r.gen = rows[t].gen /\ r.owner = rows[t].owner
    BY <1>0, <1>7, RenewedRow
  <2>2. OutcomeOf(r) = OutcomeOf(rows[t])
    BY <1>0, <1>7, <2>1, OutcomeCases
  <2> HIDE DEF r
  <2>3. Touch(t, r)
    BY <1>7 DEF r
  <2> QED
    BY <1>2, <1>7, <2>1, <2>2, <2>3
<1>8. ASSUME NEW t \in Seqs, rows[t].status = "running",
             Touch(t, Unleased(rows[t], "ready", "none")), UNCHANGED <<granted, settledBy>>
      PROVE  Lease!Yield(t)
  <2> DEFINE r == Unleased(rows[t], "ready", "none")
  <2>1. r \in Row /\ r.status = "ready" /\ r.gen = rows[t].gen /\ r.owner = NoOwner
    BY <1>0, UnleasedRow
  <2>2. OutcomeOf(r) = OutcomeOf(rows[t])
    BY <1>0, <1>8, <2>1, OutcomeCases
  <2>3. rows[t].owner # NoOwner
    BY <1>8 DEF IInv, RowChecks, LeaseCheck
  <2> HIDE DEF r
  <2>4. Touch(t, r)
    BY <1>8 DEF r
  <2>5. \A s \in Seqs : OutcomeOf(rows'[s]) = OutcomeOf(rows[s]) /\ rows'[s].gen = rows[s].gen
    BY <2>1, <2>2, <2>4 DEF Touch, IInv, TypeOK
  <2>6. [s \in Seqs |-> OutcomeOf(rows[s])]' = [s \in Seqs |-> OutcomeOf(rows[s])]
    BY <2>5 DEF OutcomeOf
  <2>7. [s \in Seqs |-> rows[s].gen]' = [s \in Seqs |-> rows[s].gen]
    BY <2>5
  <2>8. [s \in Seqs |-> rows[s].owner]' = [[s \in Seqs |-> rows[s].owner] EXCEPT ![t] = NoOwner]
    BY <2>1, <2>4, TouchMap
  <2> QED
    BY <1>8, <2>3, <2>6, <2>7, <2>8 DEF Lease!Yield, OutcomeOf
<1>9. ASSUME NEW t \in Seqs, rows[t].status = "running", NEW r,
             \/ r = Unleased(rows[t], "completed", "none")
             \/ r = Unleased(rows[t], "failed", SettleFailure),
             Touch(t, r),
             settledBy' = [settledBy EXCEPT ![t] = {<<rows[t].gen, rows[t].owner>>}],
             UNCHANGED granted
      PROVE  Lease!Finish(t, rows[t].owner, OutcomeOf(r)) /\ OutcomeOf(r) \in Lease!Finished
                /\ rows[t].owner \in Workers
  <2>1. r \in Row /\ r.status \in {"completed", "failed"} /\ r.gen = rows[t].gen
        /\ r.owner = NoOwner
    BY <1>0, <1>9, UnleasedRow
  <2>2. OutcomeOf(rows[t]) = "open" /\ OutcomeOf(r) \in {"completed", "failed"}
    BY <1>0, <1>9, <2>1, OutcomeCases
  <2>3. rows[t].owner \in Workers
    BY <1>0, <1>9 DEF IInv, RowChecks, LeaseCheck
  <2>4. [s \in Seqs |-> OutcomeOf(rows[s])]' =
            [[s \in Seqs |-> OutcomeOf(rows[s])] EXCEPT ![t] = OutcomeOf(r)]
    BY <1>9, TouchMap DEF OutcomeOf
  <2>5. [s \in Seqs |-> rows[s].owner]' = [[s \in Seqs |-> rows[s].owner] EXCEPT ![t] = NoOwner]
    BY <1>9, <2>1, TouchMap
  <2>6. [s \in Seqs |-> rows[s].gen]' = [s \in Seqs |-> rows[s].gen]
    BY <1>9, <2>1 DEF Touch, IInv, TypeOK
  <2>7. /\ [s \in Seqs |-> OutcomeOf(rows[s])][t] = "open"
        /\ [s \in Seqs |-> rows[s].gen][t] = rows[t].gen
        /\ [s \in Seqs |-> rows[s].owner][t] = rows[t].owner
    BY <2>2
  <2>8. Lease!Finish(t, rows[t].owner, OutcomeOf(r))
    BY <1>9, <2>4, <2>5, <2>6, <2>7 DEF Lease!Finish, OutcomeOf
  <2> QED
    BY <2>2, <2>3, <2>8 DEF Lease!Finished
<1> QED
  BY RowSteps, <1>1, <1>3, <1>4, <1>5, <1>6, <1>7, <1>8, <1>9 DEF Lease!Next

(* The repository implements the fenced lease: initial states map to initial   *)
(* states, every step to an abstract step or a stutter.                        *)
THEOREM Refinement == Spec => ImplementsFencedLease
<1>1. Init => Lease!Init
  BY RefinesInit
<1>2. IInv /\ [Next]_vars => [Lease!Next]_(Lease!vars)
  BY RefinesStep
<1> QED
  BY <1>1, <1>2, Inductive, PTL DEF Spec, ImplementsFencedLease, Lease!Spec
===============================================================================

--------------------------- MODULE ToolKernel_proofs ---------------------------
(* Theorems about the tool kernel and its ledgers, for any number of processes, *)
(* requests and faults.                                                         *)
EXTENDS ToolKernel, TLAPS

USE KernelAssumption


-------------------------------------------------------------------------------
(* What the helpers of the actions do to an entry and to a row.                 *)

LEMMA GoesEntry ==
    ASSUME kernel \in [Kernels -> Entries], NEW k \in Kernels, NEW s \in Stages, Goes(k, s)
    PROVE  /\ kernel' \in [Kernels -> Entries]
           /\ kernel'[k].stage = s
           /\ kernel'[k].started = kernel[k].started /\ kernel'[k].effect = kernel[k].effect
           /\ kernel'[k].code = kernel[k].code
           /\ \A l \in Kernels \ {k} : kernel'[l] = kernel[l]
  BY DEF Goes, Entries

LEMMA AnswersEntry ==
    ASSUME kernel \in [Kernels -> Entries], NEW k \in Kernels,
           NEW c \in Codes, NEW r \in BOOLEAN, Answers(k, c, r)
    PROVE  /\ kernel' \in [Kernels -> Entries]
           /\ kernel'[k].stage = "answered"
           /\ kernel'[k].started = kernel[k].started /\ kernel'[k].effect = kernel[k].effect
           /\ \A l \in Kernels \ {k} : kernel'[l] = kernel[l]
<1> DEFINE entry == [kernel[k] EXCEPT !.stage = "answered", !.code = c, !.retryable = r]
<1>1. entry \in Entries
  BY DEF Entries, Stages
<1>2. entry.stage = "answered" /\ entry.started = kernel[k].started /\ entry.effect = kernel[k].effect
  BY DEF Entries
<1>3. kernel' = [kernel EXCEPT ![k] = entry]
  BY DEF Answers
<1> HIDE DEF entry
<1>4. QED
  BY <1>1, <1>2, <1>3

LEMMA FailsEntry ==
    ASSUME kernel \in [Kernels -> Entries], NEW k \in Kernels, NEW c \in Codes, Fails(k, c)
    PROVE  /\ kernel' \in [Kernels -> Entries]
           /\ kernel'[k].stage = IF kernel[k].effect THEN "failEffect" ELSE "failCall"
           /\ kernel'[k].started = kernel[k].started /\ kernel'[k].effect = kernel[k].effect
           /\ \A l \in Kernels \ {k} : kernel'[l] = kernel[l]
<1> DEFINE stage == IF kernel[k].effect THEN "failEffect" ELSE "failCall"
           entry == [kernel[k] EXCEPT !.stage = stage, !.code = c]
<1>1. stage \in Stages
  BY DEF Stages
<1>2. kernel' = [kernel EXCEPT ![k] = entry]
  BY DEF Fails
<1> HIDE DEF stage
<1>3. entry \in Entries
  BY <1>1 DEF Entries
<1>4. entry.stage = stage /\ entry.started = kernel[k].started /\ entry.effect = kernel[k].effect
  BY DEF Entries
<1> HIDE DEF entry
<1>5. QED
  BY <1>2, <1>3, <1>4 DEF stage

LEMMA SettledRow ==
    ASSUME call \in Calls, NEW s \in Settled, NEW c \in Codes, NEW fate
    PROVE  LET row == Writes(fate, call, settle(call, s, c)) IN
           /\ row \in Calls
           /\ \/ row = call
              \/ call.status = "running" /\ row.status = s /\ row.code = c
  BY DEF Writes, settle, Calls, Settled

LEMMA Counted ==
    ASSUME MaxFaults \in Nat, faults \in 0..MaxFaults, NEW fate, Meets(fate)
    PROVE  faults' \in 0..MaxFaults
  BY DEF Meets

LEMMA RouteInv ==
    ASSUME IInv, NEW k \in Kernels, Route(k) PROVE IInv'
<1> USE DEF Codes, Stages, Settled
<1>1. kernel \in [Kernels -> Entries] /\ call \in Calls /\ At(k, "route")
  BY DEF IInv, TypeOK, Route
<1>2. CASE Goes(k, IF adapter.risky THEN "prepare" ELSE "mark") /\ UNCHANGED <<call, faults>>
  <2>1. /\ kernel' \in [Kernels -> Entries]
        /\ kernel'[k].stage = IF adapter.risky THEN "prepare" ELSE "mark"
        /\ kernel'[k].started = kernel[k].started /\ kernel'[k].effect = kernel[k].effect
        /\ \A l \in Kernels \ {k} : kernel'[l] = kernel[l]
    BY <1>1, <1>2, GoesEntry
  <2>2. QED
    BY <1>1, <1>2, <2>1, SMTT(60) DEF Route, At, IInv, TypeOK, StageOK, DispatchedOnce,
       LedgersAreHonest, Executing, Admitted
<1>3. CASE \E fate \in Fates :
             /\ Meets(fate)
             /\ call' = Writes(fate, call, settle(call, "failed", "tool_cancelled"))
             /\ IF fate = "ok" THEN Answers(k, "tool_cancelled", FALSE)
                ELSE Answers(k, "ledger_unavailable", TRUE)
  <2>1. faults' \in 0..MaxFaults
    BY <1>3, Counted DEF IInv, TypeOK
  <2>2. /\ call' \in Calls
        /\ \/ call' = call
           \/ call.status = "running" /\ call'.status = "failed" /\ call'.code = "tool_cancelled"
    BY <1>1, <1>3, SettledRow
  <2>3. /\ kernel' \in [Kernels -> Entries]
        /\ kernel'[k].stage = "answered"
        /\ kernel'[k].started = kernel[k].started /\ kernel'[k].effect = kernel[k].effect
        /\ \A l \in Kernels \ {k} : kernel'[l] = kernel[l]
    BY <1>1, <1>3, AnswersEntry
  <2>4. QED
    BY <1>1, <2>1, <2>2, <2>3, SMTT(60) DEF Route, At, IInv, TypeOK, StageOK, DispatchedOnce,
       LedgersAreHonest, Executing, Admitted
<1>4. QED
  BY <1>2, <1>3 DEF Route


LEMMA Concludes ==
    ASSUME IInv, NEW k \in Kernels, NEW s \in Settled, NEW c \in Codes, NEW fate,
           call' = Writes(fate, call, settle(call, s, c)),
           faults' \in 0..MaxFaults,
           UNCHANGED <<adapter, operation, effect, remote, dispatches, resolver, verdict>>,
           kernel' \in [Kernels -> Entries],
           kernel'[k].stage \in {"answered", "failEffect", "failCall"},
           kernel'[k].stage # "answered" => kernel[k].stage = "close",
           kernel'[k].started = kernel[k].started, kernel'[k].effect = kernel[k].effect,
           kernel'[k].stage = "failEffect" => kernel[k].effect,
           \A l \in Kernels \ {k} : kernel'[l] = kernel[l],
           kernel[k].stage \in Admitted,
           adapter.write => /\ s = "failed" /\ c # "invalid_output" => dispatches = 0
                            /\ s = "succeeded" \/ c = "invalid_output" => effect = "committed"
    PROVE  IInv'
<1> USE DEF Settled
<1>1. call \in Calls /\ TypeOK
  BY DEF IInv, TypeOK
<1>2. /\ call' \in Calls
      /\ \/ call' = call
         \/ call.status = "running" /\ call'.status = s /\ call'.code = c
  BY <1>1, SettledRow
<1>3. TypeOK'
  BY <1>1, <1>2 DEF TypeOK
<1>4. StageOK(k)'
  BY <1>1, <1>2 DEF IInv, TypeOK, StageOK, Executing, Admitted
<1>5. ASSUME NEW l \in Kernels, l # k PROVE StageOK(l)'
  <2>1. StageOK(l) /\ kernel'[l] = kernel[l]
    BY <1>5 DEF IInv
  <2>2. kernel[l].stage \notin Executing \/ call' = call
    BY <1>2, <1>5 DEF IInv, Executing, Admitted
  <2>3. kernel[l].stage = "route" /\ ~adapter.risky => call' = call
    BY <1>2, <1>5 DEF IInv, Executing, Admitted
  <2>4. QED
    BY <1>2, <2>1, <2>2, <2>3 DEF StageOK, Executing
<1>6. LedgersAreHonest'
  BY <1>2 DEF IInv, LedgersAreHonest
<1>7. QED
  BY <1>2, <1>3, <1>4, <1>5, <1>6 DEF IInv, DispatchedOnce, Executing, Admitted, Calls


\* A process that is refused, or takes up a risky call again: no row changes.
LEMMA Silent ==
    ASSUME IInv, NEW k \in Kernels,
           faults' \in 0..MaxFaults,
           UNCHANGED <<adapter, operation, call, effect, remote, dispatches, resolver, verdict>>,
           kernel' \in [Kernels -> Entries],
           kernel[k].stage = "create",
           kernel'[k].stage = "answered"
             \/ (kernel'[k].stage = "route" /\ call.status = "pending" /\ adapter.risky),
           kernel'[k].started = kernel[k].started, kernel'[k].effect = kernel[k].effect,
           \A l \in Kernels \ {k} : kernel'[l] = kernel[l]
    PROVE  IInv'
<1>1. TypeOK'
  BY DEF IInv, TypeOK
<1>2. StageOK(k)'
  BY DEF IInv, StageOK, Executing
<1>3. \A l \in Kernels \ {k} : StageOK(l)'
  BY DEF IInv, StageOK
<1>4. \A l \in Kernels : kernel'[l].stage \in Executing => kernel[l].stage \in Executing
  BY DEF Executing
<1>5. \A l \in Kernels : kernel'[l].stage \in Admitted =>
        kernel[l].stage \in Admitted \/ (call.status = "pending" /\ adapter.risky)
  BY DEF Executing, Admitted
<1>6. QED
  BY <1>1, <1>2, <1>3, <1>4, <1>5 DEF IInv, DispatchedOnce, LedgersAreHonest

\* The row is created: whoever created it, if anyone learns of it, alone goes on.
LEMMA Created ==
    ASSUME IInv, NEW k \in Kernels,
           faults' \in 0..MaxFaults,
           UNCHANGED <<adapter, operation, effect, remote, dispatches, resolver, verdict>>,
           call.status = "absent",
           call' \in Calls, call'.status = "pending", call'.code = call.code,
           kernel' \in [Kernels -> Entries],
           kernel[k].stage = "create",
           kernel'[k].stage \in {"answered", "route"},
           kernel'[k].started = kernel[k].started, kernel'[k].effect = kernel[k].effect,
           \A l \in Kernels \ {k} : kernel'[l] = kernel[l]
    PROVE  IInv'
<1>1. TypeOK'
  BY DEF IInv, TypeOK
<1>2. /\ dispatches = 0 /\ effect = "absent" /\ call.code = "none"
      /\ \A l \in Kernels : kernel[l].stage \notin Admitted
  BY DEF IInv
<1>3. StageOK(k)'
  BY <1>2 DEF IInv, StageOK, Executing
<1>4. \A l \in Kernels \ {k} : StageOK(l)'
  BY <1>2 DEF IInv, StageOK, Executing, Admitted
<1>5. \A l \in Kernels : kernel'[l].stage \notin Executing
  BY <1>2 DEF Executing, Admitted
<1>6. QED
  BY <1>1, <1>2, <1>3, <1>4, <1>5 DEF IInv, DispatchedOnce, LedgersAreHonest

LEMMA EvictInv ==
    ASSUME IInv, NEW k \in Kernels, Evict(k) PROVE IInv'
  BY SMTT(60) DEF Evict, At, NoEntry,
         IInv, TypeOK, StageOK, DispatchedOnce, LedgersAreHonest,
         Executing, Admitted, uncertainWrite, Calls, Codes, Settled, Entries, Stages

LEMMA PrepareInv ==
    ASSUME IInv, NEW k \in Kernels, Prepare(k) PROVE IInv'
  BY SMTT(60) DEF Prepare, At, Goes, Answers,
         IInv, TypeOK, StageOK, DispatchedOnce, LedgersAreHonest,
         Executing, Admitted, uncertainWrite, Calls, Codes, Settled, Entries, Stages

LEMMA MarkRunningInv ==
    ASSUME IInv, NEW k \in Kernels, MarkRunning(k) PROVE IInv'
  BY SMTT(150) DEF MarkRunning, At, Goes, Fails, Fates, Meets, Writes, markRunning,
         IInv, TypeOK, StageOK, DispatchedOnce, LedgersAreHonest,
         Executing, Admitted, uncertainWrite, Calls, Codes, Settled, Entries, Stages

LEMMA IntendInv ==
    ASSUME IInv, NEW k \in Kernels, Intend(k) PROVE IInv'
  BY SMTT(60) DEF Intend, At, Fails, Fates, Meets, Writes, canIntend,
         IInv, TypeOK, StageOK, DispatchedOnce, LedgersAreHonest,
         Executing, Admitted, uncertainWrite, Calls, Codes, Settled, Entries, Stages

LEMMA InvokeInv ==
    ASSUME IInv, NEW k \in Kernels, Invoke(k) PROVE IInv'
  BY SMTT(60) DEF Invoke, At,
         IInv, TypeOK, StageOK, DispatchedOnce, LedgersAreHonest,
         Executing, Admitted, uncertainWrite, Calls, Codes, Settled, Entries, Stages

LEMMA FailEffectInv ==
    ASSUME IInv, NEW k \in Kernels, FailEffect(k) PROVE IInv'
  BY SMTT(60) DEF FailEffect, At, Goes, Fates, Meets, Writes, settleEffect,
         IInv, TypeOK, StageOK, DispatchedOnce, LedgersAreHonest,
         Executing, Admitted, uncertainWrite, Calls, Codes, Settled, Entries, Stages

LEMMA DiesInv ==
    ASSUME IInv, NEW k \in Kernels, Dies(k) PROVE IInv'
  BY SMTT(60) DEF Dies, At, NoEntry,
         IInv, TypeOK, StageOK, DispatchedOnce, LedgersAreHonest,
         Executing, Admitted, uncertainWrite, Calls, Codes, Settled, Entries, Stages


LEMMA ExecuteInv ==
    ASSUME IInv, NEW k \in Kernels, NEW r \in Requests, Execute(k, r) PROVE IInv'
<1> DEFINE entry == [NoEntry EXCEPT !.stage = "create", !.request = r]
<1>1. entry \in Entries /\ entry.stage = "create" /\ ~entry.started /\ ~entry.effect
  BY DEF NoEntry, Entries, Stages, Codes
<1>2. kernel' = [kernel EXCEPT ![k] = entry] /\ UNCHANGED <<adapter, operation, call, effect,
            remote, dispatches, resolver, verdict, faults>>
  BY DEF Execute
<1> HIDE DEF entry
<1>3. QED
  BY <1>1, <1>2, SMTT(60) DEF IInv, TypeOK, StageOK, DispatchedOnce, LedgersAreHonest, Executing, Admitted


LEMMA UnpreparedInv ==
    ASSUME IInv, NEW k \in Kernels, Unprepared(k) PROVE IInv'
<1> USE DEF Codes, Settled
<1>1. /\ kernel \in [Kernels -> Entries] /\ adapter.prepares \in BOOLEAN
      /\ kernel[k].stage = "unprepared" /\ adapter.risky /\ dispatches = 0
  BY DEF IInv, TypeOK, StageOK, Unprepared, At
<1>2. PICK fate \in Fates, code \in {"approval_preparation_failed", "tool_cancelled"} :
        /\ Meets(fate)
        /\ call' = Writes(fate, call, settle(call, "failed", code))
        /\ IF fate = "ok"
           THEN Answers(k, code, adapter.prepares /\ code # "tool_cancelled")
           ELSE Answers(k, "ledger_unavailable", TRUE)
  BY DEF Unprepared
<1>3. faults' \in 0..MaxFaults
  BY <1>2, Counted DEF IInv, TypeOK
<1>4. (adapter.prepares /\ code # "tool_cancelled") \in BOOLEAN /\ code \in Codes /\ code # "invalid_output"
  OBVIOUS
<1>5. /\ kernel' \in [Kernels -> Entries]
      /\ kernel'[k].stage = "answered"
      /\ kernel'[k].started = kernel[k].started /\ kernel'[k].effect = kernel[k].effect
      /\ \A l \in Kernels \ {k} : kernel'[l] = kernel[l]
  BY <1>1, <1>2, <1>4, AnswersEntry
<1>6. QED
  BY <1>1, <1>2, <1>3, <1>4, <1>5, Concludes DEF Unprepared, Admitted

LEMMA CloseCallInv ==
    ASSUME IInv, NEW k \in Kernels, CloseCall(k) PROVE IInv'
<1> USE DEF Codes, Settled
<1> DEFINE s == IF kernel[k].code = "none" THEN "succeeded" ELSE "failed"
<1>1. kernel \in [Kernels -> Entries] /\ kernel[k].code \in Codes
  BY DEF IInv, TypeOK, Entries
<1>2. /\ kernel[k].stage = "close" /\ kernel[k].code \in {"none", "invalid_output"}
      /\ adapter.write => effect = "committed"
  BY DEF IInv, StageOK, CloseCall, At
<1>3. PICK fate \in Fates :
        /\ Meets(fate)
        /\ call' = Writes(fate, call, settle(call, s, kernel[k].code))
        /\ IF fate = "ok" THEN Answers(k, kernel[k].code, FALSE) ELSE Fails(k, "tool_failed")
  BY <1>2 DEF CloseCall
<1>4. faults' \in 0..MaxFaults
  BY <1>3, Counted DEF IInv, TypeOK
<1>5. s \in Settled /\ (s = "failed" => kernel[k].code = "invalid_output")
  BY <1>2
<1> HIDE DEF s
<1>6. CASE Answers(k, kernel[k].code, FALSE)
  <2>1. /\ kernel' \in [Kernels -> Entries]
        /\ kernel'[k].stage = "answered"
        /\ kernel'[k].started = kernel[k].started /\ kernel'[k].effect = kernel[k].effect
        /\ \A l \in Kernels \ {k} : kernel'[l] = kernel[l]
    BY <1>1, <1>6, AnswersEntry
  <2>2. QED
    BY <1>1, <1>2, <1>3, <1>4, <1>5, <2>1, Concludes DEF CloseCall, Admitted, Executing
<1>7. CASE Fails(k, "tool_failed")
  <2>1. /\ kernel' \in [Kernels -> Entries]
        /\ kernel'[k].stage = IF kernel[k].effect THEN "failEffect" ELSE "failCall"
        /\ kernel'[k].started = kernel[k].started /\ kernel'[k].effect = kernel[k].effect
        /\ \A l \in Kernels \ {k} : kernel'[l] = kernel[l]
    BY <1>1, <1>7, FailsEntry
  <2>2. QED
    BY <1>1, <1>2, <1>3, <1>4, <1>5, <2>1, Concludes DEF CloseCall, Admitted, Executing
<1>8. QED
  BY <1>3, <1>6, <1>7

LEMMA FailCallInv ==
    ASSUME IInv, NEW k \in Kernels, FailCall(k) PROVE IInv'
<1> USE DEF Codes, Settled
<1> DEFINE s == IF uncertainWrite(k) THEN "outcome_unknown" ELSE "failed"
           c == failureCode(k)
           again == c \in {"tool_timeout", "tool_cancelled"}
<1>1. kernel \in [Kernels -> Entries] /\ kernel[k].code \in Codes
  BY DEF IInv, TypeOK, Entries
<1>2. kernel[k].stage = "failCall" /\ (~kernel[k].started => dispatches = 0)
  BY DEF IInv, StageOK, FailCall, At, Executing
<1>3. s \in Settled /\ c \in Codes /\ again \in BOOLEAN
  BY <1>1 DEF failureCode
<1>4. adapter.write => /\ s = "failed" => dispatches = 0
                       /\ s # "succeeded" /\ c # "invalid_output"
  BY <1>2 DEF failureCode, uncertainWrite
<1>5. PICK fate \in Fates : Meets(fate) /\ call' = Writes(fate, call, settle(call, s, c))
  BY DEF FailCall
<1>6. Answers(k, c, again)
  BY DEF FailCall
<1>7. faults' \in 0..MaxFaults
  BY <1>5, Counted DEF IInv, TypeOK
<1> HIDE DEF s, c, again
<1>8. /\ kernel' \in [Kernels -> Entries]
      /\ kernel'[k].stage = "answered"
      /\ kernel'[k].started = kernel[k].started /\ kernel'[k].effect = kernel[k].effect
      /\ \A l \in Kernels \ {k} : kernel'[l] = kernel[l]
  BY <1>1, <1>3, <1>6, AnswersEntry
<1>9. QED
  BY <1>2, <1>3, <1>4, <1>5, <1>7, <1>8, Concludes DEF FailCall, Admitted, Executing

LEMMA AwaitsInv ==
    ASSUME IInv, NEW k \in Kernels, Awaits(k) PROVE IInv'
<1> USE DEF Codes, Settled
<1>1. kernel \in [Kernels -> Entries]
  BY DEF IInv, TypeOK
<1>2. CASE \E valid \in BOOLEAN :
            /\ remote = "applied"
            /\ kernel' = [kernel EXCEPT
                 ![k].stage = IF kernel[k].effect THEN "commit" ELSE "close",
                 ![k].code = IF valid THEN "none" ELSE "invalid_output"]
  <2>1. PICK valid \in BOOLEAN :
            kernel' = [kernel EXCEPT
                 ![k].stage = IF kernel[k].effect THEN "commit" ELSE "close",
                 ![k].code = IF valid THEN "none" ELSE "invalid_output"]
    BY <1>2
  <2> DEFINE stage == IF kernel[k].effect THEN "commit" ELSE "close"
             code == IF valid THEN "none" ELSE "invalid_output"
             entry == [kernel[k] EXCEPT !.stage = stage, !.code = code]
  <2>2. stage \in Stages /\ code \in {"none", "invalid_output"}
    BY DEF Stages
  <2>3. kernel' = [kernel EXCEPT ![k] = entry]
    BY <2>1
  <2> HIDE DEF stage, code
  <2>4. entry \in Entries /\ entry.stage = stage /\ entry.code = code
    BY <1>1, <2>2 DEF Entries
  <2>5. entry.started = kernel[k].started /\ entry.effect = kernel[k].effect
    BY <1>1 DEF Entries
  <2> HIDE DEF entry
  <2>6. UNCHANGED <<adapter, operation, call, effect, remote, dispatches, resolver, verdict, faults>>
    BY DEF Awaits
  <2>7. kernel[k].stage = "wait" /\ remote = "applied" /\ kernel[k].effect \in BOOLEAN
    BY <1>1, <1>2 DEF Awaits, At, Entries
  <2>71. (stage = "commit" /\ kernel[k].effect) \/ (stage = "close" /\ ~kernel[k].effect)
    BY <2>7, Zenon DEF stage
  <2>8. TypeOK'
    BY <1>1, <2>3, <2>4, <2>6 DEF IInv, TypeOK
  <2>9. StageOK(k)'
    BY <1>1, <2>2, <2>3, <2>4, <2>5, <2>6, <2>7, <2>71 DEF IInv, StageOK, Executing
  <2>10. \A l \in Kernels : StageOK(l)'
    BY <1>1, <2>3, <2>6, <2>9 DEF IInv, StageOK
  <2>11. \A l \in Kernels : kernel'[l].stage \in Executing => kernel[l].stage \in Executing
    BY <1>1, <2>3, <2>7 DEF Executing
  <2>12. \A l \in Kernels : kernel'[l].stage \in Admitted => kernel[l].stage \in Admitted
    BY <1>1, <2>3, <2>7 DEF Executing, Admitted
  <2>13. QED
    BY <2>6, <2>8, <2>10, <2>11, <2>12 DEF IInv, DispatchedOnce, LedgersAreHonest
<1>3. CASE \E error \in {"tool_failed", "tool_timeout", "tool_cancelled"} : Fails(k, error)
  <2>1. /\ kernel' \in [Kernels -> Entries]
        /\ kernel'[k].stage = IF kernel[k].effect THEN "failEffect" ELSE "failCall"
        /\ kernel'[k].started = kernel[k].started /\ kernel'[k].effect = kernel[k].effect
        /\ \A l \in Kernels \ {k} : kernel'[l] = kernel[l]
    BY <1>1, <1>3, FailsEntry
  <2>2. QED
    BY <1>1, <2>1, SMTT(60) DEF Awaits, At, IInv, TypeOK, StageOK, DispatchedOnce,
     LedgersAreHonest, Executing, Admitted
<1>4. QED
  BY <1>2, <1>3 DEF Awaits

LEMMA CommitEffectInv ==
    ASSUME IInv, NEW k \in Kernels, CommitEffect(k) PROVE IInv'
<1> USE DEF Codes, Stages
<1>1. kernel \in [Kernels -> Entries] /\ At(k, "commit") /\ StageOK(k) /\ TypeOK
  BY DEF IInv, TypeOK, CommitEffect
<1>2. PICK fate \in Fates :
        /\ Meets(fate)
        /\ effect' = Writes(fate, effect, settleEffect("committed"))
        /\ IF fate = "ok" /\ effect \in {"intended", "committed"} THEN Goes(k, "close")
           ELSE Fails(k, "tool_failed")
  BY DEF CommitEffect
<1>3. faults' \in 0..MaxFaults
  BY <1>1, <1>2, Counted DEF TypeOK
<1>4. adapter.write /\ effect = "intended" /\ effect' \in {"intended", "committed"}
  BY <1>1, <1>2 DEF StageOK, At, Writes, settleEffect, TypeOK
<1>5. CASE Goes(k, "close") /\ effect' = "committed"
  <2>1. /\ kernel' \in [Kernels -> Entries]
        /\ kernel'[k].stage = "close"
        /\ kernel'[k].started = kernel[k].started /\ kernel'[k].effect = kernel[k].effect
        /\ kernel'[k].code = kernel[k].code
        /\ \A l \in Kernels \ {k} : kernel'[l] = kernel[l]
    BY <1>1, <1>5, GoesEntry
  <2>2. UNCHANGED <<adapter, operation, call, remote, dispatches, resolver, verdict>>
    BY DEF CommitEffect
  <2>3. TypeOK'
    BY <1>1, <1>3, <1>4, <2>1, <2>2 DEF TypeOK
  <2>4. remote = "applied" /\ call.status = "running" /\ kernel[k].started /\ ~adapter.risky
    BY <1>1 DEF StageOK, At, IInv, Executing
  <2>5. StageOK(k)'
    BY <1>1, <1>5, <2>1, <2>2 DEF StageOK, At, Executing
  <2>6. \A l \in Kernels \ {k} : kernel[l].stage \notin Admitted
    BY <1>1, <2>4 DEF IInv, At, Executing, Admitted
  <2>7. \A l \in Kernels \ {k} : StageOK(l)'
    BY <2>1, <2>2, <2>6 DEF IInv, StageOK, Executing, Admitted
  <2>8. LedgersAreHonest'
    BY <1>5, <2>2, <2>4 DEF IInv, LedgersAreHonest
  <2>9. QED
    BY <1>1, <2>1, <2>2, <2>3, <2>4, <2>5, <2>6, <2>7, <2>8 DEF IInv, At, DispatchedOnce, Executing, Admitted
<1>6. CASE Fails(k, "tool_failed")
  <2>1. /\ kernel' \in [Kernels -> Entries]
        /\ kernel'[k].stage = IF kernel[k].effect THEN "failEffect" ELSE "failCall"
        /\ kernel'[k].started = kernel[k].started /\ kernel'[k].effect = kernel[k].effect
        /\ \A l \in Kernels \ {k} : kernel'[l] = kernel[l]
    BY <1>1, <1>6, FailsEntry
  <2>2. QED
    BY <1>1, <1>3, <1>4, <2>1, SMTT(60) DEF CommitEffect, At, IInv, TypeOK, StageOK, DispatchedOnce,
     LedgersAreHonest, Executing, Admitted
<1>7. QED
  BY <1>2, <1>4, <1>5, <1>6 DEF Writes, settleEffect


LEMMA CreateOrGetInv ==
    ASSUME IInv, NEW k \in Kernels, CreateOrGet(k) PROVE IInv'
<1> USE DEF Codes, Stages
<1>1. /\ kernel \in [Kernels -> Entries] /\ call \in Calls /\ TypeOK
      /\ kernel[k].stage = "create" /\ kernel[k].request \in Requests \cup {NoRequest}
      /\ ~kernel[k].started /\ ~kernel[k].effect
      /\ UNCHANGED <<adapter, operation, effect, remote, dispatches, resolver, verdict>>
  BY DEF IInv, TypeOK, StageOK, CreateOrGet, At, Entries
<1>2. PICK fate \in Fates :
        /\ Meets(fate)
        /\ IF call.status = "absent"
           THEN /\ call' = Writes(IF operation THEN fate ELSE "error", call,
                                  [call EXCEPT !.status = "pending",
                                               !.request = kernel[k].request])
                /\ IF fate = "ok" /\ operation
                   THEN Goes(k, "route")
                   ELSE Answers(k, "ledger_unavailable", TRUE)
           ELSE /\ UNCHANGED call
                /\ CASE fate # "ok" -> Answers(k, "ledger_unavailable", TRUE)
                     [] fate = "ok" /\ call.request # kernel[k].request ->
                            Answers(k, "idempotency_conflict", FALSE)
                     [] OTHER ->
                            IF ~refusesReplay THEN Goes(k, "route")
                            ELSE Answers(k, IF call.status \in {"pending", "running"}
                                            THEN "execution_in_progress"
                                            ELSE "result_replay_required", FALSE)
  BY DEF CreateOrGet
<1>3. faults' \in 0..MaxFaults
  BY <1>1, <1>2, Counted DEF TypeOK
<1> DEFINE row == [call EXCEPT !.status = "pending", !.request = kernel[k].request]
<1>4. row \in Calls /\ row.status = "pending" /\ row.code = call.code
  BY <1>1 DEF Calls
<1>5. call' = call \/ (call' = row /\ call.status = "absent")
  BY <1>2 DEF Writes
<1>6. ASSUME NEW c \in Codes, NEW r \in BOOLEAN, Answers(k, c, r) PROVE IInv'
  <2>1. /\ kernel' \in [Kernels -> Entries]
        /\ kernel'[k].stage = "answered"
        /\ kernel'[k].started = kernel[k].started /\ kernel'[k].effect = kernel[k].effect
        /\ \A l \in Kernels \ {k} : kernel'[l] = kernel[l]
    BY <1>1, <1>6, AnswersEntry
  <2>2. CASE call' = call
    BY <1>1, <1>3, <2>1, <2>2, Silent
  <2>3. CASE call' = row /\ call.status = "absent"
    BY <1>1, <1>3, <1>4, <2>1, <2>3, Created
  <2>4. QED
    BY <1>5, <2>2, <2>3
<1>7. ASSUME Goes(k, "route") PROVE IInv'
  <2>1. /\ kernel' \in [Kernels -> Entries]
        /\ kernel'[k].stage = "route"
        /\ kernel'[k].started = kernel[k].started /\ kernel'[k].effect = kernel[k].effect
        /\ \A l \in Kernels \ {k} : kernel'[l] = kernel[l]
    BY <1>1, <1>7, GoesEntry
  <2>2. CASE call.status = "absent" /\ call' = row
    BY <1>1, <1>3, <1>4, <2>1, <2>2, Created
  <2>3. CASE call.status = "pending" /\ adapter.risky /\ call' = call
    BY <1>1, <1>3, <2>1, <2>3, Silent
  <2>4. (call.status = "absent" /\ call' = row) \/ (call.status = "pending" /\ adapter.risky /\ call' = call)
    <3>1. kernel'[k].stage # "answered"
      BY <1>1, <2>1
    <3>2. \A c \in Codes, r \in BOOLEAN : ~Answers(k, c, r)
      BY <1>1, <3>1, AnswersEntry
    <3>3. QED
      BY <1>1, <1>2, <3>2 DEF Writes, refusesReplay
  <2>5. QED
    BY <2>2, <2>3, <2>4
<1>8. QED
  BY <1>2, <1>6, <1>7


LEMMA EnvironmentInv ==
    ASSUME IInv, Lands \/ Terminates PROVE IInv'
<1>1. /\ UNCHANGED <<adapter, call, effect, dispatches, kernel, resolver, verdict, faults>>
      /\ operation' \in BOOLEAN /\ remote' \in {"none", "flying", "applied", "dropped"}
      /\ remote = "applied" => remote' = "applied"
  BY DEF IInv, TypeOK, Lands, Terminates
<1>2. TypeOK'
  BY <1>1 DEF IInv, TypeOK
<1>3. \A k \in Kernels : StageOK(k)'
  BY <1>1 DEF IInv, StageOK
<1>4. QED
  BY <1>1, <1>2, <1>3 DEF IInv, DispatchedOnce, LedgersAreHonest

LEMMA ReconcilerInv ==
    ASSUME IInv, NEW s \in Sources, Verify(s) \/ Record(s) PROVE IInv'
<1>1. UNCHANGED <<adapter, operation, call, effect, remote, dispatches, kernel>>
  BY DEF Verify, Record
<1>2. TypeOK'
  <2>1. CASE Verify(s)
    BY <1>1, <2>1 DEF IInv, TypeOK, Verify, Resolutions
  <2>2. CASE Record(s)
    <3>1. record(s) \in Verdicts \cup {NoVerdict}
      BY <2>2 DEF IInv, TypeOK, Record, record, Verdicts
    <3>2. verdict' \in Verdicts \cup {NoVerdict}
      BY <2>2, <3>1 DEF IInv, TypeOK, Record, Writes
    <3>3. faults' \in 0..MaxFaults
      BY <2>2, Counted DEF IInv, TypeOK, Record
    <3>4. QED
      BY <1>1, <2>2, <3>2, <3>3 DEF IInv, TypeOK, Record
  <2>3. QED
    BY <2>1, <2>2
<1>3. \A k \in Kernels : StageOK(k)'
  BY <1>1 DEF IInv, StageOK
<1>4. QED
  BY <1>1, <1>2, <1>3 DEF IInv, DispatchedOnce, LedgersAreHonest

-------------------------------------------------------------------------------
(* The theorems.                                                                *)

LEMMA InitInv == Init => IInv
  BY DEF Init, IInv, TypeOK, StageOK, DispatchedOnce, LedgersAreHonest, Calls, Codes,
         Entries, Stages, NoEntry, Executing, Admitted, Sources, Verdicts, NoVerdict

LEMMA NextInv == IInv /\ [Next]_vars => IInv'
<1> SUFFICES ASSUME IInv, [Next]_vars PROVE IInv'
  OBVIOUS
<1>1. ASSUME NEW k \in Kernels, NEW r \in Requests, Execute(k, r) PROVE IInv'
  BY <1>1, ExecuteInv
<1>2. ASSUME NEW k \in Kernels,
             \/ Evict(k) \/ CreateOrGet(k) \/ Route(k) \/ Prepare(k) \/ Unprepared(k)
             \/ MarkRunning(k) \/ Intend(k) \/ Invoke(k) \/ Awaits(k) \/ CommitEffect(k)
             \/ CloseCall(k) \/ FailEffect(k) \/ FailCall(k) \/ Dies(k)
      PROVE IInv'
  BY <1>2, EvictInv, CreateOrGetInv, RouteInv, PrepareInv, UnpreparedInv, MarkRunningInv,
     IntendInv, InvokeInv, AwaitsInv, CommitEffectInv, CloseCallInv, FailEffectInv,
     FailCallInv, DiesInv
<1>3. ASSUME NEW s \in Sources, Verify(s) \/ Record(s) PROVE IInv'
  BY <1>3, ReconcilerInv
<1>4. ASSUME Lands \/ Terminates PROVE IInv'
  BY <1>4, EnvironmentInv
<1>5. CASE UNCHANGED vars
  <2>1. TypeOK'
    BY <1>5 DEF IInv, TypeOK, vars
  <2>2. \A k \in Kernels : StageOK(k)'
    BY <1>5 DEF IInv, StageOK, vars
  <2>3. QED
    BY <1>5, <2>1, <2>2 DEF IInv, DispatchedOnce, LedgersAreHonest, vars
<1>6. QED
  BY <1>1, <1>2, <1>3, <1>4, <1>5 DEF Next

\* The ledger of tool calls admits one process to a call whose tool needs no approval,
\* and what that process knows of the ledgers is what they hold
\* (agent-tool-call-repository.ts, tool-effect-repository.ts, adapter-invocation.ts).
THEOREM KernelInvariant == Spec => []IInv
<1>1. Init => IInv
  BY InitInv
<1>2. IInv /\ [Next]_vars => IInv'
  BY NextInv
<1>3. QED
  BY <1>1, <1>2, PTL DEF Spec

\* However many processes are asked to execute a call, and whatever acknowledgements
\* and processes are lost, the tool is invoked at most once (service.ts:36-40).
THEOREM KernelDispatchesOnce == Spec => []DispatchedOnce
<1>1. IInv => DispatchedOnce
  BY DEF IInv
<1>2. QED
  BY <1>1, KernelInvariant, PTL

\* A write that may have happened is on record as unknown or committed, never as failed
\* (adapter-invocation.ts:19-188, execution-control.ts).
THEOREM KernelLedgersAreHonest == Spec => []LedgersAreHonest
<1>1. IInv => LedgersAreHonest
  BY DEF IInv
<1>2. QED
  BY <1>1, KernelInvariant, PTL


LEMMA NextStands == Next => Stand
<1> SUFFICES ASSUME Next PROVE Stand
  OBVIOUS
<1> USE DEF Stand, Settled, Writes
<1>1. ASSUME NEW k \in Kernels, NEW r \in Requests, Execute(k, r) PROVE Stand
  BY <1>1 DEF Execute
<1>2. ASSUME NEW k \in Kernels, Evict(k) \/ Prepare(k) \/ Invoke(k) \/ Awaits(k) \/ Dies(k) PROVE Stand
  BY <1>2 DEF Evict, Prepare, Invoke, Awaits, Dies
<1>3. ASSUME NEW k \in Kernels, CreateOrGet(k) PROVE Stand
  BY <1>3 DEF CreateOrGet
<1>4. ASSUME NEW k \in Kernels, Route(k) \/ Unprepared(k) \/ CloseCall(k) \/ FailCall(k) PROVE Stand
  BY <1>4 DEF Route, Unprepared, CloseCall, FailCall, settle
<1>5. ASSUME NEW k \in Kernels, MarkRunning(k) PROVE Stand
  BY <1>5 DEF MarkRunning, markRunning
<1>6. ASSUME NEW k \in Kernels, Intend(k) \/ CommitEffect(k) \/ FailEffect(k) PROVE Stand
  BY <1>6 DEF Intend, CommitEffect, FailEffect, settleEffect
<1>7. ASSUME NEW s \in Sources, Verify(s) \/ Record(s) PROVE Stand
  BY <1>7 DEF Verify, Record, record
<1>8. ASSUME Lands \/ Terminates PROVE Stand
  BY <1>8 DEF Lands, Terminates
<1>9. QED
  BY <1>1, <1>2, <1>3, <1>4, <1>5, <1>6, <1>7, <1>8 DEF Next

\* A row of tool_calls, of tool_effects and of tool_effect_reconciliations is settled
\* once (agent-tool-call-repository.ts:285-349, tool-effect-repository.ts:117-171).
THEOREM KernelFactsStand == Spec => FactsStand
<1>1. [Next]_vars => [Stand]_vars
  BY NextStands
<1>2. QED
  BY <1>1, PTL DEF Spec, FactsStand
===============================================================================

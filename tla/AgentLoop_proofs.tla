---------------------------- MODULE AgentLoop_proofs ----------------------------
(* Theorems about the loop of a turn: for every bound on rounds, retries, tool    *)
(* calls and budget, and whatever the model answers.                              *)
EXTENDS AgentLoop, TLAPS

USE LoopAssumption

-------------------------------------------------------------------------------
(* Arithmetic.  Rounds is at most six: products are by cases.                   *)

LEMMA CallsBeforeFacts ==
    ASSUME NEW r \in 1..(Rounds + 1)
    PROVE  /\ CallsBefore(r) \in Nat
           /\ CallsBefore(r + 1) = CallsBefore(r) + MaxRetries + 1
           /\ CallsBefore(r) + MaxRetries + 1 <= CallsBefore(Rounds + 2)
           /\ CallsBefore(1) = 0
           /\ CallsBefore(Rounds + 2) \in Nat
  BY DEF CallsBefore

LEMMA CallsOfFacts ==
    ASSUME NEW n \in 0..(Rounds + 1)
    PROVE  /\ CallsOf(n) \in Nat
           /\ CallsOf(n + 1) = CallsOf(n) + MaxCalls
           /\ CallsOf(n) <= CallsOf(Rounds + 1)
           /\ CallsOf(Rounds + 1) \in Nat
  BY DEF CallsOf

LEMMA BatchFacts ==
    ASSUME NEW r \in 1..Rounds, NEW x \in {0, 1}
    PROVE  /\ CallsOf(r - 1 + x) \in Nat
           /\ CallsOf(r + x) = CallsOf(r - 1 + x) + MaxCalls
           /\ CallsOf(r + x) \in Nat
           /\ CallsOf(r + 1 - 1 + x) = CallsOf(r + x)
  BY DEF CallsOf

LEMMA SpentTypes ==
    ASSUME LoopTypeOK
    PROVE  /\ spent.models \in Nat /\ spent.tools \in Nat /\ spent.cents \in Nat
           /\ spent.attempts \in Nat /\ spent.executed \in Nat
  BY DEF LoopTypeOK

LEMMA LoopTypes ==
    ASSUME LoopTypeOK
    PROVE  /\ loop.at \in Places /\ loop.phase \in Phases /\ loop.round \in Nat
           /\ loop.attempt \in Nat /\ loop.pending \in BOOLEAN /\ loop.remediating \in BOOLEAN
           /\ loop.attempted \in BOOLEAN /\ loop.calls \in Nat
           /\ Remediations \in {0, 1}
  BY DEF LoopTypeOK, Loops, Remediations

-------------------------------------------------------------------------------
(* What the actions do to the generator and the counters.                       *)

LEMMA CountedSpent ==
    ASSUME spent \in [models : Nat, tools : Nat, cents : Nat, attempts : Nat, executed : Nat],
           NEW m \in Nat, NEW a \in Nat, spent' = [spent EXCEPT !.models = m, !.attempts = a]
    PROVE  /\ spent' \in [models : Nat, tools : Nat, cents : Nat, attempts : Nat, executed : Nat]
           /\ spent'.attempts = a /\ spent'.models = m
           /\ spent'.tools = spent.tools /\ spent'.executed = spent.executed
  OBVIOUS

LEMMA StreamedLoop ==
    ASSUME loop \in Loops, NEW o \in Outcomes, NEW n \in Nat,
           loop' = [loop EXCEPT !.at = "settle", !.outcome = o, !.calls = n]
    PROVE  /\ loop' \in Loops /\ loop'.at = "settle" /\ loop'.calls = n /\ loop'.outcome = o
           /\ loop'.phase = loop.phase /\ loop'.round = loop.round
           /\ loop'.attempt = loop.attempt /\ loop'.pending = loop.pending
           /\ loop'.remediating = loop.remediating /\ loop'.attempted = loop.attempted
  BY DEF Loops, Places

LEMMA MovesLoop ==
    ASSUME loop \in Loops, NEW place \in Places, loop' = [loop EXCEPT !.at = place]
    PROVE  /\ loop' \in Loops /\ loop'.at = place
           /\ loop'.phase = loop.phase /\ loop'.round = loop.round /\ loop'.attempt = loop.attempt
           /\ loop'.pending = loop.pending /\ loop'.remediating = loop.remediating
           /\ loop'.attempted = loop.attempted /\ loop'.calls = loop.calls
           /\ loop'.outcome = loop.outcome
  BY DEF Loops

\* From wherever the loop ends or is given up, the calls it made are within the bounds.
LEMMA LastCalls ==
    ASSUME LoopInv, loop.at # "round"
    PROVE  /\ spent.attempts \in Nat /\ CallsBefore(Rounds + 2) \in Nat
           /\ spent.attempts <= CallsBefore(Rounds + 2) + 1
           /\ loop.at = "check" => spent.attempts + 1 <= CallsBefore(Rounds + 2) + 1
           /\ spent.executed <= CallsOf(Rounds + 1)
           /\ spent.executed <= spent.tools
<1>2. /\ loop.at \in Places /\ loop.phase \in Phases /\ loop.round \in 1..(Rounds + 1)
      /\ loop.attempt \in 0..MaxRetries /\ loop.calls \in Nat /\ Remediations \in {0, 1}
      /\ spent.attempts \in Nat /\ spent.executed \in Nat
  BY LoopTypes, SpentTypes DEF LoopInv, PlaceOK, RunsAreSettled
<1>3. /\ CallsBefore(loop.round) \in Nat
      /\ CallsBefore(loop.round) + MaxRetries + 1 <= CallsBefore(Rounds + 2)
      /\ CallsBefore(Rounds + 2) \in Nat
  BY <1>2, CallsBeforeFacts
<1>4. /\ spent.attempts <= CallsBefore(Rounds + 2) + 1
      /\ loop.at = "check" => spent.attempts + 1 <= CallsBefore(Rounds + 2) + 1
  BY <1>2, <1>3 DEF LoopInv, ModelCallsOK, PlaceOK, Places
<1>5. /\ loop.round - 1 + Remediations \in 0..(Rounds + 1)
      /\ loop.at \in {"tool", "executing", "batchDone"} =>
           loop.round + Remediations \in 0..(Rounds + 1)
  BY <1>2 DEF LoopInv, PlaceOK, RunsAreSettled
<1>6. /\ CallsOf(loop.round - 1 + Remediations) <= CallsOf(Rounds + 1)
      /\ CallsOf(loop.round - 1 + Remediations) \in Nat
      /\ CallsOf(Rounds + 1) \in Nat
  BY <1>5, CallsOfFacts
<1>7. loop.at \in {"tool", "executing", "batchDone"} =>
         /\ CallsOf(loop.round + Remediations) <= CallsOf(Rounds + 1)
         /\ CallsOf(loop.round + Remediations) \in Nat
  BY <1>5, CallsOfFacts
<1>8. spent.executed <= CallsOf(Rounds + 1)
  BY <1>2, <1>6, <1>7 DEF LoopInv, ToolCallsOK, PlaceOK, Places
<1>9. spent.executed <= spent.tools
  BY <1>2, SpentTypes DEF LoopInv, ToolCallsOK, PlaceOK, Places
<1>10. QED
  BY <1>2, <1>3, <1>4, <1>8, <1>9

\* However the loop ends, its last step is within the bounds.
LEMMA EndsInv ==
    ASSUME LoopInv, NEW with \in Results \ {"none"}, Ends(with), loop.at \notin {"round", "ended", "abandoned"},
           UNCHANGED <<plan, aborted, guard, decision>>,
           spent' \in [models : Nat, tools : Nat, cents : Nat, attempts : Nat, executed : Nat],
           row' \in {"none", "pending", "running", "settled"},
           row' = "running" => with = "RUNTIME_FAILED",
           spent'.tools = spent.tools, spent'.executed = spent.executed,
           spent'.attempts = spent'.models,
           plan.budgeted => spent'.models <= MaxModelCalls,
           spent'.attempts = spent.attempts
             \/ (loop.at = "check" /\ spent'.attempts = spent.attempts + 1)
    PROVE  LoopInv'
<1>1. /\ loop' \in Loops /\ loop'.at = "ended"
      /\ loop'.phase = loop.phase /\ loop'.round = loop.round /\ loop'.attempt = loop.attempt
      /\ loop'.pending = loop.pending /\ loop'.remediating = loop.remediating
      /\ loop'.attempted = loop.attempted /\ loop'.calls = loop.calls
      /\ loop'.outcome = loop.outcome
  BY MovesLoop DEF Ends, LoopInv, LoopTypeOK, Places
<1>2. /\ loop.at \in Places /\ loop.phase \in Phases /\ loop.round \in 1..(Rounds + 1)
      /\ loop.attempt \in 0..MaxRetries /\ loop.calls \in Nat /\ Remediations \in {0, 1}
      /\ spent.attempts \in Nat /\ spent.executed \in Nat /\ spent'.attempts \in Nat
  BY LoopTypes, SpentTypes DEF LoopInv, PlaceOK, RunsAreSettled
<1>3. result' = with /\ result = "none" /\ decision = "none"
  BY DEF Ends, LoopInv, PlaceOK
<1>4. LoopTypeOK'
  BY <1>1, <1>3 DEF LoopInv, LoopTypeOK
<1>5. PlaceOK'
  BY <1>1, <1>3 DEF LoopInv, PlaceOK, RunsAreSettled
<1>6. ModelCallsOK'
  BY <1>1, <1>2, LastCalls DEF ModelCallsOK
<1>7. ToolCallsOK'
  BY <1>1, LastCalls, SpentTypes DEF LoopInv, ToolCallsOK
<1>8. QED
  BY <1>4, <1>5, <1>6, <1>7 DEF LoopInv

LEMMA Types ==
    ASSUME LoopInv
    PROVE  /\ loop.at \in Places /\ loop.phase \in Phases /\ loop.round \in 1..(Rounds + 1)
      /\ loop.attempt \in 0..MaxRetries /\ loop.calls \in Nat /\ Remediations \in {0, 1}
      /\ spent.attempts \in Nat /\ spent.executed \in Nat /\ spent.models \in Nat
      /\ spent.tools \in Nat /\ spent.cents \in Nat
      /\ loop.remediating \in BOOLEAN /\ loop.pending \in BOOLEAN /\ loop.attempted \in BOOLEAN
  BY LoopTypes, SpentTypes DEF LoopInv, PlaceOK, RunsAreSettled

\* A step that only goes to another place of the round.
LEMMA MovesInv ==
    ASSUME LoopInv, NEW place \in Places, Moves(place), UNCHANGED <<plan, spent, aborted, guard, result, decision>>,
           row' \in {"none", "pending", "running", "settled"},
           row' = "running" => place \in {"stream", "settle"},
           \/ loop.at = "attempt" /\ place = "wait"
           \/ loop.at = "attempt" /\ place = "check"
           \/ loop.at = "wait" /\ place = "check"
           \/ loop.at = "settle" /\ place = "after"
           \/ loop.at = "after" /\ place = "tools" /\ loop.phase = "answer" /\ loop.calls > 0
    PROVE  LoopInv'
<1>1. /\ loop' \in Loops /\ loop'.at = place
      /\ loop'.phase = loop.phase /\ loop'.round = loop.round /\ loop'.attempt = loop.attempt
      /\ loop'.pending = loop.pending /\ loop'.remediating = loop.remediating
      /\ loop'.attempted = loop.attempted /\ loop'.calls = loop.calls
      /\ loop'.outcome = loop.outcome
  BY MovesLoop DEF Moves, LoopInv, LoopTypeOK
<1>2. /\ loop.at \in Places /\ loop.phase \in Phases /\ loop.round \in 1..(Rounds + 1)
      /\ loop.attempt \in 0..MaxRetries /\ loop.calls \in Nat /\ Remediations \in {0, 1}
      /\ spent.attempts \in Nat /\ spent.executed \in Nat /\ spent.models \in Nat
      /\ spent.tools \in Nat /\ spent.cents \in Nat
      /\ loop.remediating \in BOOLEAN /\ loop.pending \in BOOLEAN /\ loop.attempted \in BOOLEAN
  BY Types
<1>3. LoopTypeOK'
  BY <1>1 DEF LoopInv, LoopTypeOK
<1>4. PlaceOK'
  BY <1>1, <1>2 DEF LoopInv, PlaceOK, RunsAreSettled
<1>5. Remediations' = Remediations
  BY <1>1 DEF Remediations
<1>6. ModelCallsOK'
  BY <1>1, <1>2, <1>5 DEF LoopInv, ModelCallsOK
<1>7. ToolCallsOK'
  BY <1>1, <1>2, <1>5 DEF LoopInv, ToolCallsOK
<1>8. QED
  BY <1>3, <1>4, <1>6, <1>7 DEF LoopInv

LEMMA BeginRoundInv ==
    ASSUME LoopInv, BeginRound PROVE LoopInv'
<1> DEFINE phase == IF loop.round <= Rounds THEN "answer" ELSE "synthesis"
           remediating == loop.pending /\ loop.round <= Rounds
           next == [loop EXCEPT
                     !.at = "attempt", !.attempt = 0, !.emitted = FALSE, !.outcome = "none",
                     !.phase = phase, !.remediating = remediating, !.pending = FALSE]
<1>1. /\ loop.at \in Places /\ loop.phase \in Phases /\ loop.round \in 1..(Rounds + 1)
      /\ loop.attempt \in 0..MaxRetries /\ loop.calls \in Nat /\ Remediations \in {0, 1}
      /\ spent.attempts \in Nat /\ spent.executed \in Nat /\ spent.models \in Nat
      /\ spent.tools \in Nat /\ spent.cents \in Nat
      /\ loop.remediating \in BOOLEAN /\ loop.pending \in BOOLEAN /\ loop.attempted \in BOOLEAN
  BY Types
<1>2. phase \in Phases /\ remediating \in BOOLEAN
  BY <1>1 DEF Phases
<1>3. loop' = next /\ UNCHANGED <<plan, spent, row, aborted, guard, result, decision>>
  BY DEF BeginRound
<1>4. remediating = loop.pending
  BY <1>1 DEF LoopInv, PlaceOK, RunsAreSettled
<1>5. (phase = "answer" => loop.round <= Rounds) /\ loop.at = "round"
  BY <1>1 DEF BeginRound
<1> HIDE DEF phase, remediating
<1>6. /\ next \in Loops /\ next.at = "attempt" /\ next.attempt = 0 /\ next.phase = phase
      /\ next.remediating = remediating /\ next.pending = FALSE
      /\ next.round = loop.round /\ next.attempted = loop.attempted /\ next.calls = loop.calls
  BY <1>2 DEF LoopInv, LoopTypeOK, Loops, Places, Outcomes
<1> HIDE DEF next
<1>7. LoopTypeOK'
  BY <1>3, <1>6 DEF LoopInv, LoopTypeOK
<1>8. PlaceOK'
  BY <1>1, <1>3, <1>4, <1>5, <1>6 DEF LoopInv, PlaceOK, RunsAreSettled
<1>9. Remediations' = Remediations
  BY <1>3, <1>6 DEF Remediations
<1>10. ModelCallsOK'
  BY <1>1, <1>3, <1>4, <1>5, <1>6, <1>9, CallsBeforeFacts DEF LoopInv, ModelCallsOK
<1>11. ToolCallsOK'
  BY <1>1, <1>3, <1>5, <1>6, <1>9 DEF LoopInv, ToolCallsOK
<1>12. QED
  BY <1>7, <1>8, <1>10, <1>11 DEF LoopInv

LEMMA AttemptInv ==
    ASSUME LoopInv, Attempt PROVE LoopInv'
<1>1. /\ loop.at \in Places /\ loop.phase \in Phases /\ loop.round \in 1..(Rounds + 1)
      /\ loop.attempt \in 0..MaxRetries /\ loop.calls \in Nat /\ Remediations \in {0, 1}
      /\ spent.attempts \in Nat /\ spent.executed \in Nat /\ spent.models \in Nat
      /\ spent.tools \in Nat /\ spent.cents \in Nat
      /\ loop.remediating \in BOOLEAN /\ loop.pending \in BOOLEAN /\ loop.attempted \in BOOLEAN
  BY Types
<1>2. loop.at = "attempt" /\ UNCHANGED <<plan, spent, row, aborted, guard, decision>>
  BY DEF Attempt
<1>3. spent \in [models : Nat, tools : Nat, cents : Nat, attempts : Nat, executed : Nat]
      /\ row \in {"none", "pending", "running", "settled"} /\ row # "running"
      /\ spent.attempts = spent.models /\ (plan.budgeted => spent.models <= MaxModelCalls)
  BY <1>2 DEF LoopInv, LoopTypeOK, PlaceOK, RunsAreSettled, ModelCallsOK
<1>4. CASE Ends("MODEL_ABORTED")
  BY <1>2, <1>3, <1>4, EndsInv DEF Results
<1>5. CASE Moves(IF loop.attempt > 0 THEN "wait" ELSE "check") /\ UNCHANGED result
  <2>1. CASE Moves("wait")
    BY <1>2, <1>3, <1>5, <2>1, MovesInv DEF Places
  <2>2. CASE Moves("check")
    BY <1>2, <1>3, <1>5, <2>2, MovesInv DEF Places
  <2>3. QED
    BY <1>5, <2>1, <2>2
<1>6. QED
  BY <1>4, <1>5 DEF Attempt

LEMMA WaitInv ==
    ASSUME LoopInv, Wait PROVE LoopInv'
<1>2. loop.at = "wait" /\ UNCHANGED <<plan, spent, row, aborted, guard, decision>>
  BY DEF Wait
<1>3. spent \in [models : Nat, tools : Nat, cents : Nat, attempts : Nat, executed : Nat]
      /\ row \in {"none", "pending", "running", "settled"} /\ row # "running"
      /\ spent.attempts = spent.models /\ (plan.budgeted => spent.models <= MaxModelCalls)
  BY <1>2 DEF LoopInv, LoopTypeOK, PlaceOK, RunsAreSettled, ModelCallsOK
<1>4. CASE Ends("MODEL_ABORTED")
  BY <1>2, <1>3, <1>4, EndsInv DEF Results
<1>5. CASE Moves("check") /\ UNCHANGED result
  BY <1>2, <1>3, <1>5, MovesInv DEF Places
<1>6. QED
  BY <1>4, <1>5 DEF Wait

LEMMA CheckInv ==
    ASSUME LoopInv, Check PROVE LoopInv'
<1>1. /\ loop.at \in Places /\ loop.phase \in Phases /\ loop.round \in 1..(Rounds + 1)
      /\ loop.attempt \in 0..MaxRetries /\ loop.calls \in Nat /\ Remediations \in {0, 1}
      /\ spent.attempts \in Nat /\ spent.executed \in Nat /\ spent.models \in Nat
      /\ spent.tools \in Nat /\ spent.cents \in Nat
      /\ loop.remediating \in BOOLEAN /\ loop.pending \in BOOLEAN /\ loop.attempted \in BOOLEAN
  BY Types
<1>2. loop.at = "check" /\ UNCHANGED <<plan, aborted, guard, decision>>
  BY DEF Check
<1>3. spent \in [models : Nat, tools : Nat, cents : Nat, attempts : Nat, executed : Nat]
      /\ row \in {"none", "pending", "running", "settled"} /\ row # "running"
      /\ spent.attempts = spent.models /\ (plan.budgeted => spent.models <= MaxModelCalls)
  BY <1>2 DEF LoopInv, LoopTypeOK, PlaceOK, RunsAreSettled, ModelCallsOK
<1>4. CASE Ends("BUDGET_EXCEEDED") /\ UNCHANGED <<spent, row>>
  BY <1>2, <1>3, <1>4, EndsInv DEF Results
<1>5. ASSUME plan.budgeted => ~breaksBeforeCall,
             spent' = [spent EXCEPT !.models = modelCallsOfAttempts, !.attempts = @ + 1]
      PROVE  /\ spent' \in [models : Nat, tools : Nat, cents : Nat, attempts : Nat, executed : Nat]
             /\ spent'.attempts = spent.attempts + 1 /\ spent'.models = spent.models + 1
             /\ spent'.tools = spent.tools /\ spent'.executed = spent.executed
             /\ spent'.attempts = spent'.models /\ (plan.budgeted => spent'.models <= MaxModelCalls)
  <2>1. spent' = [spent EXCEPT !.models = spent.models + 1, !.attempts = spent.attempts + 1]
    BY <1>5 DEF modelCallsOfAttempts
  <2>2. /\ spent' \in [models : Nat, tools : Nat, cents : Nat, attempts : Nat, executed : Nat]
        /\ spent'.attempts = spent.attempts + 1 /\ spent'.models = spent.models + 1
        /\ spent'.tools = spent.tools /\ spent'.executed = spent.executed
    <3>1. spent.models + 1 \in Nat /\ spent.attempts + 1 \in Nat
      BY <1>1
    <3>2. QED
      BY <1>3, <2>1, <3>1, CountedSpent
  <2>3. ASSUME plan.budgeted PROVE spent.models + 1 <= MaxModelCalls
    BY <1>1, <1>5, <2>3 DEF breaksBeforeCall
  <2>4. QED
    BY <1>3, <2>2, <2>3
<1>6. CASE /\ plan.budgeted => ~breaksBeforeCall
           /\ spent' = [spent EXCEPT !.models = modelCallsOfAttempts, !.attempts = @ + 1]
           /\ row' \in {"none", "pending", "running"} /\ Ends("RUNTIME_FAILED")
  BY <1>1, <1>2, <1>5, <1>6, EndsInv DEF Results
<1>7. CASE /\ plan.budgeted => ~breaksBeforeCall
           /\ spent' = [spent EXCEPT !.models = modelCallsOfAttempts, !.attempts = @ + 1]
           /\ row' = "running" /\ UNCHANGED result
           /\ loop' = [loop EXCEPT !.at = "stream", !.emitted = FALSE, !.outcome = "none"]
  <2>1. /\ loop' \in Loops /\ loop'.at = "stream" /\ loop'.outcome = "none"
        /\ loop'.phase = loop.phase /\ loop'.round = loop.round /\ loop'.attempt = loop.attempt
        /\ loop'.pending = loop.pending /\ loop'.remediating = loop.remediating
        /\ loop'.attempted = loop.attempted /\ loop'.calls = loop.calls
    BY <1>7 DEF LoopInv, LoopTypeOK, Loops, Places, Outcomes
  <2>2. LoopTypeOK'
    BY <1>2, <1>5, <1>7, <2>1 DEF LoopInv, LoopTypeOK
  <2>3. PlaceOK'
    BY <1>1, <1>2, <1>7, <2>1 DEF LoopInv, PlaceOK, RunsAreSettled
  <2>4. Remediations' = Remediations
    BY <2>1 DEF Remediations
  <2>5. ModelCallsOK'
    BY <1>1, <1>2, <1>5, <1>7, <2>1, <2>4, CallsBeforeFacts DEF LoopInv, ModelCallsOK
  <2>6. ToolCallsOK'
    BY <1>1, <1>2, <1>5, <1>7, <2>1, <2>4 DEF LoopInv, ToolCallsOK
  <2>7. QED
    BY <2>2, <2>3, <2>5, <2>6 DEF LoopInv
<1>8. QED
  BY <1>4, <1>6, <1>7 DEF Check

LEMMA StreamStepInv ==
    ASSUME LoopInv, Text \/ StreamEnds PROVE LoopInv'
<1>1. /\ loop.at \in Places /\ loop.phase \in Phases /\ loop.round \in 1..(Rounds + 1)
      /\ loop.attempt \in 0..MaxRetries /\ loop.calls \in Nat /\ Remediations \in {0, 1}
      /\ spent.attempts \in Nat /\ spent.executed \in Nat /\ spent.models \in Nat
      /\ spent.tools \in Nat /\ spent.cents \in Nat
      /\ loop.remediating \in BOOLEAN /\ loop.pending \in BOOLEAN /\ loop.attempted \in BOOLEAN
  BY Types
<1>2. loop.at = "stream" /\ UNCHANGED <<plan, spent, row, result, decision>>
  BY DEF Text, StreamEnds
<1>3. /\ loop' \in Loops /\ loop'.at \in {"stream", "settle"} /\ loop'.calls <= MaxCalls
      /\ loop'.phase = loop.phase /\ loop'.round = loop.round /\ loop'.attempt = loop.attempt
      /\ loop'.pending = loop.pending /\ loop'.remediating = loop.remediating
      /\ loop'.attempted = loop.attempted
      /\ loop'.phase = "synthesis" => loop'.calls = 0
      /\ loop'.at = "settle" /\ loop'.outcome # "ok" => loop'.calls = 0
      /\ loop'.at = "stream" => loop'.outcome = "none"
  <2>1. CASE Text
    BY <1>1, <1>2, <2>1 DEF Text, LoopInv, LoopTypeOK, PlaceOK, ToolCallsOK, Loops
  <2>2. ASSUME NEW outcome \in {"retryable", "fatal"},
               loop' = [loop EXCEPT !.at = "settle", !.outcome = outcome, !.calls = 0]
        PROVE  /\ loop' \in Loops /\ loop'.at = "settle" /\ loop'.calls <= MaxCalls
               /\ loop'.phase = loop.phase /\ loop'.round = loop.round /\ loop'.attempt = loop.attempt
               /\ loop'.pending = loop.pending /\ loop'.remediating = loop.remediating
               /\ loop'.attempted = loop.attempted
               /\ loop'.phase = "synthesis" => loop'.calls = 0
               /\ loop'.at = "settle" /\ loop'.outcome # "ok" => loop'.calls = 0
    <3>1. outcome \in Outcomes /\ 0 \in Nat /\ 0 <= MaxCalls /\ loop \in Loops
      BY DEF Outcomes, LoopInv, LoopTypeOK
    <3>2. QED
      BY <2>2, <3>1, StreamedLoop
  <2>3. ASSUME NEW n \in 0..MaxCalls, loop.phase = "synthesis" => n = 0,
               loop' = [loop EXCEPT !.at = "settle", !.outcome = "ok", !.calls = n]
        PROVE  /\ loop' \in Loops /\ loop'.at = "settle" /\ loop'.calls <= MaxCalls
               /\ loop'.phase = loop.phase /\ loop'.round = loop.round /\ loop'.attempt = loop.attempt
               /\ loop'.pending = loop.pending /\ loop'.remediating = loop.remediating
               /\ loop'.attempted = loop.attempted
               /\ loop'.phase = "synthesis" => loop'.calls = 0
               /\ loop'.at = "settle" /\ loop'.outcome # "ok" => loop'.calls = 0
    <3>1. "ok" \in Outcomes /\ n \in Nat /\ n <= MaxCalls /\ loop \in Loops
      BY DEF Outcomes, LoopInv, LoopTypeOK
    <3>2. QED
      BY <2>3, <3>1, StreamedLoop
  <2>4. QED
    BY <2>1, <2>2, <2>3 DEF StreamEnds
<1>4. /\ aborted' \in BOOLEAN /\ guard' \in {"open", "blocked", "failed"}
      /\ guard' # "open" => aborted'
  BY DEF Text, StreamEnds, LoopInv, LoopTypeOK, PlaceOK
<1>5. LoopTypeOK'
  BY <1>2, <1>3, <1>4 DEF LoopInv, LoopTypeOK
<1>6. PlaceOK'
  BY <1>1, <1>2, <1>3, <1>4 DEF LoopInv, PlaceOK, RunsAreSettled
<1>7. Remediations' = Remediations
  BY <1>3 DEF Remediations
<1>8. ModelCallsOK'
  BY <1>1, <1>2, <1>3, <1>7, CallsBeforeFacts DEF LoopInv, ModelCallsOK
<1>9. ToolCallsOK'
  BY <1>1, <1>2, <1>3, <1>7 DEF LoopInv, ToolCallsOK
<1>10. QED
  BY <1>5, <1>6, <1>8, <1>9 DEF LoopInv

LEMMA SettleRunInv ==
    ASSUME LoopInv, SettleRun PROVE LoopInv'
<1>1. /\ loop.at \in Places /\ loop.phase \in Phases /\ loop.round \in 1..(Rounds + 1)
      /\ loop.attempt \in 0..MaxRetries /\ loop.calls \in Nat /\ Remediations \in {0, 1}
      /\ spent.attempts \in Nat /\ spent.executed \in Nat /\ spent.models \in Nat
      /\ spent.tools \in Nat /\ spent.cents \in Nat
      /\ loop.remediating \in BOOLEAN /\ loop.pending \in BOOLEAN /\ loop.attempted \in BOOLEAN
  BY Types
<1>2. loop.at = "settle" /\ UNCHANGED <<plan, aborted, guard, decision>>
  BY DEF SettleRun
<1>3. spent \in [models : Nat, tools : Nat, cents : Nat, attempts : Nat, executed : Nat]
      /\ row \in {"none", "pending", "running", "settled"}
      /\ spent.attempts = spent.models /\ (plan.budgeted => spent.models <= MaxModelCalls)
      /\ (loop.at \notin {"stream", "settle", "ended", "abandoned"} => row # "running")
  BY DEF LoopInv, LoopTypeOK, PlaceOK, RunsAreSettled, ModelCallsOK
<1>4. CASE row' \in {"running", "settled"} /\ Ends("RUNTIME_FAILED") /\ UNCHANGED spent
  BY <1>2, <1>3, <1>4, EndsInv DEF Results
<1>5. ASSUME NEW cost \in Costs, spent' = [spent EXCEPT !.cents = @ + cost],
             row' = runSettled, Moves("after"), UNCHANGED result
      PROVE LoopInv'
  <2>1. /\ spent' \in [models : Nat, tools : Nat, cents : Nat, attempts : Nat, executed : Nat]
        /\ spent'.attempts = spent.attempts /\ spent'.models = spent.models
        /\ spent'.tools = spent.tools /\ spent'.executed = spent.executed
    <3>1. cost \in Nat
      OBVIOUS
    <3>2. QED
      BY <1>1, <1>3, <1>5, <3>1
  <2>2. /\ loop' \in Loops /\ loop'.at = "after" /\ loop'.calls = loop.calls
        /\ loop'.phase = loop.phase /\ loop'.round = loop.round /\ loop'.attempt = loop.attempt
        /\ loop'.pending = loop.pending /\ loop'.remediating = loop.remediating
        /\ loop'.attempted = loop.attempted
        /\ loop'.outcome = loop.outcome
    BY <1>5, MovesLoop DEF Moves, LoopInv, LoopTypeOK, Places
  <2>3. LoopTypeOK'
    BY <1>2, <1>5, <2>1, <2>2 DEF LoopInv, LoopTypeOK, runSettled
  <2>4. PlaceOK'
    BY <1>1, <1>2, <1>5, <2>2 DEF LoopInv, PlaceOK, RunsAreSettled, runSettled
  <2>5. Remediations' = Remediations
    BY <2>2 DEF Remediations
  <2>6. ModelCallsOK'
    BY <1>1, <1>2, <2>1, <2>2, <2>5, CallsBeforeFacts DEF LoopInv, ModelCallsOK
  <2>7. ToolCallsOK'
    BY <1>1, <1>2, <2>1, <2>2, <2>5 DEF LoopInv, ToolCallsOK
  <2>8. QED
    BY <2>3, <2>4, <2>6, <2>7 DEF LoopInv
<1>6. QED
  BY <1>4, <1>5 DEF SettleRun

\* A round that is given to a remediation: its model calls so far were all its own.
LEMMA RemediationInv ==
    ASSUME LoopInv, loop.at \in {"after", "batchDone"}, loop.phase = "answer", ~loop.attempted,
           loop.calls = 0, result = "none",
           loop' = [loop EXCEPT !.at = "round", !.pending = TRUE, !.attempted = TRUE],
           UNCHANGED <<plan, spent, row, aborted, guard, result, decision>>
    PROVE  LoopInv'
<1>1. /\ loop.at \in Places /\ loop.phase \in Phases /\ loop.round \in 1..(Rounds + 1)
      /\ loop.attempt \in 0..MaxRetries /\ loop.calls \in Nat /\ Remediations \in {0, 1}
      /\ spent.attempts \in Nat /\ spent.executed \in Nat /\ spent.models \in Nat
      /\ spent.tools \in Nat /\ spent.cents \in Nat
      /\ loop.remediating \in BOOLEAN /\ loop.pending \in BOOLEAN /\ loop.attempted \in BOOLEAN
  BY Types
<1>2. /\ loop' \in Loops /\ loop'.at = "round" /\ loop'.pending /\ loop'.attempted
      /\ loop'.phase = loop.phase /\ loop'.round = loop.round /\ loop'.attempt = loop.attempt
      /\ loop'.remediating = loop.remediating /\ loop'.calls = loop.calls
  BY DEF LoopInv, LoopTypeOK, Loops, Places
<1>3. LoopTypeOK'
  BY <1>2 DEF LoopInv, LoopTypeOK
<1>4. PlaceOK'
  BY <1>1, <1>2 DEF LoopInv, PlaceOK, RunsAreSettled
<1>5. Remediations = 0 /\ Remediations' = 1
  BY <1>2 DEF Remediations
<1>6. ModelCallsOK'
  BY <1>1, <1>2, <1>5, CallsBeforeFacts DEF LoopInv, PlaceOK, ModelCallsOK
<1>7. ToolCallsOK'
  <2>1. /\ loop.round - 1 \in 0..(Rounds + 1) /\ loop.round - 1 + 1 = loop.round
        /\ loop.round - 1 + 0 = loop.round - 1 /\ loop.round + 0 = loop.round
    BY <1>1
  <2>2. CallsOf(loop.round - 1) \in Nat /\ CallsOf(loop.round) = CallsOf(loop.round - 1) + MaxCalls
    BY <2>1, CallsOfFacts
  <2>3. spent.executed <= CallsOf(loop.round)
    BY <1>1, <1>5, <2>1, <2>2 DEF LoopInv, ToolCallsOK
  <2>4. spent.executed <= spent.tools
    BY <1>1 DEF LoopInv, ToolCallsOK
  <2>5. QED
    BY <1>2, <1>5, <2>1, <2>3, <2>4 DEF LoopInv, ToolCallsOK
<1>8. QED
  BY <1>3, <1>4, <1>6, <1>7 DEF LoopInv

LEMMA RetriedLoop ==
    ASSUME loop \in Loops, NEW a \in Nat, loop' = [loop EXCEPT !.at = "attempt", !.attempt = a]
    PROVE  /\ loop' \in Loops /\ loop'.at = "attempt" /\ loop'.attempt = a
           /\ loop'.phase = loop.phase /\ loop'.round = loop.round /\ loop'.calls = loop.calls
           /\ loop'.pending = loop.pending
           /\ loop'.remediating = loop.remediating /\ loop'.attempted = loop.attempted
  BY DEF Loops, Places

LEMMA RetryInv ==
    ASSUME LoopInv, loop.at = "after", loop.outcome # "ok", retries, UNCHANGED result,
           UNCHANGED <<plan, spent, row, aborted, guard, decision>>,
           loop' = [loop EXCEPT !.at = "attempt", !.attempt = @ + 1]
    PROVE  LoopInv'
<1>1. /\ loop.at \in Places /\ loop.phase \in Phases /\ loop.round \in 1..(Rounds + 1)
      /\ loop.attempt \in 0..MaxRetries /\ loop.calls \in Nat /\ Remediations \in {0, 1}
      /\ spent.attempts \in Nat /\ spent.executed \in Nat /\ spent.models \in Nat
      /\ spent.tools \in Nat /\ spent.cents \in Nat
      /\ loop.remediating \in BOOLEAN /\ loop.pending \in BOOLEAN /\ loop.attempted \in BOOLEAN
  BY Types
<1>2. loop.attempt + 1 \in Nat /\ loop.attempt + 1 <= MaxRetries /\ ~loop.remediating
      /\ loop \in Loops
  BY <1>1 DEF retries, LoopInv, LoopTypeOK
<1>3. /\ loop' \in Loops /\ loop'.at = "attempt" /\ loop'.attempt = loop.attempt + 1
      /\ loop'.phase = loop.phase /\ loop'.round = loop.round /\ loop'.calls = loop.calls
      /\ loop'.pending = loop.pending
      /\ loop'.remediating = loop.remediating /\ loop'.attempted = loop.attempted
  BY <1>2, RetriedLoop
<1>4. LoopTypeOK'
  BY <1>3 DEF LoopInv, LoopTypeOK
<1>5. PlaceOK'
  BY <1>1, <1>2, <1>3 DEF LoopInv, PlaceOK, RunsAreSettled
<1>6. Remediations' = Remediations
  BY <1>3 DEF Remediations
<1>7. ModelCallsOK'
  BY <1>1, <1>2, <1>3, <1>6, CallsBeforeFacts DEF LoopInv, ModelCallsOK
<1>8. ToolCallsOK'
  BY <1>1, <1>3, <1>6 DEF LoopInv, ToolCallsOK
<1>9. QED
  BY <1>4, <1>5, <1>7, <1>8 DEF LoopInv

LEMMA AfterInv ==
    ASSUME LoopInv, After PROVE LoopInv'
<1>1. /\ loop.at \in Places /\ loop.phase \in Phases /\ loop.round \in 1..(Rounds + 1)
      /\ loop.attempt \in 0..MaxRetries /\ loop.calls \in Nat /\ Remediations \in {0, 1}
      /\ spent.attempts \in Nat /\ spent.executed \in Nat /\ spent.models \in Nat
      /\ spent.tools \in Nat /\ spent.cents \in Nat
      /\ loop.remediating \in BOOLEAN /\ loop.pending \in BOOLEAN /\ loop.attempted \in BOOLEAN
  BY Types
<1>2. loop.at = "after" /\ UNCHANGED <<plan, spent, row, aborted, guard, decision>>
  BY DEF After
<1>3. spent \in [models : Nat, tools : Nat, cents : Nat, attempts : Nat, executed : Nat]
      /\ row \in {"none", "pending", "running", "settled"}
      /\ spent.attempts = spent.models /\ (plan.budgeted => spent.models <= MaxModelCalls)
      /\ (loop.at \notin {"stream", "settle", "ended", "abandoned"} => row # "running")
  BY DEF LoopInv, LoopTypeOK, PlaceOK, RunsAreSettled, ModelCallsOK
<1>4. row # "running" /\ result = "none"
  BY <1>2 DEF LoopInv, PlaceOK, RunsAreSettled
<1>5. ASSUME NEW with \in {"MODEL_FAILED", "BUDGET_EXCEEDED", "MODEL_ABORTED", "completed"}, Ends(with)
      PROVE LoopInv'
  BY <1>2, <1>3, <1>5, EndsInv DEF Results
<1>6. ASSUME loop.outcome # "ok", retries, UNCHANGED result,
             loop' = [loop EXCEPT !.at = "attempt", !.attempt = @ + 1]
      PROVE LoopInv'
  BY <1>2, <1>6, RetryInv
<1>7. ASSUME loop.calls > 0, Moves("tools"), UNCHANGED result PROVE LoopInv'
  <2>1. loop.phase = "answer"
    BY <1>1, <1>7 DEF LoopInv, PlaceOK, Phases
  <2>2. QED
    BY <1>2, <1>3, <1>4, <1>7, <2>1, MovesInv DEF Places
<1>8. ASSUME loop.calls = 0, loop.phase # "synthesis", remediates, UNCHANGED result,
             loop' = [loop EXCEPT !.at = "round", !.pending = TRUE, !.attempted = TRUE]
      PROVE LoopInv'
  BY <1>1, <1>2, <1>4, <1>8, RemediationInv DEF remediates, Phases
<1>9. CASE loop.outcome # "ok"
  BY <1>1, <1>5, <1>6, <1>9 DEF After
<1>10. CASE loop.outcome = "ok"
  <2>1. CASE plan.budgeted /\ Ends("BUDGET_EXCEEDED")
    BY <1>5, <2>1
  <2>2. CASE loop.calls > 0 /\ (Ends("MODEL_ABORTED") \/ (Moves("tools") /\ UNCHANGED result))
    BY <1>5, <1>7, <2>2
  <2>3. CASE loop.calls = 0 /\ (Ends("MODEL_ABORTED") \/ Ends("completed"))
    BY <1>5, <2>3
  <2>4. CASE /\ loop.calls = 0 /\ loop.phase # "synthesis" /\ remediates /\ UNCHANGED result
             /\ loop' = [loop EXCEPT !.at = "round", !.pending = TRUE, !.attempted = TRUE]
    BY <1>8, <2>4
  <2>5. loop.calls > 0 \/ loop.calls = 0
    BY <1>1
  <2>6. QED
    BY <1>10, <2>1, <2>2, <2>3, <2>4, <2>5 DEF After
<1>11. QED
  BY <1>9, <1>10

LEMMA ReserveInv ==
    ASSUME LoopInv, Reserve PROVE LoopInv'
<1>1. /\ loop.at \in Places /\ loop.phase \in Phases /\ loop.round \in 1..(Rounds + 1)
      /\ loop.attempt \in 0..MaxRetries /\ loop.calls \in Nat /\ Remediations \in {0, 1}
      /\ spent.attempts \in Nat /\ spent.executed \in Nat /\ spent.models \in Nat
      /\ spent.tools \in Nat /\ spent.cents \in Nat
      /\ loop.remediating \in BOOLEAN /\ loop.pending \in BOOLEAN /\ loop.attempted \in BOOLEAN
  BY Types
<1>2. loop.at = "tools" /\ UNCHANGED <<plan, row, aborted, guard, decision>>
  BY DEF Reserve
<1>3. spent \in [models : Nat, tools : Nat, cents : Nat, attempts : Nat, executed : Nat]
      /\ row \in {"none", "pending", "running", "settled"}
      /\ spent.attempts = spent.models /\ (plan.budgeted => spent.models <= MaxModelCalls)
      /\ (loop.at \notin {"stream", "settle", "ended", "abandoned"} => row # "running")
  BY DEF LoopInv, LoopTypeOK, PlaceOK, RunsAreSettled, ModelCallsOK
<1>4. CASE Ends("BUDGET_EXCEEDED") /\ UNCHANGED spent
  BY <1>2, <1>3, <1>4, EndsInv DEF Results
<1>5. CASE /\ ~(plan.budgeted /\ projected > MaxToolCalls) /\ UNCHANGED result
           /\ Moves("tool") /\ spent' = [spent EXCEPT !.tools = projected]
  <2>1. projected \in Nat /\ projected = spent.tools + loop.calls
        /\ (plan.budgeted => projected <= MaxToolCalls)
    BY <1>1, <1>5 DEF projected
  <2>2. /\ spent' \in [models : Nat, tools : Nat, cents : Nat, attempts : Nat, executed : Nat]
        /\ spent'.attempts = spent.attempts /\ spent'.models = spent.models
        /\ spent'.tools = projected /\ spent'.executed = spent.executed
    BY <1>3, <1>5, <2>1
  <2>3. /\ loop' \in Loops /\ loop'.at = "tool" /\ loop'.calls = loop.calls
        /\ loop'.phase = loop.phase /\ loop'.round = loop.round /\ loop'.attempt = loop.attempt
        /\ loop'.pending = loop.pending /\ loop'.remediating = loop.remediating
        /\ loop'.attempted = loop.attempted
    BY <1>5, MovesLoop DEF Moves, LoopInv, LoopTypeOK, Places
  <2>4. LoopTypeOK'
    BY <1>2, <1>5, <2>2, <2>3 DEF LoopInv, LoopTypeOK
  <2>5. PlaceOK'
    BY <1>1, <1>2, <1>5, <2>3 DEF LoopInv, PlaceOK, RunsAreSettled
  <2>6. Remediations' = Remediations
    BY <2>3 DEF Remediations
  <2>7. ModelCallsOK'
    BY <1>1, <1>2, <2>2, <2>3, <2>6, CallsBeforeFacts DEF LoopInv, ModelCallsOK
  <2>8. CallsOf(loop.round - 1 + Remediations) \in Nat
        /\ CallsOf(loop.round + Remediations) = CallsOf(loop.round - 1 + Remediations) + MaxCalls
    BY <1>1, <1>2, BatchFacts DEF LoopInv, PlaceOK, RunsAreSettled
  <2>9. ToolCallsOK'
    BY <1>1, <1>2, <2>1, <2>2, <2>3, <2>6, <2>8 DEF LoopInv, ToolCallsOK
  <2>10. QED
    BY <2>4, <2>5, <2>7, <2>9 DEF LoopInv
<1>6. QED
  BY <1>4, <1>5 DEF Reserve

LEMMA StartToolInv ==
    ASSUME LoopInv, StartTool PROVE LoopInv'
<1>1. /\ loop.at \in Places /\ loop.phase \in Phases /\ loop.round \in 1..(Rounds + 1)
      /\ loop.attempt \in 0..MaxRetries /\ loop.calls \in Nat /\ Remediations \in {0, 1}
      /\ spent.attempts \in Nat /\ spent.executed \in Nat /\ spent.models \in Nat
      /\ spent.tools \in Nat /\ spent.cents \in Nat
      /\ loop.remediating \in BOOLEAN /\ loop.pending \in BOOLEAN /\ loop.attempted \in BOOLEAN
  BY Types
<1>2. loop.at = "tool" /\ UNCHANGED <<plan, row, aborted, guard, decision>>
  BY DEF StartTool
<1>3. spent \in [models : Nat, tools : Nat, cents : Nat, attempts : Nat, executed : Nat]
      /\ row \in {"none", "pending", "running", "settled"}
      /\ spent.attempts = spent.models /\ (plan.budgeted => spent.models <= MaxModelCalls)
      /\ (loop.at \notin {"stream", "settle", "ended", "abandoned"} => row # "running")
  BY DEF LoopInv, LoopTypeOK, PlaceOK, RunsAreSettled, ModelCallsOK
<1>4. CASE Ends("MODEL_ABORTED") /\ UNCHANGED spent
  BY <1>2, <1>3, <1>4, EndsInv DEF Results
<1>5. CASE Moves("executing") /\ spent' = [spent EXCEPT !.executed = @ + 1] /\ UNCHANGED result
  <2>1. spent.executed + 1 \in Nat
    BY <1>1
  <2>2. /\ spent' \in [models : Nat, tools : Nat, cents : Nat, attempts : Nat, executed : Nat]
        /\ spent'.attempts = spent.attempts /\ spent'.models = spent.models
        /\ spent'.tools = spent.tools /\ spent'.executed = spent.executed + 1
    BY <1>3, <1>5, <2>1
  <2>3. /\ loop' \in Loops /\ loop'.at = "executing" /\ loop'.calls = loop.calls
        /\ loop'.phase = loop.phase /\ loop'.round = loop.round /\ loop'.attempt = loop.attempt
        /\ loop'.pending = loop.pending /\ loop'.remediating = loop.remediating
        /\ loop'.attempted = loop.attempted
    BY <1>5, MovesLoop DEF Moves, LoopInv, LoopTypeOK, Places
  <2>4. LoopTypeOK'
    BY <1>2, <1>5, <2>2, <2>3 DEF LoopInv, LoopTypeOK
  <2>5. PlaceOK'
    BY <1>1, <1>2, <1>5, <2>3 DEF LoopInv, PlaceOK, RunsAreSettled
  <2>6. Remediations' = Remediations
    BY <2>3 DEF Remediations
  <2>7. ModelCallsOK'
    BY <1>1, <1>2, <2>2, <2>3, <2>6, CallsBeforeFacts DEF LoopInv, ModelCallsOK
  <2>8. CallsOf(loop.round + Remediations) \in Nat
    BY <1>1, <1>2, BatchFacts DEF LoopInv, PlaceOK, RunsAreSettled
  <2>9. ToolCallsOK'
    BY <1>1, <1>2, <2>2, <2>3, <2>6, <2>8 DEF LoopInv, ToolCallsOK
  <2>10. QED
    BY <2>4, <2>5, <2>7, <2>9 DEF LoopInv
<1>6. QED
  BY <1>4, <1>5 DEF StartTool

LEMMA ExecutedLoop ==
    ASSUME loop \in Loops, NEW place \in Places, NEW n \in Nat, NEW b \in BOOLEAN,
           loop' = [loop EXCEPT !.calls = n, !.satisfied = b, !.at = place]
    PROVE  /\ loop' \in Loops /\ loop'.at = place /\ loop'.calls = n
           /\ loop'.phase = loop.phase /\ loop'.round = loop.round /\ loop'.attempt = loop.attempt
           /\ loop'.pending = loop.pending
           /\ loop'.remediating = loop.remediating /\ loop'.attempted = loop.attempted
  BY DEF Loops

LEMMA ExecuteToolInv ==
    ASSUME LoopInv, ExecuteTool PROVE LoopInv'
<1>1. /\ loop.at \in Places /\ loop.phase \in Phases /\ loop.round \in 1..(Rounds + 1)
      /\ loop.attempt \in 0..MaxRetries /\ loop.calls \in Nat /\ Remediations \in {0, 1}
      /\ spent.attempts \in Nat /\ spent.executed \in Nat /\ spent.models \in Nat
      /\ spent.tools \in Nat /\ spent.cents \in Nat
      /\ loop.remediating \in BOOLEAN /\ loop.pending \in BOOLEAN /\ loop.attempted \in BOOLEAN
  BY Types
<1>2. /\ loop.at = "executing" /\ UNCHANGED <<plan, spent, row, decision>> /\ loop \in Loops
      /\ loop.calls - 1 \in Nat /\ loop.calls <= MaxCalls
  <2>1. loop.at = "executing" /\ UNCHANGED <<plan, spent, row, decision>>
    BY DEF ExecuteTool
  <2>2. loop \in Loops /\ loop.calls >= 1 /\ loop.calls <= MaxCalls
    BY <2>1 DEF LoopInv, LoopTypeOK, PlaceOK, ToolCallsOK
  <2>3. QED
    BY <1>1, <2>1, <2>2
<1>3. spent \in [models : Nat, tools : Nat, cents : Nat, attempts : Nat, executed : Nat]
      /\ row \in {"none", "pending", "running", "settled"}
      /\ spent.attempts = spent.models /\ (plan.budgeted => spent.models <= MaxModelCalls)
      /\ (loop.at \notin {"stream", "settle", "ended", "abandoned"} => row # "running")
  BY DEF LoopInv, LoopTypeOK, PlaceOK, RunsAreSettled, ModelCallsOK
<1>4. ASSUME NEW failure \in {"TOOL_FAILED", "APPROVAL", "INVALID_MODEL_STREAM"}, Ends(failure),
             UNCHANGED <<aborted, guard>>
      PROVE LoopInv'
  BY <1>2, <1>3, <1>4, EndsInv DEF Results
<1>5. ASSUME NEW satisfies \in BOOLEAN,
             loop' = [loop EXCEPT !.calls = @ - 1,
                          !.satisfied = @ \/ (plan.requirement /\ satisfies),
                          !.at = IF loop.calls = 1 THEN "batchDone" ELSE "tool"],
             UNCHANGED result,
             \/ UNCHANGED <<aborted, guard>>
             \/ guard = "open" /\ guard' = "failed" /\ aborted' = TRUE
      PROVE LoopInv'
  <2> DEFINE place == IF loop.calls = 1 THEN "batchDone" ELSE "tool"
             sat == loop.satisfied \/ (plan.requirement /\ satisfies)
  <2>1. place \in Places /\ sat \in BOOLEAN
    <3>1. loop.satisfied \in BOOLEAN /\ plan.requirement \in BOOLEAN
      BY DEF LoopInv, LoopTypeOK, Loops, Plans
    <3>2. QED
      BY <3>1 DEF Places
  <2>2. loop' = [loop EXCEPT !.calls = loop.calls - 1, !.satisfied = sat, !.at = place]
    BY <1>5
  <2>3. (place = "batchDone" /\ loop.calls = 1) \/ (place = "tool" /\ loop.calls # 1)
    OBVIOUS
  <2> HIDE DEF place, sat
  <2>4. /\ loop' \in Loops /\ loop'.at = place /\ loop'.calls = loop.calls - 1
        /\ loop'.phase = loop.phase /\ loop'.round = loop.round /\ loop'.attempt = loop.attempt
        /\ loop'.pending = loop.pending /\ loop'.remediating = loop.remediating
        /\ loop'.attempted = loop.attempted
    BY <1>2, <2>1, <2>2, ExecutedLoop
  <2>5. /\ aborted' \in BOOLEAN /\ guard' \in {"open", "blocked", "failed"}
        /\ guard' # "open" => aborted' /\ decision = "none"
    BY <1>2, <1>5 DEF LoopInv, LoopTypeOK, PlaceOK
  <2>6. LoopTypeOK'
    BY <1>2, <1>5, <2>4, <2>5 DEF LoopInv, LoopTypeOK
  <2>7. PlaceOK'
    BY <1>1, <1>2, <1>5, <2>3, <2>4, <2>5 DEF LoopInv, PlaceOK, RunsAreSettled
  <2>8. Remediations' = Remediations
    BY <2>4 DEF Remediations
  <2>9. ModelCallsOK'
    BY <1>1, <1>2, <2>3, <2>4, <2>8, CallsBeforeFacts DEF LoopInv, ModelCallsOK
  <2>10. CallsOf(loop.round + Remediations) \in Nat
    BY <1>1, <1>2, BatchFacts DEF LoopInv, PlaceOK, RunsAreSettled
  <2>11. ToolCallsOK'
    BY <1>1, <1>2, <2>3, <2>4, <2>8, <2>10 DEF LoopInv, ToolCallsOK
  <2>12. QED
    BY <2>6, <2>7, <2>9, <2>11 DEF LoopInv
<1>6. QED
  BY <1>4, <1>5 DEF ExecuteTool

LEMMA BatchDoneInv ==
    ASSUME LoopInv, BatchDone PROVE LoopInv'
<1>1. /\ loop.at \in Places /\ loop.phase \in Phases /\ loop.round \in 1..(Rounds + 1)
      /\ loop.attempt \in 0..MaxRetries /\ loop.calls \in Nat /\ Remediations \in {0, 1}
      /\ spent.attempts \in Nat /\ spent.executed \in Nat /\ spent.models \in Nat
      /\ spent.tools \in Nat /\ spent.cents \in Nat
      /\ loop.remediating \in BOOLEAN /\ loop.pending \in BOOLEAN /\ loop.attempted \in BOOLEAN
  BY Types
<1>2. loop.at = "batchDone" /\ UNCHANGED <<plan, spent, row, aborted, guard, decision>>
      /\ loop \in Loops /\ loop.phase = "answer" /\ loop.calls = 0 /\ result = "none"
      /\ loop.round \in 1..Rounds
  BY <1>1 DEF BatchDone, LoopInv, LoopTypeOK, PlaceOK
<1>3. spent \in [models : Nat, tools : Nat, cents : Nat, attempts : Nat, executed : Nat]
      /\ row \in {"none", "pending", "running", "settled"}
      /\ spent.attempts = spent.models /\ (plan.budgeted => spent.models <= MaxModelCalls)
      /\ (loop.at \notin {"stream", "settle", "ended", "abandoned"} => row # "running")
  BY DEF LoopInv, LoopTypeOK, PlaceOK, RunsAreSettled, ModelCallsOK
<1>4. ASSUME NEW with \in {"BUDGET_EXCEEDED", "MODEL_ABORTED", "completed"}, Ends(with)
      PROVE LoopInv'
  BY <1>2, <1>3, <1>4, EndsInv DEF Results
<1>5. ASSUME ~(plan.requirement /\ (loop.attempted \/ loop.satisfied)), plan.requirement,
             UNCHANGED result,
             loop' = [loop EXCEPT !.at = "round", !.pending = TRUE, !.attempted = TRUE]
      PROVE LoopInv'
  BY <1>2, <1>5, RemediationInv
<1>6. ASSUME UNCHANGED result, loop' = [loop EXCEPT !.at = "round", !.round = @ + 1]
      PROVE LoopInv'
  <2>1. loop.round + 1 \in Nat /\ loop.round + 1 \in 1..(Rounds + 1)
    BY <1>2
  <2>2. /\ loop' \in Loops /\ loop'.at = "round" /\ loop'.round = loop.round + 1
        /\ loop'.phase = loop.phase /\ loop'.attempt = loop.attempt /\ loop'.calls = loop.calls
        /\ loop'.pending = loop.pending /\ loop'.attempted = loop.attempted
        /\ loop'.remediating = loop.remediating
    BY <1>2, <1>6, <2>1 DEF Loops, Places
  <2>3. LoopTypeOK'
    BY <1>2, <1>6, <2>2 DEF LoopInv, LoopTypeOK
  <2>4. ~loop.pending
    BY <1>2 DEF LoopInv, PlaceOK, RunsAreSettled
  <2>5. PlaceOK'
    BY <1>1, <1>2, <1>6, <2>1, <2>2, <2>4 DEF LoopInv, PlaceOK, RunsAreSettled
  <2>6. Remediations' = Remediations /\ (loop.remediating => Remediations = 1)
    BY <2>2 DEF Remediations, LoopInv, PlaceOK
  <2>7. ModelCallsOK'
    BY <1>1, <1>2, <2>2, <2>4, <2>6, CallsBeforeFacts DEF LoopInv, PlaceOK, ModelCallsOK
  <2>8. CallsOf(loop.round + 1 - 1 + Remediations) = CallsOf(loop.round + Remediations)
    BY <1>1, <1>2, BatchFacts
  <2>9. ToolCallsOK'
    BY <1>1, <1>2, <2>2, <2>6, <2>8 DEF LoopInv, ToolCallsOK
  <2>10. QED
    BY <2>3, <2>5, <2>7, <2>9 DEF LoopInv
<1>7. QED
  BY <1>4, <1>5, <1>6 DEF BatchDone

LEMMA OutsideInv ==
    ASSUME LoopInv, Decide \/ Abort \/ UNCHANGED loopVars PROVE LoopInv'
<1>1. UNCHANGED <<plan, loop, spent, row, guard, result>>
  BY DEF Decide, Abort, loopVars
<1>2. /\ aborted' \in BOOLEAN /\ (aborted => aborted')
      /\ decision' \in {"none", "completed", "suspended", "failed"}
      /\ decision' # "none" => loop.at = "ended"
      /\ guard # "open" => decision' \in {"none", "failed"}
  BY DEF Decide, decides, Abort, loopVars, LoopInv, LoopTypeOK, PlaceOK
<1>3. LoopTypeOK'
  BY <1>1, <1>2 DEF LoopInv, LoopTypeOK
<1>4. PlaceOK'
  BY <1>1, <1>2 DEF LoopInv, PlaceOK, RunsAreSettled
<1>5. ModelCallsOK' /\ ToolCallsOK'
  BY <1>1 DEF LoopInv, ModelCallsOK, ToolCallsOK, Remediations
<1>6. QED
  BY <1>3, <1>4, <1>5 DEF LoopInv

\* Given up at an event that went out: the run has no outcome yet, or was settled.
LEMMA AbandonInv ==
    ASSUME LoopInv, Abandon PROVE LoopInv'
<1>1. /\ loop.at \in {"stream", "tool", "batchDone", "ended"}
      /\ loop.at = "ended" => result \in {"TOOL_FAILED", "completed"}
      /\ decision = "none" /\ UNCHANGED <<plan, spent, row, aborted, guard, result, decision>>
  BY DEF Abandon, atPublicYield, LoopInv, PlaceOK
<1>2. /\ loop' \in Loops /\ loop'.at = "abandoned"
      /\ loop'.phase = loop.phase /\ loop'.round = loop.round /\ loop'.attempt = loop.attempt
      /\ loop'.pending = loop.pending /\ loop'.remediating = loop.remediating
      /\ loop'.attempted = loop.attempted /\ loop'.calls = loop.calls
      /\ loop'.outcome = loop.outcome
  BY MovesLoop DEF Abandon, LoopInv, LoopTypeOK, Places
<1>3. row = "running" => loop.outcome = "none"
  BY <1>1 DEF LoopInv, PlaceOK, RunsAreSettled
<1>4. LoopTypeOK'
  BY <1>1, <1>2 DEF LoopInv, LoopTypeOK
<1>5. PlaceOK'
  BY <1>1, <1>2, <1>3 DEF LoopInv, PlaceOK, RunsAreSettled
<1>6. ModelCallsOK'
  BY <1>1, <1>2, LastCalls DEF LoopInv, ModelCallsOK
<1>7. ToolCallsOK'
  BY <1>1, <1>2, LastCalls, SpentTypes DEF LoopInv, ToolCallsOK
<1>8. QED
  BY <1>4, <1>5, <1>6, <1>7 DEF LoopInv

-------------------------------------------------------------------------------
(* The theorems.                                                                *)

LEMMA LoopInitInv == LoopInit => LoopInv
<1> SUFFICES ASSUME LoopInit PROVE LoopInv
  OBVIOUS
<1>1. /\ loop \in Loops /\ loop.at = "round" /\ loop.phase = "answer" /\ loop.round = 1
      /\ loop.attempt = 0 /\ ~loop.pending /\ ~loop.remediating /\ ~loop.attempted
      /\ loop.calls = 0 /\ loop.outcome = "none"
  BY DEF LoopInit, NewLoop, Loops, Places, Phases, Outcomes
<1>2. LoopTypeOK
  BY <1>1 DEF LoopInit, LoopTypeOK, NothingSpent, Results
<1>3. PlaceOK
  BY <1>1 DEF LoopInit, PlaceOK, RunsAreSettled
<1>4. Remediations = 0 /\ 1 \in 1..(Rounds + 1) /\ 0 \in 0..(Rounds + 1)
  BY <1>1 DEF Remediations
<1>5. ModelCallsOK
  BY <1>1, <1>4, CallsBeforeFacts DEF LoopInit, NothingSpent, ModelCallsOK
<1>6. ToolCallsOK
  <2>1. CallsOf(0) \in Nat /\ 1 - 1 + 0 = 0
    BY <1>4, CallsOfFacts
  <2>2. QED
    BY <1>1, <1>4, <2>1 DEF LoopInit, NothingSpent, ToolCallsOK
<1>7. QED
  BY <1>2, <1>3, <1>5, <1>6 DEF LoopInv

LEMMA LoopNextInv == LoopInv /\ [LoopNext]_loopVars => LoopInv'
  BY BeginRoundInv, AttemptInv, WaitInv, CheckInv, StreamStepInv, SettleRunInv, AfterInv,
     ReserveInv, StartToolInv, ExecuteToolInv, BatchDoneInv, OutsideInv, AbandonInv
  DEF LoopNext, LoopStep

\* Wherever the loop is, its retries, remediation and batches are counted
\* (agent-loop.ts:174-611, turn-usage-budget-controller.ts:111-221).
THEOREM LoopInvariant == LoopSpec => []LoopInv
<1>1. LoopInit => LoopInv
  BY LoopInitInv
<1>2. LoopInv /\ [LoopNext]_loopVars => LoopInv'
  BY LoopNextInv
<1>3. QED
  BY <1>1, <1>2, PTL DEF LoopSpec

\* What was really called stays within the budget of the turn, for every budget
\* (turn-usage-budget-controller.ts:111-221).
THEOREM LoopCallsWithinBudget == LoopSpec => []CallsWithinBudget
<1>1. LoopInv => CallsWithinBudget
  <2> SUFFICES ASSUME LoopInv, plan.budgeted
               PROVE  spent.attempts <= MaxModelCalls /\ spent.executed <= MaxToolCalls
    BY DEF CallsWithinBudget
  <2>1. /\ loop.at \in Places /\ loop.phase \in Phases /\ loop.round \in 1..(Rounds + 1)
      /\ loop.attempt \in 0..MaxRetries /\ loop.calls \in Nat /\ Remediations \in {0, 1}
      /\ spent.attempts \in Nat /\ spent.executed \in Nat /\ spent.models \in Nat
      /\ spent.tools \in Nat /\ spent.cents \in Nat
      /\ loop.remediating \in BOOLEAN /\ loop.pending \in BOOLEAN /\ loop.attempted \in BOOLEAN
    BY Types
  <2>2. spent.executed <= spent.tools
    BY <2>1 DEF LoopInv, PlaceOK, ToolCallsOK
  <2>3. QED
    BY <2>1, <2>2 DEF LoopInv, ModelCallsOK, ToolCallsOK
<1>2. QED
  BY <1>1, LoopInvariant, PTL

\* Without a budget too: the rounds, their retries, one remediation and the synthesis
\* (agent-loop.ts:174-455).
THEOREM LoopCallsAreBounded == LoopSpec => []CallsAreBounded
<1>1. LoopInv => CallsAreBounded
  <2> SUFFICES ASSUME LoopInv PROVE CallsAreBounded
    OBVIOUS
  <2>1. /\ loop.at \in Places /\ loop.phase \in Phases /\ loop.round \in 1..(Rounds + 1)
      /\ loop.attempt \in 0..MaxRetries /\ loop.calls \in Nat /\ Remediations \in {0, 1}
      /\ spent.attempts \in Nat /\ spent.executed \in Nat /\ spent.models \in Nat
      /\ spent.tools \in Nat /\ spent.cents \in Nat
      /\ loop.remediating \in BOOLEAN /\ loop.pending \in BOOLEAN /\ loop.attempted \in BOOLEAN
    BY Types
  <2>2. /\ CallsBefore(loop.round) \in Nat
        /\ CallsBefore(loop.round) + MaxRetries + 1 <= CallsBefore(Rounds + 2)
        /\ CallsBefore(Rounds + 2) \in Nat
    BY <2>1, CallsBeforeFacts
  <2>3. spent.attempts <= CallsBefore(Rounds + 2) + 1
    BY <2>1, <2>2 DEF LoopInv, ModelCallsOK, PlaceOK, Places
  <2>4. /\ loop.round - 1 + Remediations \in 0..(Rounds + 1)
        /\ loop.at \in {"tool", "executing", "batchDone"} =>
             loop.round + Remediations \in 0..(Rounds + 1)
    BY <2>1 DEF LoopInv, PlaceOK, RunsAreSettled
  <2>5. /\ CallsOf(loop.round - 1 + Remediations) <= CallsOf(Rounds + 1)
        /\ CallsOf(loop.round - 1 + Remediations) \in Nat
        /\ CallsOf(Rounds + 1) \in Nat
    BY <2>4, CallsOfFacts
  <2>6. loop.at \in {"tool", "executing", "batchDone"} =>
           /\ CallsOf(loop.round + Remediations) <= CallsOf(Rounds + 1)
           /\ CallsOf(loop.round + Remediations) \in Nat
    BY <2>4, CallsOfFacts
  <2>7. spent.executed <= CallsOf(Rounds + 1)
    BY <2>1, <2>5, <2>6 DEF LoopInv, ToolCallsOK, PlaceOK, Places
  <2>8. QED
    BY <2>3, <2>7 DEF CallsAreBounded, CallsBefore, CallsOf
<1>2. QED
  BY <1>1, LoopInvariant, PTL

\* A model run is left running by a ledger that failed, or by a Gateway that gave the turn
\* up in mid stream, and by nothing else: no retry, remediation, tool batch or decision
\* (model-run-lifecycle.ts:92-146, gateway-service.ts:149-194).
THEOREM LoopRunsAreSettled == LoopSpec => []RunsAreSettled
<1>1. LoopInv => RunsAreSettled
  BY DEF LoopInv, PlaceOK, RunsAreSettled
<1>2. QED
  BY <1>1, LoopInvariant, PTL

\* Once the guard blocked the answer no tool is started, and the turn fails
\* (loop-runner.ts:110-245).
THEOREM LoopBlockStands == LoopSpec => BlockStands
<1>1. LoopInv /\ [LoopNext]_loopVars =>
        [guard # "open" => /\ spent'.executed = spent.executed
                           /\ decision' \in {"none", "failed"}]_loopVars
  <2> SUFFICES ASSUME LoopInv, LoopNext, guard # "open"
               PROVE  spent'.executed = spent.executed /\ decision' \in {"none", "failed"}
    OBVIOUS
  <2>1. aborted = TRUE /\ decision \in {"none", "failed"}
        /\ spent \in [models : Nat, tools : Nat, cents : Nat, attempts : Nat, executed : Nat]
    BY DEF LoopInv, LoopTypeOK, PlaceOK
  <2>2. CASE Decide
    BY <2>1, <2>2 DEF Decide, decides
  <2>3. CASE Check \/ SettleRun \/ Reserve
    BY <2>1, <2>3 DEF Check, SettleRun, Reserve
  <2>4. CASE StartTool
    BY <2>1, <2>4 DEF StartTool, stopsBeforeTool
  <2>5. CASE BeginRound \/ Attempt \/ Wait \/ Text \/ StreamEnds \/ After \/ ExecuteTool \/ BatchDone
          \/ Abort \/ Abandon
    BY <2>1, <2>5 DEF BeginRound, Attempt, Wait, Text, StreamEnds, After, ExecuteTool, BatchDone, Abort,
           Abandon
  <2>6. QED
    BY <2>2, <2>3, <2>4, <2>5 DEF LoopNext, LoopStep
<1>2. QED
  BY <1>1, LoopInvariant, PTL DEF LoopSpec, BlockStands
===============================================================================

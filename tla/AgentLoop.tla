-------------------------------- MODULE AgentLoop --------------------------------
(* AgentLoopEngine.stream with the consumer that drives it (runTurnLoop), its     *)
(* usage budget, and the ledger of Model Runs: one turn, from the first model     *)
(* call to the outcome that TurnApplication settles.  Generator and consumer      *)
(* alternate; the AbortSignal they share is raised by the user's cancellation at  *)
(* any time, and by the consumer when the output guard blocks the answer.  The    *)
(* Gateway behind the consumer may stop asking at any event that it was given.    *)
EXTENDS Naturals

CONSTANTS
    Rounds,         \* maxToolRounds, 1..6
    MaxRetries,     \* MAX_MODEL_RETRIES
    MaxCalls,       \* MAX_TOOL_CALLS_PER_TURN, tool calls of one model run
    MaxModelCalls, MaxToolCalls, MaxCostCents,   \* the TurnUsageBudget
    Costs           \* estimates of what a model call cost, rounded to cents

ASSUME LoopAssumption ==
    /\ Rounds \in 1..6 /\ MaxRetries \in Nat /\ MaxCalls \in Nat \ {0}
    /\ MaxModelCalls \in Nat \ {0} /\ MaxToolCalls \in Nat \ {0}
    /\ MaxCostCents \in Nat \ {0} /\ Costs \subseteq Nat

VARIABLES
    plan,     \* what the Profile decided, see Plans
    loop,     \* the generator, see Loops
    spent,    \* the controller's counters, and what really happened (history)
    row,      \* model_runs.status of the run in progress
    aborted,  \* controller.signal.aborted
    guard,    \* the consumer's outputBlocked and outputGuardFailed
    result,   \* the event that ended the stream
    decision  \* what TurnApplicationService makes of it

loopVars == <<plan, loop, spent, row, aborted, guard, result, decision>>

Plans == [budgeted : BOOLEAN,      \* there is a usageBudget
          requirement : BOOLEAN,   \* completionRequirement
          remediation : BOOLEAN,   \* toolRemediation
          offered : BOOLEAN]       \* the model is offered the tool of either

Phases == {"answer", "synthesis"}
Places == {"round", "attempt", "wait", "check", "stream", "settle", "after", "tools",
           "tool", "executing", "batchDone", "ended", "abandoned"}
Outcomes == {"none", "ok", "retryable", "fatal"}

Loops == [at : Places, phase : Phases, round : Nat, attempt : Nat,
          pending : BOOLEAN,      \* remediationPending
          remediating : BOOLEAN,  \* currentCallIsRemediation
          attempted : BOOLEAN,    \* remediationAttempted
          satisfied : BOOLEAN,    \* requirementSatisfied
          emitted : BOOLEAN,      \* emittedEvent
          outcome : Outcomes,     \* of validateModelRun
          calls : Nat]            \* tool calls still to execute

Results == {"none", "completed", "MODEL_ABORTED", "BUDGET_EXCEEDED", "RUNTIME_FAILED",
            "MODEL_FAILED", "INVALID_MODEL_STREAM", "TOOL_FAILED", "APPROVAL"}

-------------------------------------------------------------------------------
(* TurnUsageBudgetController                                                    *)

modelCallsOfAttempts == spent.models + 1

\* checkBeforeModelCall; the clock and the input tokens may exceed their bounds too.
breaksBeforeCall ==
    \/ spent.models + 1 > MaxModelCalls
    \/ spent.cents >= MaxCostCents

\* Mutant: the batch is counted when its last call has returned.
projectedLate == spent.tools
projected == spent.tools + loop.calls

-------------------------------------------------------------------------------
(* Steps of the generator                                                       *)

Ends(with) == /\ result' = with
              /\ loop' = [loop EXCEPT !.at = "ended"]
Moves(place) == loop' = [loop EXCEPT !.at = place]

\* The head of the for loop, and behind it the synthesis.
BeginRound ==
    /\ loop.at = "round"
    /\ loop' = [loop EXCEPT
         !.at = "attempt", !.attempt = 0, !.emitted = FALSE, !.outcome = "none",
         !.phase = IF loop.round <= Rounds THEN "answer" ELSE "synthesis",
         !.remediating = loop.pending /\ loop.round <= Rounds,
         !.pending = FALSE]
    /\ UNCHANGED <<plan, spent, row, aborted, guard, result, decision>>

\* The signal is looked at before a retry and before a remediation only.
Attempt ==
    /\ loop.at = "attempt"
    /\ IF (loop.attempt > 0 \/ loop.remediating) /\ aborted
       THEN Ends("MODEL_ABORTED")
       ELSE Moves(IF loop.attempt > 0 THEN "wait" ELSE "check") /\ UNCHANGED result
    /\ UNCHANGED <<plan, spent, row, aborted, guard, decision>>

\* Mutant: an abort clears the timer and wakes nobody.
WaitsForTimer ==
    /\ loop.at = "wait" /\ ~aborted
    /\ Moves("check")
    /\ UNCHANGED <<plan, spent, row, aborted, guard, result, decision>>

\* retryDependencies.wait
Wait ==
    /\ loop.at = "wait"
    /\ IF aborted THEN Ends("MODEL_ABORTED") ELSE Moves("check") /\ UNCHANGED result
    /\ UNCHANGED <<plan, spent, row, aborted, guard, decision>>

\* The budget, then AuditedModelRunLifecycle.start: a row is created and claimed.
\* A start that throws leaves no row, a pending one, or one that runs.
Check ==
    /\ loop.at = "check"
    /\ \/ /\ plan.budgeted            \* breaksBeforeCall, the clock or the tokens
          /\ Ends("BUDGET_EXCEEDED")
          /\ UNCHANGED <<spent, row>>
       \/ /\ plan.budgeted => ~breaksBeforeCall
          /\ spent' = [spent EXCEPT !.models = modelCallsOfAttempts,
                                    !.attempts = @ + 1]
          /\ \/ /\ row' = "running"
                /\ loop' = [loop EXCEPT !.at = "stream", !.emitted = FALSE, !.outcome = "none"]
                /\ UNCHANGED result
             \/ /\ row' \in {"none", "pending", "running"}
                /\ Ends("RUNTIME_FAILED")
    /\ UNCHANGED <<plan, aborted, guard, decision>>

\* validateModelRun yields an event: text reaches the guard, usage the budget.
Text ==
    /\ loop.at = "stream" /\ ~loop.emitted
    /\ loop' = [loop EXCEPT !.emitted = TRUE]
    /\ \/ UNCHANGED <<aborted, guard>>
       \/ /\ guard = "open"
          /\ guard' \in {"blocked", "failed"}
          /\ aborted' = TRUE
    /\ UNCHANGED <<plan, spent, row, result, decision>>

\* validateModelRun returns: a validated terminal event, or a failure.
StreamEnds ==
    /\ loop.at = "stream"
    /\ \/ /\ loop.emitted
          /\ \E n \in 0..MaxCalls :
               /\ loop.phase = "synthesis" => n = 0
               /\ loop' = [loop EXCEPT !.at = "settle", !.outcome = "ok", !.calls = n]
       \/ \E outcome \in {"retryable", "fatal"} :
               loop' = [loop EXCEPT !.at = "settle", !.outcome = outcome, !.calls = 0]
    /\ UNCHANGED <<plan, spent, row, aborted, guard, result, decision>>

\* Mutant: only a run that succeeded is settled.
runSettledOnSuccess == IF loop.outcome = "ok" THEN "settled" ELSE row
runSettled == "settled"

\* AuditedModelRunLifecycle.settle, then checkAfterModelRun accounts for the usage.
SettleRun ==
    /\ loop.at = "settle"
    /\ \/ /\ row' = runSettled
          /\ \E cost \in Costs : spent' = [spent EXCEPT !.cents = @ + cost]
          /\ Moves("after")
          /\ UNCHANGED result
       \/ /\ row' \in {"running", "settled"}
          /\ Ends("RUNTIME_FAILED")
          /\ UNCHANGED spent
    /\ UNCHANGED <<plan, aborted, guard, decision>>

\* Nothing was emitted, and the provider calls the error retryable.
retries == loop.outcome = "retryable" /\ ~loop.emitted /\ loop.attempt < MaxRetries
           /\ ~loop.remediating

\* Mutant: whether a remediation was attempted is forgotten.
remediateAgain == plan.offered /\ (plan.requirement \/ plan.remediation)
\* A tool call is missing and was not asked for yet.
remediates == ~loop.attempted /\ plan.offered /\ (plan.requirement \/ plan.remediation)

\* How an attempt ends the round, or not.
After ==
    /\ loop.at = "after"
    /\ CASE loop.outcome # "ok" /\ retries ->
              loop' = [loop EXCEPT !.at = "attempt", !.attempt = @ + 1] /\ UNCHANGED result
         [] loop.outcome # "ok" /\ ~retries -> Ends("MODEL_FAILED")
         [] loop.outcome = "ok" ->
              \/ plan.budgeted /\ Ends("BUDGET_EXCEEDED")   \* tokens, cost or clock
              \/ /\ plan.budgeted => spent.cents <= MaxCostCents
                 /\ CASE loop.calls > 0 ->
                           IF aborted THEN Ends("MODEL_ABORTED")
                           ELSE Moves("tools") /\ UNCHANGED result
                      [] loop.calls = 0 /\ loop.phase = "synthesis" -> Ends("completed")
                      [] OTHER ->
                           IF aborted THEN Ends("MODEL_ABORTED")
                           ELSE IF remediates
                           THEN \/ /\ loop' = [loop EXCEPT !.at = "round", !.pending = TRUE,
                                                           !.attempted = TRUE]
                                   /\ UNCHANGED result
                                \/ ~plan.requirement /\ Ends("completed")  \* shouldAttempt
                           ELSE Ends("completed")
    /\ UNCHANGED <<plan, spent, row, aborted, guard, decision>>

\* checkBeforeToolExecution reserves the batch.
Reserve ==
    /\ loop.at = "tools"
    /\ IF plan.budgeted /\ projected > MaxToolCalls
       THEN Ends("BUDGET_EXCEEDED") /\ UNCHANGED spent
       ELSE /\ Moves("tool")
            /\ spent' = [spent EXCEPT !.tools = projected]
            /\ UNCHANGED result
    /\ UNCHANGED <<plan, row, aborted, guard, decision>>

\* Mutant: the signal is looked at once per batch.
stopsNever == FALSE
stopsBeforeTool == aborted

\* tool.started is yielded; the consumer registers the call.
StartTool ==
    /\ loop.at = "tool"
    /\ IF stopsBeforeTool THEN Ends("MODEL_ABORTED") /\ UNCHANGED spent
       ELSE /\ Moves("executing")
            /\ spent' = [spent EXCEPT !.executed = @ + 1]
            /\ UNCHANGED result
    /\ UNCHANGED <<plan, row, aborted, guard, decision>>

\* executeTools returns; the consumer shows the result to the guard.
ExecuteTool ==
    /\ loop.at = "executing"
    /\ \/ /\ \E satisfies \in BOOLEAN :
               loop' = [loop EXCEPT !.calls = @ - 1,
                          !.satisfied = @ \/ (plan.requirement /\ satisfies),
                          !.at = IF loop.calls = 1 THEN "batchDone" ELSE "tool"]
          /\ UNCHANGED result
          /\ \/ UNCHANGED <<aborted, guard>>
             \/ /\ guard = "open"
                /\ guard' = "failed"
                /\ aborted' = TRUE
       \/ /\ \E failure \in {"TOOL_FAILED", "APPROVAL", "INVALID_MODEL_STREAM"} : Ends(failure)
          /\ UNCHANGED <<aborted, guard>>
    /\ UNCHANGED <<plan, spent, row, decision>>

\* After a batch: the completion requirement, and the next round.
BatchDone ==
    /\ loop.at = "batchDone"
    /\ IF plan.requirement /\ (loop.attempted \/ loop.satisfied)
       THEN IF aborted THEN Ends("MODEL_ABORTED")
            ELSE Ends("completed") \/ (plan.budgeted /\ Ends("BUDGET_EXCEEDED"))
       ELSE /\ loop' = IF plan.requirement /\ plan.offered /\ loop.round = Rounds
                       THEN [loop EXCEPT !.at = "round", !.pending = TRUE, !.attempted = TRUE]
                       ELSE [loop EXCEPT !.at = "round", !.round = @ + 1]
            /\ UNCHANGED result
    /\ UNCHANGED <<plan, spent, row, aborted, guard, decision>>

\* TurnApplicationService.run: guard, completion, budget, cancellation, approval.  A
\* completion that the guard, finalize or the settlement refuses is a failure; so is one
\* whose record fails as well, which the Gateway then writes (gateway-service.ts:194).
decides ==
    IF guard # "open" THEN {"failed"}
    ELSE IF result = "completed" THEN {"completed", "failed"}
    ELSE IF result = "APPROVAL" THEN {"suspended"} ELSE {"failed"}

Decide ==
    /\ loop.at = "ended" /\ decision = "none"
    /\ decision' \in decides
    /\ UNCHANGED <<plan, loop, spent, row, aborted, guard, result>>

-------------------------------------------------------------------------------
(* Steps of the Gateway                                                         *)

\* The generators are suspended at an event that went out to the Gateway.
atPublicYield ==
    \/ loop.at = "stream" /\ loop.emitted /\ guard # "failed"   \* message.delta
    \/ loop.at \in {"tool", "batchDone"} /\ guard = "open"       \* tool.started, tool.completed
    \/ /\ loop.at = "ended" /\ guard = "open" /\ decision = "none"
       /\ result \in {"TOOL_FAILED", "completed"}   \* tool.failed; what finish() held back

\* GatewayService.handle returns the runner after a cancellation or an extension that
\* the client does not know, or drops it when an append throws.  A return that finds
\* the generator in an await takes effect at its next public yield, if there is one.
\* Nothing there settles the Model Run or the turn.
Abandon ==
    /\ atPublicYield
    /\ loop' = [loop EXCEPT !.at = "abandoned"]
    /\ UNCHANGED <<plan, spent, row, aborted, guard, result, decision>>

\* The cancellation of the turn reaches the controller.
Abort ==
    /\ ~aborted /\ decision = "none"
    /\ aborted' = TRUE
    /\ UNCHANGED <<plan, loop, spent, row, guard, result, decision>>

-------------------------------------------------------------------------------
NewLoop == [at |-> "round", phase |-> "answer", round |-> 1, attempt |-> 0,
            pending |-> FALSE, remediating |-> FALSE, attempted |-> FALSE,
            satisfied |-> FALSE, emitted |-> FALSE, outcome |-> "none", calls |-> 0]

NothingSpent == [models |-> 0, tools |-> 0, cents |-> 0, attempts |-> 0, executed |-> 0]

LoopInit ==
    /\ plan \in Plans
    /\ loop = NewLoop
    /\ spent = NothingSpent
    /\ row = "none" /\ aborted = FALSE /\ guard = "open"
    /\ result = "none" /\ decision = "none"

LoopStep == BeginRound \/ Attempt \/ Wait \/ Check \/ Text \/ StreamEnds \/ SettleRun \/ After
        \/ Reserve \/ StartTool \/ ExecuteTool \/ BatchDone \/ Decide

LoopNext == LoopStep \/ Abort \/ Abandon

\* A generator that is asked comes to its next event or its end: model gateway, tools,
\* guard and ledgers answer, fail or time out.  A consumer that stops asking takes the
\* step Abandon, of which nothing is assumed, as of Abort.
LoopFairness == WF_loopVars(LoopStep)

LoopSpec == LoopInit /\ [][LoopNext]_loopVars /\ LoopFairness

-------------------------------------------------------------------------------
LoopTypeOK ==
    /\ plan \in Plans
    /\ loop \in Loops
    /\ spent \in [models : Nat, tools : Nat, cents : Nat,
                  attempts : Nat, executed : Nat]
    /\ row \in {"none", "pending", "running", "settled"}
    /\ aborted \in BOOLEAN
    /\ guard \in {"open", "blocked", "failed"}
    /\ result \in Results
    /\ decision \in {"none", "completed", "suspended", "failed"}

\* Retries, remediation and synthesis cannot get round the budget: the calls that
\* were made, not those that were counted, stay within it.
CallsWithinBudget ==
    plan.budgeted => spent.attempts <= MaxModelCalls /\ spent.executed <= MaxToolCalls

\* Without a budget too the loop is finite: every round may retry, and one remediation
\* and the synthesis come on top of them, whatever the model and the tools do.
CallsAreBounded ==
    /\ spent.attempts <= (Rounds + 1) * (MaxRetries + 1) + 1
    /\ spent.executed <= (Rounds + 1) * MaxCalls

\* A blocked answer stands, wherever in the loop the guard stopped it: no tool is
\* started any more (loop-runner.ts:139-140), and the turn is neither completed nor
\* suspended for an approval.
BlockStands ==
    [][guard # "open" => /\ spent'.executed = spent.executed
                         /\ decision' \in {"none", "failed"}]_loopVars

\* A model run that was started is settled before the loop does anything else: no retry,
\* no remediation, tool batch or decision leaves one running.  Two ways to leave one:
\* its ledger failed, or the Gateway gave the turn up while the answer was streaming
\* (agent-loop.ts:285); given up at any later event, the loop has settled it.
RunsAreSettled ==
    row = "running" /\ loop.at \notin {"stream", "settle"} =>
        \/ result = "RUNTIME_FAILED"
        \/ loop.at = "abandoned" /\ loop.outcome = "none"

\* A loop that the Gateway does not give up comes to a decision, with every combination
\* of requirement, remediation and retries, and without a budget to stop it.
LoopEnds == <>(decision # "none" \/ loop.at = "abandoned")

-------------------------------------------------------------------------------
(* The inductive invariant.                                                     *)

\* Model calls of the rounds before r, without a remediation.
CallsBefore(r) == (r - 1) * (MaxRetries + 1)
\* Tool calls of n batches.
CallsOf(n) == n * MaxCalls
Remediations == IF loop.attempted THEN 1 ELSE 0

\* Where in a round the loop is, and what its flags mean there.
PlaceOK ==
    /\ loop.round \in 1..(Rounds + 1) /\ loop.attempt <= MaxRetries
    /\ loop.phase = "answer" /\ loop.at # "round" => loop.round <= Rounds
    /\ loop.at \in {"tools", "tool", "executing", "batchDone"} => loop.phase = "answer"
    /\ loop.phase = "synthesis" => loop.calls = 0
    /\ loop.pending => /\ loop.at \in {"round", "ended", "abandoned"}
                       /\ loop.round <= Rounds /\ loop.attempted
    /\ loop.remediating => loop.attempted
    /\ loop.remediating /\ loop.at # "round" => loop.attempt = 0
    /\ loop.at \in {"tools", "tool", "executing"} => loop.calls >= 1
    /\ loop.at \in {"round", "attempt", "wait", "check", "batchDone"} => loop.calls = 0
    /\ loop.at \in {"settle", "after"} /\ loop.outcome # "ok" => loop.calls = 0
    /\ loop.at = "stream" => loop.outcome = "none"
    /\ loop.at = "ended" => result # "none"
    /\ result # "none" => loop.at \in {"ended", "abandoned"}
    /\ decision # "none" => loop.at = "ended"
    /\ guard # "open" => aborted /\ decision \in {"none", "failed"}
    /\ RunsAreSettled

\* How many model calls were made, and are still counted as made, at a place.
ModelCallsOK ==
    /\ spent.attempts = spent.models
    /\ plan.budgeted => spent.models <= MaxModelCalls
    /\ spent.attempts <=
         CASE loop.at = "round" /\ loop.pending -> CallsBefore(loop.round) + MaxRetries + 1
           [] loop.at = "round" /\ ~loop.pending -> CallsBefore(loop.round) + Remediations
           [] loop.at \in {"ended", "abandoned"} -> CallsBefore(Rounds + 2) + 1
           [] loop.at \in {"attempt", "wait", "check"} ->
                CallsBefore(loop.round)
                  + IF loop.remediating THEN MaxRetries + 1 ELSE Remediations + loop.attempt
           [] OTHER ->
                CallsBefore(loop.round) + 1
                  + IF loop.remediating THEN MaxRetries + 1 ELSE Remediations + loop.attempt

\* How many tools were executed, and how many of the batch are still to come.
ToolCallsOK ==
    /\ loop.calls <= MaxCalls
    /\ plan.budgeted => spent.tools <= MaxToolCalls
    /\ spent.executed + (CASE loop.at = "tool" -> loop.calls
                           [] loop.at = "executing" -> loop.calls - 1
                           [] OTHER -> 0) <= spent.tools
    /\ CASE loop.at \in {"ended", "abandoned"} -> spent.executed <= CallsOf(Rounds + 1)
         [] loop.at = "tool" ->
              spent.executed + loop.calls <= CallsOf(loop.round + Remediations)
         [] loop.at = "executing" ->
              spent.executed + loop.calls - 1 <= CallsOf(loop.round + Remediations)
         [] loop.at = "batchDone" -> spent.executed <= CallsOf(loop.round + Remediations)
         [] OTHER -> spent.executed <= CallsOf(loop.round - 1 + Remediations)

LoopInv == LoopTypeOK /\ PlaceOK /\ ModelCallsOK /\ ToolCallsOK
===============================================================================

------------------------------- MODULE ToolKernel ------------------------------
(* packages/agent-runtime/src/tool-kernel over the ledgers of packages/db: one  *)
(* Tool Call, identified by its executionId, as every process that is asked to  *)
(* execute it sees it.  Each ledger transaction is a step of its own and can    *)
(* fail or lose its acknowledgement; the call that was sent to the adapter goes *)
(* on when the kernel has stopped waiting for it, or has died.                  *)
EXTENDS Naturals

CONSTANTS
    Kernels,      \* processes that hold a ToolKernel
    Requests,     \* semantics (tool, arguments, scope) sent under this executionId
    NoRequest,
    MaxFaults     \* failed or unacknowledged transactions, process deaths

ASSUME KernelAssumption == MaxFaults \in Nat /\ NoRequest \notin Requests

VARIABLES
    adapter,    \* the tool: [write, risky, prepares]; risky: l2 or l3 and not approved
    operation,  \* agent_operations.status is pending or running
    call,       \* the row of tool_calls, see Calls
    effect,     \* tool_effects.status of the call
    remote,     \* what became of the request that was sent to the adapter
    dispatches, \* how many such requests were sent (history)
    kernel,     \* per process, the entry of its execution cache, see Entries
    resolver,   \* per source, the decision about to be recorded
    verdict,    \* the row of tool_effect_reconciliations
    faults

vars == <<adapter, operation, call, effect, remote, dispatches, kernel, resolver,
          verdict, faults>>

Codes == {"none", "idempotency_conflict", "ledger_unavailable", "tool_cancelled",
          "execution_in_progress", "result_replay_required", "approval_required",
          "approval_preparation_failed", "invalid_output", "tool_timeout",
          "tool_failed", "write_outcome_unknown"}

Settled == {"succeeded", "failed", "outcome_unknown"}
Calls == [status : {"absent", "pending", "running"} \cup Settled,
          request : Requests \cup {NoRequest}, code : Codes]

Stages == {"absent", "create", "route", "prepare", "unprepared", "mark", "intend",
           "invoke", "wait", "commit", "close", "failEffect", "failCall", "answered"}

\* An entry of executions: a call on its way, or its settled answer.
Entries == [stage : Stages, request : Requests \cup {NoRequest},
            started : BOOLEAN,             \* invocationStarted
            effect : BOOLEAN,              \* an effect was intended and acknowledged
            code : Codes, retryable : BOOLEAN]

NoEntry == [stage |-> "absent", request |-> NoRequest, started |-> FALSE,
            effect |-> FALSE, code |-> "none", retryable |-> FALSE]

Sources == {"manual", "adapter"}
Resolutions == {"confirmed_committed", "confirmed_not_committed"}
Verdicts == [source : Sources, resolution : Resolutions]
NoVerdict == [source |-> "none", resolution |-> "none"]

-------------------------------------------------------------------------------
(* DrizzleAgentToolCallRepository and DrizzleToolEffectRepository: the row that *)
(* a transaction leaves.                                                        *)

\* A transaction commits, fails, or commits without its acknowledgement.
Fates == {"ok", "error", "lost"}
Meets(fate) ==
    /\ fate # "ok" => faults < MaxFaults
    /\ faults' = IF fate = "ok" THEN faults ELSE faults + 1

Writes(fate, old, new) == IF fate = "error" THEN old ELSE new

\* Mutant: settle looks for the row whatever its status.
settleAny(c, status, code) == [c EXCEPT !.status = status, !.code = code]

settle(c, status, code) ==
    IF c.status = "running" THEN [c EXCEPT !.status = status, !.code = code] ELSE c

markRunning(c) == IF c.status = "pending" THEN [c EXCEPT !.status = "running"] ELSE c

\* Mutant: a settled effect is overwritten.
settleEffectAny(status) == status
settleEffect(status) == IF effect = "intended" THEN status ELSE effect

canIntend == operation /\ adapter.write /\ call.status = "running"

-------------------------------------------------------------------------------
(* ToolKernel.execute and executeToolLifecycle                                  *)

At(k, stage) == kernel[k].stage = stage
Goes(k, stage) == kernel' = [kernel EXCEPT ![k].stage = stage]
Answers(k, code, retryable) ==
    kernel' = [kernel EXCEPT ![k].stage = "answered", ![k].code = code,
                             ![k].retryable = retryable]

\* execute: the executionId is not cached.  A cached one awaits the same answer, or
\* is told of the conflict, and changes nothing.
Execute(k, r) ==
    /\ At(k, "absent")
    /\ kernel' = [kernel EXCEPT ![k] = [NoEntry EXCEPT !.stage = "create", !.request = r]]
    /\ UNCHANGED <<adapter, operation, call, effect, remote, dispatches, resolver, verdict, faults>>

\* ensureCacheCapacity: another executionId takes the place of a settled entry.
Evict(k) ==
    /\ At(k, "answered")
    /\ kernel' = [kernel EXCEPT ![k] = NoEntry]
    /\ UNCHANGED <<adapter, operation, call, effect, remote, dispatches, resolver, verdict, faults>>

\* Mutant: a pending call is taken up again, as its replay for an approval is.
refusesStarted == call.status # "pending"

\* Whether the kernel refuses the call that createOrGet found.
refusesReplay == call.status # "pending" \/ ~adapter.risky

CreateOrGet(k) ==
    /\ At(k, "create")
    /\ \E fate \in Fates :
        /\ Meets(fate)
        /\ IF call.status = "absent"
           THEN /\ call' = Writes(IF operation THEN fate ELSE "error", call,
                                  [call EXCEPT !.status = "pending",
                                               !.request = kernel[k].request])
                /\ IF fate = "ok" /\ operation
                   THEN Goes(k, "route")
                   ELSE Answers(k, "ledger_unavailable", TRUE)
           ELSE /\ UNCHANGED call
                /\ CASE fate # "ok" -> Answers(k, "ledger_unavailable", TRUE)
                     [] fate = "ok" /\ call.request # kernel[k].request ->
                            Answers(k, "idempotency_conflict", FALSE)
                     [] OTHER ->
                            IF ~refusesReplay THEN Goes(k, "route")
                            ELSE Answers(k, IF call.status \in {"pending", "running"}
                                            THEN "execution_in_progress"
                                            ELSE "result_replay_required", FALSE)
    /\ UNCHANGED <<adapter, operation, effect, remote, dispatches, resolver, verdict>>

\* The signal is aborted already; otherwise approval or invocation.
Route(k) ==
    /\ At(k, "route")
    /\ \/ /\ Goes(k, IF adapter.risky THEN "prepare" ELSE "mark")
          /\ UNCHANGED <<call, faults>>
       \/ \E fate \in Fates :
            /\ Meets(fate)
            /\ call' = Writes(fate, call, settle(call, "failed", "tool_cancelled"))
            /\ IF fate = "ok" THEN Answers(k, "tool_cancelled", FALSE)
               ELSE Answers(k, "ledger_unavailable", TRUE)
    /\ UNCHANGED <<adapter, operation, effect, remote, dispatches, resolver, verdict>>

\* prepareToolApproval: the adapter prepares an intent, or fails, times out or is
\* cancelled; then the call is settled.
Prepare(k) ==
    /\ At(k, "prepare")
    /\ \/ adapter.prepares /\ Answers(k, "approval_required", FALSE)
       \/ Goes(k, "unprepared")
    /\ UNCHANGED <<adapter, operation, call, effect, remote, dispatches, resolver, verdict, faults>>

Unprepared(k) ==
    /\ At(k, "unprepared")
    /\ \E fate \in Fates, code \in {"approval_preparation_failed", "tool_cancelled"} :
        /\ code = "tool_cancelled" => adapter.prepares
        /\ Meets(fate)
        /\ call' = Writes(fate, call, settle(call, "failed", code))
        /\ IF fate = "ok"
           THEN Answers(k, code, adapter.prepares /\ code # "tool_cancelled")
           ELSE Answers(k, "ledger_unavailable", TRUE)
    /\ UNCHANGED <<adapter, operation, effect, remote, dispatches, resolver, verdict>>

-------------------------------------------------------------------------------
(* invokeToolAdapter and settleInvocationFailure                                *)

\* To the catch clause, with the error that led there.
Fails(k, error) ==
    kernel' = [kernel EXCEPT ![k].stage = IF kernel[k].effect THEN "failEffect" ELSE "failCall",
                             ![k].code = error]

MarkRunning(k) ==
    /\ At(k, "mark")
    /\ \E fate \in Fates :
        /\ Meets(fate)
        /\ call' = Writes(fate, call, markRunning(call))
        /\ IF fate = "ok" THEN Goes(k, IF adapter.write THEN "intend" ELSE "invoke")
           ELSE Fails(k, "tool_failed")
    /\ UNCHANGED <<adapter, operation, effect, remote, dispatches, resolver, verdict>>

Intend(k) ==
    /\ At(k, "intend")
    /\ \E fate \in Fates :
        /\ Meets(fate)
        /\ effect' = IF canIntend /\ effect = "absent" THEN Writes(fate, effect, "intended")
                     ELSE effect
        /\ IF fate = "ok" /\ canIntend
           THEN kernel' = [kernel EXCEPT ![k].stage = "invoke", ![k].effect = TRUE]
           ELSE Fails(k, "tool_failed")
    /\ UNCHANGED <<adapter, operation, call, remote, dispatches, resolver, verdict>>

\* adapter.invoke: from here on nothing proves that a write had no effect.
Invoke(k) ==
    /\ At(k, "invoke")
    /\ kernel' = [kernel EXCEPT ![k].stage = "wait", ![k].started = TRUE]
    /\ remote' = "flying"
    /\ dispatches' = dispatches + 1
    /\ UNCHANGED <<adapter, operation, call, effect, resolver, verdict, faults>>

\* The race of invocation, timeout and cancellation.  The adapter resolves when its
\* request was applied; it may also throw after that.
Awaits(k) ==
    /\ At(k, "wait")
    /\ \/ \E valid \in BOOLEAN :
            /\ remote = "applied"
            /\ kernel' = [kernel EXCEPT
                 ![k].stage = IF kernel[k].effect THEN "commit" ELSE "close",
                 ![k].code = IF valid THEN "none" ELSE "invalid_output"]
       \/ \E error \in {"tool_failed", "tool_timeout", "tool_cancelled"} : Fails(k, error)
    /\ UNCHANGED <<adapter, operation, call, effect, remote, dispatches, resolver, verdict, faults>>

CommitEffect(k) ==
    /\ At(k, "commit")
    /\ \E fate \in Fates :
        /\ Meets(fate)
        /\ effect' = Writes(fate, effect, settleEffect("committed"))
        /\ IF fate = "ok" /\ effect \in {"intended", "committed"} THEN Goes(k, "close")
           ELSE Fails(k, "tool_failed")
    /\ UNCHANGED <<adapter, operation, call, remote, dispatches, resolver, verdict>>

CloseCall(k) ==
    /\ At(k, "close")
    /\ \E fate \in Fates :
        /\ Meets(fate)
        /\ call' = Writes(fate, call,
                     IF kernel[k].code = "none" THEN settle(call, "succeeded", "none")
                     ELSE settle(call, "failed", "invalid_output"))
        /\ IF fate = "ok" THEN Answers(k, kernel[k].code, FALSE) ELSE Fails(k, "tool_failed")
    /\ UNCHANGED <<adapter, operation, effect, remote, dispatches, resolver, verdict>>

\* Mutant: a write that threw is taken for a write that failed.
thrownMeansFailed(k) == FALSE
uncertainWrite(k) == adapter.write /\ kernel[k].started

\* Errors of the two settlements are swallowed.
FailEffect(k) ==
    /\ At(k, "failEffect")
    /\ \E fate \in Fates :
        /\ Meets(fate)
        /\ effect' = Writes(fate, effect,
                       settleEffect(IF uncertainWrite(k) THEN "outcome_unknown" ELSE "failed"))
    /\ Goes(k, "failCall")
    /\ UNCHANGED <<adapter, operation, call, remote, dispatches, resolver, verdict>>

failureCode(k) ==
    IF uncertainWrite(k) THEN "write_outcome_unknown"
    ELSE IF ~kernel[k].started THEN "ledger_unavailable" ELSE kernel[k].code

FailCall(k) ==
    /\ At(k, "failCall")
    /\ \E fate \in Fates :
        /\ Meets(fate)
        /\ call' = Writes(fate, call,
                     settle(call, IF uncertainWrite(k) THEN "outcome_unknown" ELSE "failed",
                            failureCode(k)))
    /\ Answers(k, failureCode(k), failureCode(k) \in {"tool_timeout", "tool_cancelled"})
    /\ UNCHANGED <<adapter, operation, effect, remote, dispatches, resolver, verdict>>

-------------------------------------------------------------------------------
(* ToolEffectReconciler                                                         *)

\* loadReconcilableEffect, then the evidence: a verifier, or an operator, looks at
\* the outside world.  No verdict when it cannot tell, or is too late.
Verify(s) ==
    /\ effect = "outcome_unknown"
    /\ resolver[s] = "none"
    /\ resolver' = [resolver EXCEPT ![s] = IF remote = "applied" THEN "confirmed_committed"
                                           ELSE "confirmed_not_committed"]
    /\ UNCHANGED <<adapter, operation, call, effect, remote, dispatches, kernel, verdict, faults>>

\* The first one wins: the same decision is replayed, another one is a conflict.
record(s) == IF verdict = NoVerdict THEN [source |-> s, resolution |-> resolver[s]] ELSE verdict

Record(s) ==
    /\ resolver[s] # "none"
    /\ effect = "outcome_unknown"
    /\ \E fate \in Fates : Meets(fate) /\ verdict' = Writes(fate, verdict, record(s))
    /\ resolver' = [resolver EXCEPT ![s] = "none"]
    /\ UNCHANGED <<adapter, operation, call, effect, remote, dispatches, kernel>>

-------------------------------------------------------------------------------
(* The environment                                                              *)

\* The request reaches the tool, or is lost, whoever still waits for it.
Lands ==
    /\ remote = "flying"
    /\ remote' \in {"applied", "dropped"}
    /\ UNCHANGED <<adapter, operation, call, effect, dispatches, kernel, resolver, verdict, faults>>

\* The Operation becomes terminal: a cancellation, or another failure of the turn.
Terminates ==
    /\ operation
    /\ operation' = FALSE
    /\ UNCHANGED <<adapter, call, effect, remote, dispatches, kernel, resolver, verdict, faults>>

\* The process dies with its cache and whatever it was doing.
Dies(k) ==
    /\ ~At(k, "absent")
    /\ faults < MaxFaults
    /\ faults' = faults + 1
    /\ kernel' = [kernel EXCEPT ![k] = NoEntry]
    /\ UNCHANGED <<adapter, operation, call, effect, remote, dispatches, resolver, verdict>>

-------------------------------------------------------------------------------
Init ==
    /\ adapter \in [write : BOOLEAN, risky : BOOLEAN, prepares : BOOLEAN]
    /\ operation = TRUE
    /\ call = [status |-> "absent", request |-> NoRequest, code |-> "none"]
    /\ effect = "absent"
    /\ remote = "none"
    /\ dispatches = 0
    /\ kernel = [k \in Kernels |-> NoEntry]
    /\ resolver = [s \in Sources |-> "none"]
    /\ verdict = NoVerdict
    /\ faults = 0

Next ==
    \/ \E k \in Kernels :
        \/ \E r \in Requests : Execute(k, r)
        \/ Evict(k) \/ CreateOrGet(k) \/ Route(k) \/ Prepare(k) \/ Unprepared(k)
        \/ MarkRunning(k) \/ Intend(k) \/ Invoke(k) \/ Awaits(k) \/ CommitEffect(k)
        \/ CloseCall(k) \/ FailEffect(k) \/ FailCall(k) \/ Dies(k)
    \/ \E s \in Sources : Verify(s) \/ Record(s)
    \/ Lands \/ Terminates

Spec == Init /\ [][Next]_vars

-------------------------------------------------------------------------------
(* Types and the inductive invariant.                                           *)

TypeOK ==
    /\ adapter \in [write : BOOLEAN, risky : BOOLEAN, prepares : BOOLEAN]
    /\ operation \in BOOLEAN
    /\ call \in Calls
    /\ effect \in {"absent", "intended", "committed", "failed", "outcome_unknown"}
    /\ remote \in {"none", "flying", "applied", "dropped"}
    /\ dispatches \in Nat
    /\ kernel \in [Kernels -> Entries]
    /\ resolver \in [Sources -> Resolutions \cup {"none"}]
    /\ verdict \in Verdicts \cup {NoVerdict}
    /\ faults \in 0..MaxFaults

\* A tool is called at most once under an executionId, whichever processes are
\* asked to, however often, and whatever their ledgers lose (service.ts:36-40).
DispatchedOnce == dispatches <= 1

\* A write that may still happen, or has, is never on record as one that did not:
\* the call is failed only if nothing was sent or the answer was malformed, the
\* effect only if nothing was sent, and nothing is committed that did not happen.
LedgersAreHonest ==
    adapter.write =>
        /\ call.status = "failed" /\ call.code # "invalid_output" => dispatches = 0
        /\ effect = "failed" => dispatches = 0
        /\ effect = "committed" => remote = "applied"
        /\ call.status = "succeeded" \/ call.code = "invalid_output" => effect = "committed"

\* Stages of a call that the ledger let pass, and those in which a tool is invoked.
Executing == {"mark", "intend", "invoke", "wait", "commit", "close", "failEffect", "failCall"}
Admitted == Executing \cup {"route", "prepare", "unprepared"}

\* What a process at a stage knows of the ledgers and of the outside world.
StageOK(k) ==
    LET entry == kernel[k] IN
    /\ entry.stage \in {"create", "route", "mark", "intend", "invoke"} => ~entry.started
    /\ entry.stage \in {"create", "route", "mark", "intend"} => ~entry.effect
    /\ entry.effect => adapter.write
    /\ entry.stage \in Executing /\ entry.started => dispatches = 1
    /\ entry.stage \in Executing /\ ~entry.started => dispatches = 0
    /\ entry.stage = "route" /\ ~adapter.risky => call.status = "pending" /\ dispatches = 0
    /\ entry.stage \in {"prepare", "unprepared"} => adapter.risky
    /\ entry.stage = "mark" => call.status = "pending"
    /\ entry.stage \in {"intend", "invoke", "wait", "commit", "close"} =>
         call.status = "running" /\ call.code = "none"
    /\ entry.stage \in {"route", "mark", "intend"} => effect = "absent"
    /\ entry.stage \in {"invoke", "wait", "commit"} /\ adapter.write =>
         entry.effect /\ effect = "intended"
    /\ entry.stage \in {"wait", "commit", "close"} => entry.started
    /\ entry.stage \in {"commit", "close"} => remote = "applied"
    /\ entry.stage \in {"commit", "failEffect"} => entry.effect
    /\ entry.stage = "close" /\ adapter.write => effect = "committed"
    /\ entry.stage \in {"commit", "close"} => entry.code \in {"none", "invalid_output"}

\* The inductive invariant: of all the processes that were asked to, the ledger admits
\* one, which alone invokes the tool; a tool that needs an approval is not invoked here.
IInv ==
    /\ TypeOK
    /\ \A k \in Kernels : StageOK(k)
    /\ call.status = "absent" =>
         /\ call.code = "none" /\ effect = "absent" /\ dispatches = 0
         /\ \A k \in Kernels : kernel[k].stage \notin Admitted
    /\ adapter.risky =>
         dispatches = 0 /\ effect = "absent" /\ \A k \in Kernels : kernel[k].stage \notin Executing
    /\ ~adapter.risky =>
         \A k, l \in Kernels :
            kernel[k].stage \in Admitted /\ kernel[l].stage \in Admitted => k = l
    /\ call.status \in {"pending", "running"} => call.code = "none"
    /\ call.status = "pending" => dispatches = 0
    /\ DispatchedOnce
    /\ LedgersAreHonest

Stand ==
    /\ call.status \in Settled => call' = call
    /\ effect \in {"committed", "failed", "outcome_unknown"} => effect' = effect
    /\ verdict # NoVerdict => verdict' = verdict
    /\ verdict' # verdict => effect = "outcome_unknown"

\* A settled row and a verdict are final, and a verdict is on an unknown effect:
\* a call, an effect and a decision are each written once, by one of the racing
\* writers.
FactsStand == [][Stand]_vars
===============================================================================

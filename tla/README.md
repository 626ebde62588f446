# A verification project for EduCanvas

EduCanvas is a TypeScript monorepo: a learning assistant whose turns, tool calls
and long-running work are recorded in PostgreSQL and carried out by several
processes. These TLA+ modules model the part of it that decides what a user is
told about a turn and what becomes of what the user uploaded: how an *Operation*
gets its one terminal event; how the agent loop of a turn spends its budget and obeys
its output guard; how a Tool Call is executed once, or suspended for an approval and
continued by a worker; how an upload is processed, and deleted in the middle of it;
and how answers, event streams, ledgers and stored objects stay consistent when
processes race, die and retry.

## The system

| Component | State it keeps | Operations | Talks to |
|---|---|---|---|
| Gateway service (`packages/gateway-runtime`) | per running turn: handle loop, cancellation registry | `handle`, `requestCancel`, `resume` | runner (async iterator), operation store |
| Turn application (`packages/agent-runtime/src/turn-application`) | the running turn | `run`, `completeTurnApplication`, `settleTurnFailure` | lifecycle (settlement), engine, tools |
| Operation store (`packages/db/src/gateway`) | `agent_operations`, `gateway_operation_events`, `gateway_approvals` | `begin`, `append`, `resolveApproval`, `requestCancellation`, `settleContinuation`, `cancelContinuation`, `rejectContinuationAuthorization`, readers | PostgreSQL, Graphile queue |
| Turn settlement (`platform-turn-settlement-repository.ts`) | assistant message, citations, terminal intent in `agent_operations.failure_code` | `settlePlatformTurn` | PostgreSQL |
| Continuation repository (`packages/db/src/operation-continuation`) | `operation_continuations`: status, lease owner, generation, expiry | `createWaiting`, `markReady`, `claim`, `claimForExecution`, `heartbeat`, `release`, `settle`, `cancel`, recovery | PostgreSQL |
| Continuation worker (`apps/worker/src/tasks/continue-operation.ts`) | one task per Graphile job | claim, resume, heartbeat, settle, release | repository, store, adapter |
| MCP adapter (`apps/worker/src/mcp`) | `mcp_tool_intents`, `tool_calls`, `tool_effects` | `resume`, dispatch reconciliation, expiry maintenance | external MCP tool |
| Agent loop (`agent-loop.ts`, `turn-engine.ts`, `turn-application/loop-runner.ts`) | one generator per turn, usage budget, `model_runs` | rounds, retries, remediation, tool batches, synthesis | model gateway, tool kernel, output guard |
| Tool kernel (`packages/agent-runtime/src/tool-kernel`) | cache of executions, `tool_calls`, `tool_effects` | `execute`: create, prepare an approval, intend, invoke, settle | adapters, PostgreSQL |
| Effect reconciliation (`tool-kernel/reconciliation.ts`) | `tool_effect_reconciliations` | manual and automatic verdicts | verifiers, operators |
| Asset processing (`apps/worker/src/tasks`, `packages/db/src/asset-*.ts`) | `assets`, versions, representations, keyframes, `asset_processing_jobs`, stored objects | upload, extract, transcribe, process video, render preview, tombstone | Graphile queue, object storage |
| Object deletion outbox | `object_deletion_outbox` | register, `claimBatch`, `complete`, `fail` | object storage, cron |
| Turn lease, web runtime runs, node commands, deliveries, handoff | one table each, leases or outboxes | claim, renew, settle | workers, nodes, channels |
| Streaming transcription, voice, teaching core, experiment runtime | reducers, quotas, mastery, event queue | pure reducers and queues | clients |
| Clients (web, desktop, TUI, Telegram) | UI state | gateway.v1 requests | Gateway |

How they interact: a turn runs in a Gateway process, which appends the runner's
events one by one. The runner settles the answer *itself*, in a transaction that
also freezes a **terminal intent** in the running Operation; the Gateway is the
only writer of terminal events and derives a missing one from the intent
(reconciliation, at the start of most store transactions). When the model wants a
risky tool, `approval.required` suspends the Operation and creates a continuation;
the approval makes it ready and enqueues a job in the same transaction; a worker
claims it under a lease with a fencing generation, carries the call out over three
ledgers, settles the answer, and then settles continuation and Operation together.
Within the turn, `AgentLoopEngine.stream` alternates with its consumer, which shows
text to the output guard and hands tool calls to the kernel; both share one
AbortSignal. What the consumer yields goes out to the Gateway, which asks for the next
event, or returns or drops the generator: after a cancellation (`gateway-service.ts:154`),
at an extension the client does not know (`:173`), or when an append throws (`:182`). An upload creates an asset, a version, a job and a Graphile job at once;
the task writes derived objects to the storage *before* it settles them in the
database, and the deletion of the Source registers the keys it finds in an outbox
that a cron task empties.

What is hard here: the settlement does not take the lock that the store's
transactions take, and the database runs READ COMMITTED; every ledger statement is
its own transaction; leases lapse under live workers; the cancellation of a turn
gives its runner up without waiting for it; storage and database share no
transaction; and every acknowledgement can be lost.

What makes each component correct: *repository* - a generation is issued once and
only its holder settles, one active continuation, nothing runs unapproved;
*store* - one terminal event, last, exactly when the Operation is terminal; *service* -
each loop leaves its Operation decided, a cancellation is carried out; *settlement* -
answer and Operation agree; *worker and adapter* - the tool is called at most once,
no ledger claims what the one below cannot prove, none calls a dispatched call
failed, each dispatched call is accounted for, each approved call is decided;
*tool kernel* - an execution id is dispatched once, a write that may have happened is
never recorded as failed; *agent loop* - the calls made stay within the budget, a
blocked answer starts no tool, a model run is left running only by a failed ledger or
by a Gateway that gives the turn up in mid stream, every other loop comes to a decision;
*assets and outbox* - nothing the application reads is missing, a deletion stands, a
completed deletion happened, processing and deletions come to an end.

## Modules

| Module | What it models |
|---|---|
| `ContinuationRow` | one row of `operation_continuations`: the WHERE and SET parts of its conditional UPDATEs, the CHECK constraints |
| `FencedLease` | abstract specification: what a lease store promises its clients |
| `OperationContinuation` | the repository with all continuations of one Operation |
| `MCOperationContinuation` | bounds for TLC |
| `OperationContinuation_proofs` | the theorems about it |
| `GatewayStore` | the facts of one turn Operation, every transaction on them, and how a transaction runs (no behaviour of its own) |
| `GatewayStore_proofs` | what every transaction preserves, whoever runs it |
| `OperationLifecycle` | abstract specification: what a client may see of a turn Operation, whoever writes it |
| `GatewayTurn` | a turn: handle loop, runner, control plane, over `GatewayStore` |
| `McpContinuation` | workers, MCP adapter, ledgers and the external tool, over `GatewayStore` |
| `GatewayTurn_proofs`, `McpContinuation_proofs` | the inductive invariants of these two and what follows from them |
| `McpLedgers_proofs` | that the adapter's ledgers tell the truth about success and failure |
| `ToolKernel`, `ToolKernel_proofs` | one Tool Call in several processes, its two ledgers, the request on its way to the tool, effect reconciliation |
| `AgentLoop`, `AgentLoop_proofs` | the loop of a turn with its consumer, budget, guard and model run ledger |
| `DeletionOutbox` | the outbox and its workers, a component that others instantiate |
| `AssetLifecycle`, `AssetLifecycle_proofs` | an upload, its tasks and their queue, its deletion; extends `DeletionOutbox` |
| `MCRuntime` | three systems that share nothing, checked in one run |

`ContinuationRow` is shared by the detailed repository and by `GatewayStore`, so
the row of a continuation is one thing in the whole project.

`OperationLifecycle` has four variables, the status, the approval, whether a complete
answer is durable, and the event stream, and nine steps. `GatewayStore` maps its facts to
them (`Lifecycle`). `GatewayTurn` implements it from its beginning (`Lifecycle!Spec`) and
`McpContinuation` from the approval on (`Lifecycle!ResumedSpec`); `HandsOver` says that
the two fit: the step of `GatewayTurn` that approves leaves `ApprovedFacts`, with which
`McpContinuation` starts. One thing is given away there: after a lost acknowledgement of
`approval.required` (the hazard at `gateway-service.ts:194`) the old loop may still append
its failure beside a worker; `GatewayTurn` contains that append, `McpContinuation` does
not. The lifecycle allows citations after the answer; this code never gets that far
(`turn_citations`).

**State and code.** In `OperationContinuation`, `rows` is the table, `op`,
`approval`, `pendingCalls`, `access` are what its calls read of other tables,
`inflight` holds the lease calls between their checks and their UPDATE (each keeps
the clock it sampled), and `granted`, `settledBy` are history: what claims returned
and which lease settled a row. In `GatewayStore`, `db` is one record of everything
durable about the Operation and `tx` is the transaction that holds the advisory lock
`gateway-event-v1` and is past its reconciliation. In `GatewayTurn`, `handle` is
the program counter of `GatewayService.handle` with its two flags, `runner` what the
async generator will do next, `signal` the AbortSignal. In `McpContinuation`,
`ledger` holds the three tables and the number of calls that reached the tool, and
`worker` what each task's process knows.

In `ToolKernel`, `kernel[k]` is the entry of the execution cache of process `k` with
the place its call has reached; `call`, `effect` and `verdict` are the three rows;
`remote` is the fate of the request that was sent, which goes on when nobody waits for
it any more. In `AgentLoop`, `loop` holds the generator's place and its local variables
under their names in the code, `row` is the `model_runs` row of the current run,
`spent.models` and `spent.tools` are the counters of the budget controller and
`spent.attempts` and `spent.executed` what really happened. `Abandon` is the Gateway's
step: at an event that went out (text, `tool.started`, `tool.completed`, `tool.failed`, or
what the guard held back until the end) the generators go no further, and the row and the
turn stay as they are. A return that meets the generator in an await is queued and acts at
the next such event; when none comes, the loop runs to its decision. In `AssetLifecycle`,
`objects` is the storage, `job` and `queue` the same job as the database and as Graphile
see it, `task` the worker's place and the objects it has written, `reps` the keys that
rows point to, `doomed` the keys the deletion has read. In `DeletionOutbox`, `outbox`
has a row per key and `deleter` the claim each worker holds; leases and backoffs run out
at any time, also under a live worker.

**Steps.** A statement or a transaction whose statements no other can see between
is one step. Steps are split where the code can be overtaken: a lease call between
its SELECTs and its UPDATE (`OperationContinuation`), a store transaction between
its reconciliation and its writes (`Begins`, `Commits`; only the settlement, which
takes no event lock, and revocation can slip in), and each ledger statement of the
adapter; every ledger transaction of the tool kernel, which commits, fails, or commits
without its acknowledgement; every `yield`, `await` and settlement of the loop; each
storage access and settlement of an asset task, and the deletion between its reads and
its writes. If the reconciliation itself wrote the Operation row, the settlement would
wait for that row, so the transaction stays one step. `runner.overtook` is history: it
records that a settlement committed in that window, and no action reads it.

Abstractions: texts, hashes, sealed payloads, profiles and traces are left out; one
Tool Call per Operation in `GatewayStore` (several in `OperationContinuation`);
`expired` stands for the common expiry of intent and approval, `access` for every
condition of the authorisation joins; a lease in `GatewayStore` is live or not
(expiry 1 or 0) and lapses by an action, while `OperationContinuation` has real
clocks. A job that finds a live lease throws and comes back after it: no step.
`claimForExecution` and `release` are one step in `McpContinuation`; their
interleavings are the matter of `OperationContinuation`. Token counts and clocks of the
budget are a choice that may break at any check. An asset has at most one task per job
at a time, since Graphile locks a job; a task that loses its lock is a death followed by
a retry. Objects have one key per role ("text", "frames"): keys are made of the job and
a hash of the content, so an equal output has the key of the first, which is the case
in which the steps of two attempts can harm each other.

**Umbrella module.** `MCRuntime` holds the variables of the agent loop, an upload and a
bare deletion outbox, and a constant variable `system`: a behaviour runs one of them and
leaves the others at rest. The states of a run are therefore the sum, not the product, of the
instances' states, and each property is read on the behaviours of its own system (the
others satisfy it trivially, at rest).

## Runs

Passing runs:

| Run | Question | Bounds |
|---|---|---|
| `leases` | do generations fence two workers, does the repository implement `FencedLease`; is one continuation active, is nothing run unapproved | 2 generations, 3 clock values, 2 calls under way. Two workers on 1 continuation, or 1 worker on 2 Tool Calls with 2 continuations (the constraint `Bounded` leaves out the product; in the first region it also leaves out what follows a failed Operation, which behaves as a completed one, and two calls under way after a revocation): a claim can overtake a claim, a stale call can meet each later state |
| `turn_faults` | does a client see the abstract lifecycle, and a worker the facts it starts from; approval and continuation, decided loops, cancellation; is the window of `turn_settlement_race` the only way to a contradiction | 2 faults (rollback, lost acknowledgement, crash): the catch of a failed append can itself fail |
| `mcp_faults` | is the tool called at most once by workers that keep the leases they hold; is an approved call decided, unless the adapter refused it; does a client see the abstract lifecycle go on | 2 workers, 2 faults (no stall), every request, expiry, missing adapter or registration, 4 attempts: more attempts than faults and interruptions by requests |
| `mcp_stalls` | do the ledgers tell the truth about success and failure, is each dispatched call accounted for | 2 workers, 2 faults of any kind; a lease may lapse under a live worker |
| `tools` | is an execution id dispatched once, are its ledgers honest and final | 2 processes, 2 conflicting requests, 2 faults: they reach every catch clause of the kernel, and the settlement in it can fail too |
| `runtime` | assets: does anything dangle, does a deletion stand, does processing end (a PDF with figures and a preview, or a video, 2 attempts, 1 fault, 1 deleter); loop: budget, guard, model runs, termination (2 rounds, 1 retry, 2 calls per batch, budgets of 3 model calls, 2 tool calls and 2 cents, every combination of requirement and remediation, an abort at any time, given up at any event); outbox: finality and progress (2 keys, 2 workers, 2 attempts, ceiling 3) | the budget is smaller than what the rounds can ask for, so it breaks at every check; 2 attempts have a first that throws and a last that settles; the ceiling lies above the attempts, so it is reached by expired leases only |

The MCP and turn runs bound faults and attempts and nothing else; a generation is
bounded by the attempts. Deadlock is checked by `leases` only: a turn, a Tool Call, a
loop or an asset ends and the system then really stops. The worker model needs two
workers only: a third can do nothing that a second, after it stopped, cannot. Text and
audio uploads take a subset of the steps of a PDF and a video and are left out of
`runtime`, not of `asset_left_running`.

What is left out where, and why. `stall` in `mcp_faults`: a worker that outlives its
lease is what `mcp_double_dispatch` shows. `expire` in `mcp_stalls`: an intent that
expires after its validation is dispatched although maintenance marked it failed, for the
same reason. `unregistered` in `mcp_stalls`: the hazard at `continuation-adapter.ts:163`.
Calls that the adapter refused (a failed effect) in `ContinuationDecides`: the hazard at
`continuation-adapter.ts:184`, one failed statement after which every retry throws. Loops
that do not know of their approval request in `NothingLeftToResume`: the hazard at
`gateway-service.ts:194`, a lost acknowledgement; `turn_faults` loses it and checks the
other properties with it.

Beside the properties, the runs check invariants that the proofs induct on: `IInv` in
`leases`, `turn_faults`, `mcp_faults` and `tools`, and `LedgersInv` (which contains
`NothingFails` and `LedgersAgree`) in `mcp_stalls`. `LoopInv` and `LifeInv` hold on
`LoopSpec` and `Spec` by themselves; `runtime` lists what follows from them.

Runs that show a disagreement between code and documentation (see "findings" in
`PROJECT.json` for the quotations):

| Run | What happens |
|---|---|
| `turn_settlement_race` | answer completed, Operation cancelled, because the settlement commits inside an append |
| `turn_citations` | citations of a web turn never reach the event stream |
| `mcp_double_dispatch` | two workers call the tool: the result of `markDispatching` is not looked at |
| `mcp_cancel_overwrites` | the answer settles while a cancellation is past its own reconciliation and not yet recorded; the worker's cancellation of the continuation, which does not reconcile, then writes a terminal over the durable intent; the refusal of an authorisation does the same |
| `mcp_stale_continuation` | a continuation stays running in an Operation that ended |
| `asset_left_running` | a Source is deleted while it is processed: no settlement passes the CHECK on the tombstone, and the job stays running when the queue has given it up |

## Fairness

Used by `CancellationDecides`, `ContinuationDecides`, `LoopEnds`, `ProcessingEnds` and
`DeletionsEnd` only. `GatewayTurn`: the
runner goes on (weak); the loop is not starved of the event lock (strong, as
PostgreSQL queues the waiters of a lock and others release it); a cancellation that
holds the lock ends. `McpContinuation`: each worker's step under strong fairness,
since Graphile polls its queue for ever and lock waiters are queued; the recovery
cron and the expiry of a dead process's lease are weakly fair. Nothing is assumed of
users, readers, expiry, revocation or faults; faults are finite by their bound, and
attempts by Graphile's `max_attempts`, which the recovery resets. `AgentLoop`: a
generator that is asked comes to its next event, as its gateway, tools, guard and ledgers
answer, fail or time out (weak fairness of the loop's steps). Nothing is assumed of the
abort or of `Abandon`, and `LoopEnds` speaks of the loops that are not abandoned: nothing
makes the Gateway ask for another event, and an abandoned turn is the Gateway's to decide
(`LoopLeavesDecided`, without faults). `AssetLifecycle`: Graphile runs every
job it holds and each step of a task returns or throws (weak). `DeletionOutbox`: cron
claims every minute in the order of `availableAt`, so no due row is passed over for ever
(strong fairness of the claim of a key, since the row is not claimable while another
claim works on it), and a worker goes on or dies (weak).

## Proofs

`OperationContinuation_proofs` proves, for any sets of workers and Tool Calls, any
limits, any lease duration and any number of calls under way: `TypeCorrect`,
`Inductive` (`IInv`), and from it `Fencing`, `Succession`, `Approval`, `Checks`,
the action properties `Finality` and `LiveLease`, and `Refinement`: the repository
implements `FencedLease`. Assumptions: the sentinel values are not workers or calls,
the limits are naturals, a lease has a positive duration. None of the safety
properties is inductive alone. `GenerationIssuedOnce` needs that no grant lies above
the generation of its row (`OwnerHoldsLatestGrant`); that a settled row has no later
grant needs that settled rows are final (`SettledRows`); uniqueness needs
that sequence numbers are dense, hence `RowsBound`; `LiveLeaseKept` needs that a
sampled clock lies in the past (`CallsInPast`). `IInv` is their conjunction, is
checked by `leases`, and is proved one lemma per action. The refinement maps
claim to `Grant`, release to `Yield`, settle to `Finish`, cancel to `Abandon`, and
every other step, also an UPDATE that matches nothing, to a stutter.

`GatewayStore_proofs` is a library, for both behaviours built on `GatewayStore`. Its first
part: every transaction keeps the facts well typed, keeps the terminal event unique, last
and in agreement with the status, and lets the event stream only grow at its end
(`Kept`). There is one lemma per transaction body, one for the reconciliation, and
`CommitKept` composes them as `Commits` does; the settlement of an answer, which runs
outside of the lock, has its own. Hence it does not matter to these facts who calls
what, or when. Its second part says what each body *does* to status, intent, answer,
approval and continuation (`EventEffect`, `CancelEffect`, `RejectEffect`, `SettleEffect`,
`ResolveEffect`, ...), and `CommitFrom` that a commit is a body applied to the facts with
which its transaction went on; the arguments below cite these, never a body. Its third
part says what a client sees: `CommitTells` and `AnswerTells` map every transaction and
the settlement to a step of `OperationLifecycle` or to a stutter, provided that the caller
is entitled to what it writes (`Proper`), and `CoherentStep` shows that the abstract steps
keep the stream in agreement with status and approval (`Coherent`).

`GatewayTurn_proofs` proves, for any fault kinds (lost acknowledgements among them) and
any number of faults: `TurnInvariant` (`IInv`), and from it `TurnTypes`,
`TurnTerminalUnique`, `TurnApproval`, `TurnHistoryKept` and the following.
`ApprovalDrivesContinuation` is not inductive: a job left behind by a continuation
that was cancelled would belong to the next one. `IInv` therefore adds that the job of
an Operation that still runs is the one of a ready continuation, and four more parts.

- `Suspension`, for `TurnNothingLeftToResume` and its corollary `TurnEndsSuspension`. The
  store ends a continuation only on some paths (a cancellation or a failure that is
  appended, a rejection), so one must show that no other path ends a suspended
  Operation. The reconciliation does not, because there is no intent: the request for the
  approval is the last thing a runner does, so nobody settles while it is open. An append
  by the loop does not, because a loop that knows of its request has nothing left to
  append but a cancellation, and a cancellation is recorded only together with the end of
  the continuation. Only the loop that lost the acknowledgement of its request can.
- `Decision`, for `TurnLoopLeavesDecided`: an append throws only on facts that are
  already decided or on a recorded cancellation, whose catch then appends a failure; a
  decided Operation stays decided, through the reconciliation and every body.
- `Answers`, for `TurnContradictedOnlyInWindow`: unless a settlement has committed inside
  a transaction, the intent of a running Operation is its answer, a terminal status is the
  one of the answer (`Consistent`), and a transaction past its reconciliation finds no
  intent to overwrite. The loop announces a completion only of an answer that was settled
  before it. With `turn_settlement_race` this says that the missing lock is *the* reason
  for a contradiction, not one of several.
- `Telling`, for `TurnImplementsLifecycle` and `TurnHandsOver`. A step of the store is a
  step of the lifecycle only if the loop does not ask for an approval twice, or after an
  answer, does not append `operation.completed` before the answer is settled, and ends a
  waiting turn by nothing but a failure or a cancellation (`LoopAppendable`, from
  `Suspension` and `Answers`). A transaction whose reconciliation wrote the terminal does
  nothing afterwards that a client would see (`EndedSilent`), so its two writes are one
  abstract step. That an approval hands over `ApprovedFacts`, to the last field, needs
  besides that nobody claimed, cancelled or answered anything of the turn while it
  waited (`Unclaimed`, `Coherent`).

`McpContinuation_proofs` proves for any workers, attempts and faults and every
combination of hazards `WorkerInvariant` (`IInv`), `WorkerTypes`,
`WorkerTerminalUnique` and `WorkersImplementLifecycle`. What a store transaction preserves comes from
`GatewayStore_proofs`; what remains is that a worker which returns from the adapter
knows an outcome, so that its settlement is one that the store accepts, and for the
lifecycle (`Telling`) that the approval stays and the answer of a running Operation is its
intent. For workers that
do not stall it proves `WorkerAtMostOneDispatch`. The invariant is `OneWorker`, in two
halves. The lease: a lease lapses only when the one worker past its claim is gone, so
there is never a second, and while the Operation runs the lease names it
(`ExclusiveStep`). The ledger: whoever may still dispatch finds that nothing was
dispatched, since a dispatch is recorded in the intent before it is made and a successor
that reads a recorded one reconciles it (`OnceOfStep`). The first half is what a stall
breaks, and `mcp_double_dispatch` shows that the code has nothing else that would hold.

`McpLedgers_proofs` proves `Success` (`SuccessIsProved`) if intents do not expire, and
`NoFailure` (`NothingFails`), `Honesty` (`FailureIsHonest`), `LedgersInvariant`
(`LedgersInv`) and `DispatchesAccounted` (`DispatchAccounted`) if, besides, all workers
have the same registration. Lost leases, stalls and double dispatches are allowed. The
argument: the three ledgers advance in one order and the effect decides the other two
(`InOrder`), so what a worker relies on before its next statement (`AgreesWith`) is not
taken back by any other worker, which `AgreementSurvives` states once for all
statements. `DispatchAccounted` adds `Accounts`: a worker settles the intent last and the
answer after it, so a decision that is no withdrawal (`FactsFollow` lists which
transactions decide) comes from a worker that left the ledgers settled; settled ledgers
are not opened again by a slower worker (`Settling`). The two assumptions are needed:
without them `mcp_stalls` finds counterexamples, those of the hazards at
`continuation-adapter.ts:148` and `:163`.

`ToolKernel_proofs` proves for any processes, requests and faults `KernelInvariant`
(`IInv`) and from it `KernelDispatchesOnce`, `KernelLedgersAreHonest` and the action
property `KernelFactsStand`. That one dispatch happens is not inductive: `IInv` says what
each place of a kernel knows of the ledgers (`StageOK`), and that of a tool that needs no
approval the ledger admits one process at a time past `createOrGet`; of one that does,
none is past the preparation. One lemma per action.

`AgentLoop_proofs` proves for any rounds, retries, batches and budgets `LoopInvariant`
(`LoopInv`), `LoopCallsWithinBudget`, `LoopCallsAreBounded`, `LoopRunsAreSettled` and
`LoopBlockStands`. The bounds need an invariant that says at each place how many calls
can have been made before it (`ModelCallsOK`, `ToolCallsOK`); a remediation repeats a
round at most once, which `attempted` records. Products of a round and a bound are
handled by two lemmas about `CallsBefore` and `CallsOf`. `LoopRunsAreSettled` allows the
two ways in which the code leaves a model run `running`: its ledger threw, or the loop was
abandoned before the run had an outcome (`agent-loop.ts:285`). That an abandonment at a
tool, after a batch or after the end leaves none needs that a run has no outcome while it
streams, and is settled when it has one and the loop goes on.

`AssetLifecycle_proofs` proves for any kinds, attempts, faults and deletion workers
`LifeInvariant` (`LifeInv`), `LifeNothingDangles`, `LifeCompletedIsGone`,
`LifeDeletionStands` and `LifeFinalRowsStand`. `NothingDangles` needs that a task at its
settlement still has the objects it wrote while the Source lives (`JobsOK`), that
settled objects are not written again (`RepsOK`), and that deletions are asked for by the
tombstone alone, for keys that no live task can write (`IntentsOK`).

## Only model-checked

- Liveness: `CancellationDecides`, `ContinuationDecides`, `LoopEnds`, `ProcessingEnds`,
  `DeletionsEnd`. The prover handles neither fairness nor ENABLED.
- `DeletionsAreFinal` with two workers and two keys, an instance of what
  `LifeFinalRowsStand` proves inside `AssetLifecycle`.
- The six disagreements: counterexamples on small instances.

## Not modelled

- Payloads, hashes, sealing, profiles and traces: no property is about them. `begin` is
  an idempotent insert under a lock of its own; its turn is the initial state.
- Within `GatewayTurn` the engine is an arbitrary choice of offers and settlements, so
  what holds of a turn holds for every engine; `AgentLoop` and `ToolKernel` state what
  this engine promises, on their own. That the loop refines the runner is not stated.
- A turn that is given up before its loop (at `turn.started`) has no model run; whoever might
  close the row of an abandoned run is not modelled. `turn-lease-repository.ts:128` closes
  those of expired teaching messages.
- The approval intents that the kernel's preparation writes, and the worker's checks
  before the claim: `McpContinuation` starts from what they leave behind.
- Estimates of tokens and cost, context assembly and the contents of a tool batch: the
  budget may break at any check.
- Uploads that are processed synchronously, bindings, rename, knowledge materialisation,
  thumbnails, and what extraction, transcription and MinerU do inside.
- Web runtime runs, node commands, deliveries, handoff, the lease of the web turn,
  transcription, teaching core and experiments: components of their own beside this core,
  planned below or listed in `PROJECT.json`.
- Clients, provider adapters, telemetry, parsing: I/O, formatting and UI.

Most of the repository's lines are of the last two kinds (four clients, provider and
storage adapters, readers and views of the database, prompts). The modules here cover
the code whose order of steps decides what is durable, which is a small share of them.

## Plan

What would come next, in this order; a module marked P is to be proved about.

1. `TerminalReconciliation` (P): the pure decision of `gateway-runtime` against the
   database reconciliation in `GatewayStore`, over all their inputs.
2. `TurnLease` (P): the lease of the web turn, as a second implementation of `FencedLease`.
3. The abstract runner of `GatewayTurn` as a specification that `AgentLoop` implements, and
   `ToolKernel` composed with the approval intents and with `McpContinuation`.
4. `WebRuntimeRuns`, `NodeCommands`, `Deliveries`: leases and outboxes with retries.
5. `Transcription`, `Mastery`, `ExperimentQueue`: reducers and queues, as functions.

----------------------------- MODULE AssetLifecycle -----------------------------
(* One uploaded Asset (packages/db/src/asset-*.ts) from createUploadedPending to *)
(* its deletion: the processing jobs of its version, the Graphile queue that     *)
(* retries them, the worker tasks that write derived objects and settle, and     *)
(* tombstoneOwnedAsset, which may come in the middle of any of them.             *)
EXTENDS DeletionOutbox

CONSTANTS
    Kinds,      \* kinds of upload, subset of {"pdf", "text", "audio", "video"}
    Removable,  \* the user may delete the Source
    QueueAttempts, \* max_attempts of a Graphile job, 3 in the code
    MaxFaults   \* transactions that fail or lose their acknowledgement, deaths

ASSUME LifecycleAssumption ==
    /\ Kinds \subseteq {"pdf", "text", "audio", "video"} /\ Removable \in BOOLEAN
    /\ QueueAttempts \in Nat \ {0} /\ MaxFaults \in Nat
    /\ Keys = {"original", "text", "figures", "frames", "preview"}

VARIABLES
    kind,      \* of the upload
    asset,     \* assets.status
    version,   \* asset_versions.status
    job,       \* asset_processing_jobs.status, per job
    queue,     \* the Graphile job, [state, attempts]
    task,      \* the worker task that runs it, [pc, made]
    reps,      \* keys in asset_representations and asset_video_keyframes
    deleting,  \* the deletion: none, read, done
    doomed,    \* the keys it has read
    faults

ledgers == <<kind, asset, version, job, reps, deleting, doomed>>
vars == <<objects, outbox, deleter, kind, asset, version, job, queue, task, reps,
          deleting, doomed, faults>>

Jobs == {"primary", "derived"}  \* extract_text, transcribe_audio or process_video; render_preview
Idle == [pc |-> "idle", made |-> {}]
Derived == Keys \ {"original"}

\* What a run of the task may write: text with its figures and manifest (MinerU), text
\* only, a transcript and frames of which either may be missing, or a preview.
Outputs(j) ==
    IF j = "derived" THEN {{"preview"}}
    ELSE CASE kind = "pdf" -> {{"text"}, {"text", "figures"}}
           [] kind = "video" -> SUBSET {"text", "frames"}
           [] OTHER -> {{"text"}}

\* The keys of an output that its settlement stores in the database.
Referenced(made) == made \ {"figures"}

Open(j) == job[j] \in {"queued", "running"}

-------------------------------------------------------------------------------
(* The Graphile queue: a task that throws is run again, QueueAttempts times.    *)

At(j, pc) == task[j].pc = pc
Goes(j, pc) == task' = [task EXCEPT ![j].pc = pc] /\ UNCHANGED queue
Last(j) == queue[j].attempts >= QueueAttempts
Returns(j) == task' = [task EXCEPT ![j] = Idle] /\ queue' = [queue EXCEPT ![j].state = "done"]
Throws(j) ==
    /\ task' = [task EXCEPT ![j] = Idle]
    /\ queue' = [queue EXCEPT ![j].state = IF Last(j) THEN "dead" ELSE "ready"]

Fault == faults < MaxFaults /\ faults' = faults + 1

Take(j) ==
    /\ queue[j].state = "ready"
    /\ queue' = [queue EXCEPT ![j] = [state |-> "locked", attempts |-> @.attempts + 1]]
    /\ task' = [task EXCEPT ![j].pc = "begin"]
    /\ UNCHANGED <<objects, outboxVars, ledgers, faults>>

\* The worker dies; its lock runs out.
Die(j) ==
    /\ ~At(j, "idle")
    /\ Fault /\ Throws(j)
    /\ UNCHANGED <<objects, outboxVars, ledgers>>

-------------------------------------------------------------------------------
(* The repositories                                                             *)

\* Whether begin.. finds the version it is to work on; extract_text does not ask.
Available(j) ==
    CASE j = "derived" -> version = "ready" /\ asset = "ready"
      [] j = "primary" /\ kind \in {"audio", "video"} -> version = "processing" /\ asset = "processing"
      [] OTHER -> TRUE

Begin(j) ==
    /\ At(j, "begin")
    /\ \/ /\ Open(j)
          /\ job' = [job EXCEPT ![j] = IF Available(j) THEN "running" ELSE "cancelled"]
          /\ IF Available(j) THEN Goes(j, "work") ELSE Returns(j)
          /\ UNCHANGED faults
       \/ /\ ~Open(j) /\ Returns(j)
          /\ UNCHANGED <<job, faults>>
       \/ /\ Fault /\ Throws(j)
          /\ UNCHANGED job
    /\ UNCHANGED <<objects, outboxVars, kind, asset, version, reps, deleting, doomed>>

\* The primary settlement writes ready or failed to the asset.  The transaction fails
\* on the shape check when the asset is a tombstone, and, for audio and video, because
\* its WHERE clauses then find no row.
admits == asset # "tombstoned"

\* Mutant: a job that ended may be settled again.
settlesAgain(j) == TRUE
settles(j) == Open(j)

\* The rows and the queue after a settlement that commits, and the task that made it.
Ledgers(j, status) ==
    /\ IF j = "primary" THEN version' = status /\ asset' = status
                        ELSE UNCHANGED <<version, asset>>
    /\ reps' = IF status = "ready" THEN reps \cup Referenced(task[j].made) ELSE reps
    /\ job' = IF j = "primary" /\ status = "ready" /\ kind = "pdf"
              THEN [job EXCEPT ![j] = "succeeded", !["derived"] = "queued"]
              ELSE [job EXCEPT ![j] = IF status = "ready" THEN "succeeded" ELSE "failed"]

Enqueues(q, j, status) ==
    IF j = "primary" /\ status = "ready" /\ kind = "pdf"
    THEN [q EXCEPT !["derived"].state = "ready"] ELSE q

\* Mutant: a settlement that throws is taken for one that did not happen.
removesMade(j) == objects \ task[j].made
\* The storage after a settlement that threw, whether it committed or not.
keepsMade(j) == objects

\* settleTextExtraction, settle, settleProcessed, settlePreviewRender and their failed
\* outcomes; `caught` is what the task does about an error.
Settlement(j, status, caught(_)) ==
    \/ /\ settles(j) /\ (j = "primary" => admits)
       /\ Ledgers(j, status)
       /\ \/ /\ task' = [task EXCEPT ![j] = Idle]
             /\ queue' = Enqueues([queue EXCEPT ![j].state = "done"], j, status)
             /\ UNCHANGED <<objects, faults>>
          \/ /\ Fault   \* the acknowledgement is lost
             /\ caught(Enqueues(queue, j, status))
             /\ objects' = keepsMade(j)
    \/ /\ settles(j) /\ j = "primary" /\ ~admits
       /\ caught(queue)
       /\ objects' = keepsMade(j)
       /\ UNCHANGED <<version, asset, reps, job, faults>>
    \/ /\ ~settles(j)   \* false: the preview task removes what it wrote
       /\ Returns(j)
       /\ objects' = IF j = "derived" /\ status = "ready" THEN objects \ task[j].made ELSE objects
       /\ UNCHANGED <<version, asset, reps, job, faults>>
    \/ /\ Fault   \* the transaction fails
       /\ caught(queue)
       /\ objects' = keepsMade(j)
       /\ UNCHANGED <<version, asset, reps, job>>

-------------------------------------------------------------------------------
(* The worker tasks                                                             *)

\* The task throws, and Graphile runs it again.  As a mutant of the catch clause below:
\* the last attempt throws like the others.
throwsAlways(j, q) ==
    /\ task' = [task EXCEPT ![j] = Idle]
    /\ queue' = [q EXCEPT ![j].state = IF Last(j) THEN "dead" ELSE "ready"]

\* The catch clause for an error that may be transient: the task throws, unless this is
\* its last attempt, which settles asset_processing_exhausted.
retriesOrSettles(j, q) ==
    IF Last(j) THEN task' = [task EXCEPT ![j] = [pc |-> "fail", made |-> {}]] /\ queue' = q
    ELSE /\ task' = [task EXCEPT ![j] = Idle]
         /\ queue' = [q EXCEPT ![j].state = "ready"]

\* Reads the original, computes, and writes the derived objects; or part of them, before
\* an error of the storage.
Work(j) ==
    /\ At(j, "work")
    /\ \/ /\ "original" \in objects
          /\ \E made \in Outputs(j) :
               /\ objects' = objects \cup made
               /\ task' = [task EXCEPT ![j] = [pc |-> "settle", made |-> made]]
          /\ UNCHANGED queue
       \/ /\ "original" \in objects     \* a corrupt or unsupported file
          /\ Goes(j, "fail")
          /\ UNCHANGED objects
       \/ /\ \E made \in Outputs(j) : \E part \in SUBSET made :
               /\ "original" \notin objects => part = {}
               /\ objects' = objects \cup part
          /\ retriesOrSettles(j, queue)
    /\ UNCHANGED <<outboxVars, ledgers, faults>>

Settle(j) ==
    /\ At(j, "settle")
    /\ LET caught(q) == retriesOrSettles(j, q) IN Settlement(j, "ready", caught)
    /\ UNCHANGED <<outboxVars, kind, deleting, doomed>>

\* The settlement in the catch clause: what it throws leaves the task.
Fail(j) ==
    /\ At(j, "fail")
    /\ LET caught(q) == throwsAlways(j, q) IN Settlement(j, "failed", caught)
    /\ UNCHANGED <<outboxVars, kind, deleting, doomed>>

-------------------------------------------------------------------------------
(* tombstoneOwnedAsset: the keys are read first, in statements of their own.    *)

collects == {"original"} \cup reps

TombstoneReads ==
    /\ Removable /\ deleting = "none"
    /\ deleting' = "read" /\ doomed' = collects
    /\ UNCHANGED <<objects, outboxVars, kind, asset, version, job, queue, task, reps, faults>>

TombstoneCommits ==
    /\ deleting = "read"
    /\ outbox' = registered(doomed)
    /\ version' = "tombstoned" /\ asset' = "tombstoned"
    /\ deleting' = "done"
    /\ UNCHANGED <<objects, deleter, kind, job, queue, task, reps, doomed, faults>>

-------------------------------------------------------------------------------
Init ==
    /\ OutboxInit
    /\ objects = {"original"}
    /\ kind \in Kinds
    /\ asset = "processing" /\ version = "processing"
    /\ job = [j \in Jobs |-> IF j = "primary" THEN "queued" ELSE "absent"]
    /\ queue = [j \in Jobs |-> [state |-> IF j = "primary" THEN "ready" ELSE "none",
                                attempts |-> 0]]
    /\ task = [j \in Jobs |-> Idle]
    /\ reps = {} /\ deleting = "none" /\ doomed = {} /\ faults = 0

TaskStep(j) == Take(j) \/ Begin(j) \/ Work(j) \/ Settle(j) \/ Fail(j)
Outbox == DeleterStep /\ UNCHANGED <<ledgers, queue, task, faults>>

Next ==
    \/ \E j \in Jobs : TaskStep(j) \/ Die(j)
    \/ TombstoneReads \/ TombstoneCommits \/ Outbox

\* Graphile runs every job it holds; every step of a task returns or throws.
Fairness == \A j \in Jobs : WF_vars(TaskStep(j))

Spec == Init /\ [][Next]_vars /\ Fairness

-------------------------------------------------------------------------------
TypeOK ==
    /\ OutboxTypeOK
    /\ kind \in Kinds
    /\ asset \in {"processing", "ready", "failed", "tombstoned"}
    /\ version \in {"processing", "ready", "failed", "tombstoned"}
    /\ job \in [Jobs -> {"absent", "queued", "running", "succeeded", "failed", "cancelled"}]
    /\ queue \in [Jobs -> [state : {"none", "ready", "locked", "done", "dead"},
                            attempts : 0..QueueAttempts]]
    /\ task \in [Jobs -> [pc : {"idle", "begin", "work", "settle", "fail"},
                           made : SUBSET Derived]]
    /\ reps \subseteq Derived
    /\ deleting \in {"none", "read", "done"} /\ doomed \subseteq Keys
    /\ faults \in 0..MaxFaults

\* What the application reads is there: as long as the Source is not deleted, the
\* original and every object a representation or a keyframe points to exist, and the
\* asset, its version, its job and its representations agree.
NothingDangles ==
    asset # "tombstoned" =>
        /\ {"original"} \cup reps \subseteq objects
        /\ asset = version
        /\ asset = "ready" <=> job["primary"] = "succeeded"
        /\ asset = "failed" <=> job["primary"] = "failed"

Live == asset # "tombstoned"

\* What the task of a job may rely on, and what its ledger says of the outputs.
JobsOK ==
    /\ \A j \in Jobs :
         /\ task[j].pc \in {"work", "settle"} => Open(j)
         /\ task[j].pc = "settle" => task[j].made \in Outputs(j) /\ (Live => task[j].made \subseteq objects)
         /\ queue[j].state = "ready" => queue[j].attempts < QueueAttempts
    /\ job["primary"] # "absent"
    /\ job["derived"] # "absent" => job["primary"] = "succeeded"
    /\ job["derived"] = "absent" =>
         task["derived"].pc = "idle" /\ queue["derived"] = [state |-> "none", attempts |-> 0]

\* Derived objects that were settled are not written again.
RepsOK ==
    /\ "figures" \notin reps
    /\ reps \cap {"text", "frames"} # {} => job["primary"] = "succeeded"
    /\ "preview" \in reps => job["derived"] = "succeeded"

\* The outbox is asked for deletions by the tombstone alone, and for what it has read.
IntentsOK ==
    /\ Live => (\A k \in Keys : outbox[k] = NoRow) /\ \A d \in Deleters : deleter[d] = NoClaim
    /\ Live <=> deleting # "done"
    /\ Live => asset = version
    /\ ~Live => version = "tombstoned"
    /\ doomed \subseteq {"original"} \cup reps
    /\ \A k \in Keys : outbox[k].status # "absent" => k \in doomed
    /\ \A d \in Deleters : deleter[d] # NoClaim =>
         /\ outbox[deleter[d].key].status # "absent"
         /\ deleter[d].pc = "complete" => deleter[d].key \notin objects

\* The inductive invariant.
LifeInv == TypeOK /\ JobsOK /\ RepsOK /\ IntentsOK /\ NothingDangles /\ CompletedIsGone

\* Ready is final but for the deletion, and the deletion is final: a task that settles
\* after it, or again, brings nothing back.
DeletionStands ==
    [][/\ asset = "ready" => asset' \in {"ready", "tombstoned"}
       /\ asset = "tombstoned" => asset' = asset /\ version' = version]_vars

\* An upload is not processed for ever: whatever the storage does to its task, it
\* becomes ready or failed, or is deleted; the queue may only give it up when the ledger
\* failed too, or the worker died.
ProcessingEnds ==
    asset = "processing" ~>
        asset # "processing" \/ (queue["primary"].state = "dead" /\ faults > 0)

\* The ledger does not stay running when the queue has given up (the comment of the
\* tasks on their last attempt, extract-asset-text.ts:316-320).
LedgerFollowsQueue == \A j \in Jobs : queue[j].state = "dead" => ~Open(j)
===============================================================================

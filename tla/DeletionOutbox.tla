----------------------------- MODULE DeletionOutbox -----------------------------
(* DrizzleObjectDeletionOutboxRepository (packages/db) and the cron task that    *)
(* consumes it (apps/worker/src/tasks/delete-object-outbox.ts): every storage    *)
(* key a deleted row pointed to is registered with the deletion of the row, and  *)
(* removed from the object storage later, by a worker that may die, be slow, or  *)
(* fail to record what it did.  The clock is abstracted: a backoff may be over   *)
(* and a lease may have run out at any time, under a live worker too.            *)
EXTENDS Naturals

CONSTANTS
    Keys,                \* storage keys
    Deleters,            \* workers that run the cron task
    MaxDeletionAttempts, \* MAX_OBJECT_DELETION_ATTEMPTS, 10 in the code
    AttemptCeiling       \* OBJECT_DELETION_ATTEMPT_CEILING, 100 in the code

ASSUME OutboxAssumption ==
    /\ MaxDeletionAttempts \in Nat \ {0} /\ AttemptCeiling \in Nat
    /\ MaxDeletionAttempts <= AttemptCeiling

VARIABLES
    objects,   \* the keys under which the storage holds an object
    outbox,    \* the rows of object_deletion_outbox, one per key
    deleter    \* per worker, the claim it works on

outboxVars == <<outbox, deleter>>

Rows == [status : {"absent", "pending", "processing", "completed", "failed"},
         attempts : 0..AttemptCeiling]
NoRow == [status |-> "absent", attempts |-> 0]

NoClaim == [pc |-> "idle"]
Claims == [pc : {"delete", "complete", "fail"}, key : Keys, attempt : 1..AttemptCeiling]

-------------------------------------------------------------------------------
\* The rows after INSERT .. ON CONFLICT DO NOTHING of deletion intents for `keys`.
registered(keys) ==
    [k \in Keys |-> IF k \in keys /\ outbox[k].status = "absent"
                    THEN [status |-> "pending", attempts |-> 0] ELSE outbox[k]]

\* What a claim makes of a row at the ceiling of attempts.
\* Mutant: it is left as it is.
skipsExhausted(k) == outbox
closesExhausted(k) == [outbox EXCEPT ![k].status = "failed"]

\* claimBatch of one row: a pending one, or one whose lease has run out.
claim(d, k) ==
    /\ deleter[d] = NoClaim
    /\ outbox[k].status \in {"pending", "processing"}
    /\ IF outbox[k].attempts >= AttemptCeiling
       THEN /\ outbox' = closesExhausted(k)
            /\ UNCHANGED deleter
       ELSE /\ outbox' = [outbox EXCEPT ![k] = [status |-> "processing",
                                                attempts |-> @.attempts + 1]]
            /\ deleter' = [deleter EXCEPT ![d] =
                             [pc |-> "delete", key |-> k, attempt |-> outbox[k].attempts + 1]]

\* Mutant: an error of the storage is swallowed.
afterErrorCompletes == "complete"
afterError == "fail"

\* deleter.delete: an object that is not there counts as deleted.
deleteObject(d) ==
    /\ deleter[d].pc = "delete"
    /\ \/ /\ objects' = objects \ {deleter[d].key}
          /\ deleter' = [deleter EXCEPT ![d].pc = "complete"]
       \/ /\ deleter' = [deleter EXCEPT ![d].pc = afterError]
          /\ UNCHANGED objects

\* The WHERE of complete and fail.
\* Mutant: any claim of the row may record.
holdsAny(d) == TRUE
holds(d) ==
    outbox[deleter[d].key] = [status |-> "processing", attempts |-> deleter[d].attempt]

\* complete; when it throws, the task goes on to fail.
complete(d) ==
    /\ deleter[d].pc = "complete"
    /\ \/ /\ outbox' = IF holds(d) THEN [outbox EXCEPT ![deleter[d].key].status = "completed"]
                       ELSE outbox
          /\ deleter' = [deleter EXCEPT ![d] = NoClaim]
       \/ /\ deleter' = [deleter EXCEPT ![d].pc = "fail"]
          /\ UNCHANGED outbox

afterFailure(attempt) == IF attempt >= MaxDeletionAttempts THEN "failed" ELSE "pending"

\* fail; when it throws, the row stays with the claim until its lease runs out.
fail(d) ==
    /\ deleter[d].pc = "fail"
    /\ \/ outbox' = IF holds(d)
                    THEN [outbox EXCEPT ![deleter[d].key].status =
                                            afterFailure(deleter[d].attempt)]
                    ELSE outbox
       \/ UNCHANGED outbox
    /\ deleter' = [deleter EXCEPT ![d] = NoClaim]

\* The worker dies with its claim.
dies(d) ==
    /\ deleter[d] # NoClaim
    /\ deleter' = [deleter EXCEPT ![d] = NoClaim]
    /\ UNCHANGED outbox

Claim(d) == (\E k \in Keys : claim(d, k)) /\ UNCHANGED objects
Record(d) == (complete(d) \/ fail(d)) /\ UNCHANGED objects
Delete(d) == deleteObject(d) /\ UNCHANGED outbox
Dies(d) == dies(d) /\ UNCHANGED objects
DeleterStep == \E d \in Deleters : Claim(d) \/ Delete(d) \/ Record(d) \/ Dies(d)

\* A row that pointed to the object is deleted, and the intent registered with it.
Register == \E keys \in SUBSET objects : outbox' = registered(keys) /\ UNCHANGED <<objects, deleter>>

OutboxNext == Register \/ DeleterStep

OutboxInit == outbox = [k \in Keys |-> NoRow] /\ deleter = [d \in Deleters |-> NoClaim]

\* Cron claims again every minute, in the order of availableAt: no due row is passed
\* over for ever; a worker goes on with what it claimed, or dies.
OutboxFairness ==
    /\ \A k \in Keys : SF_<<objects, outboxVars>>(\E d \in Deleters : claim(d, k) /\ UNCHANGED objects)
    /\ \A d \in Deleters : WF_<<objects, outboxVars>>(Delete(d) \/ Record(d) \/ Dies(d))

OutboxSpec ==
    /\ OutboxInit /\ objects = Keys
    /\ [][OutboxNext]_<<objects, outboxVars>>
    /\ OutboxFairness

OutboxTypeOK ==
    /\ objects \subseteq Keys
    /\ outbox \in [Keys -> Rows]
    /\ deleter \in [Deleters -> Claims \cup {NoClaim}]

-------------------------------------------------------------------------------
OutboxFinal(r) == r.status \in {"completed", "failed"}

\* A deletion that was completed or given up is final: neither a worker whose claim has
\* lost its lease nor another registration of the key reopens the row or rewrites it
\* (object-deletion-outbox-repository.ts:53-55).
FinalRowsStand ==
    [][\A k \in Keys : OutboxFinal(outbox[k]) => outbox'[k] = outbox[k]]_outboxVars

\* A row says completed only of an object that is gone and stays gone, though the
\* claim that says so may have lost its lease and another may be at work on the key.
CompletedIsGone == \A k \in Keys : outbox[k].status = "completed" => k \notin objects

\* Every registered deletion comes to an end that can be found in the table, though
\* workers die and neither success nor failure may be recorded: at the ceiling of
\* attempts the next claim closes the row.
OutboxDrains == <>[](\A k \in Keys : outbox[k].status \notin {"pending", "processing"})
===============================================================================

------------------------------- MODULE MCRuntime --------------------------------
(* Three systems that share nothing, in one run: the life of an Asset, the loop of *)
(* a turn, and a deletion outbox with several workers.  A behaviour is one of      *)
(* `system`, and leaves the variables of the others where they began.              *)
EXTENDS AssetLifecycle, AgentLoop

CONSTANTS d2, k1, k2

VARIABLES system, stored, rows, worker

assetVars == vars
outboxOnly == <<stored, rows, worker>>
allVars == <<system, assetVars, loopVars, outboxOnly>>

Queue == INSTANCE DeletionOutbox WITH
    Keys <- {k1, k2}, Deleters <- Deleters \cup {d2}, MaxDeletionAttempts <- 2,
    AttemptCeiling <- 3, objects <- stored, outbox <- rows, deleter <- worker

\* An Asset whose life is over, and a loop that has been decided: nothing can happen.
AssetRests ==
    /\ OutboxInit
    /\ kind = CHOOSE k \in Kinds : TRUE
    /\ objects = {} /\ reps = {} /\ doomed = {} /\ deleting = "done"
    /\ asset = "tombstoned" /\ version = "tombstoned"
    /\ job = [j \in Jobs |-> "absent"] /\ task = [j \in Jobs |-> Idle]
    /\ queue = [j \in Jobs |-> [state |-> "none", attempts |-> 0]]
    /\ faults = 0

LoopRests ==
    /\ plan = CHOOSE p \in Plans : TRUE
    /\ loop = [NewLoop EXCEPT !.at = "ended"]
    /\ spent = NothingSpent
    /\ row = "none" /\ aborted = FALSE /\ guard = "open"
    /\ result = "completed" /\ decision = "completed"

AllInit ==
    /\ Queue!OutboxInit
    /\ \/ system = "asset" /\ Init /\ LoopRests /\ stored = {}
       \/ system = "loop" /\ LoopInit /\ AssetRests /\ stored = {}
       \/ system = "outbox" /\ AssetRests /\ LoopRests /\ stored = {k1, k2}

AllNext ==
    \/ system = "asset" /\ Next /\ UNCHANGED <<system, loopVars, outboxOnly>>
    \/ system = "loop" /\ LoopNext /\ UNCHANGED <<system, assetVars, outboxOnly>>
    \/ system = "outbox" /\ Queue!OutboxNext /\ UNCHANGED <<system, assetVars, loopVars>>

AllSpec ==
    AllInit /\ [][AllNext]_allVars /\ Fairness /\ LoopFairness /\ Queue!OutboxFairness

-------------------------------------------------------------------------------
\* Only the worker whose claim is the last one closes a row: see FinalRowsStand.
DeletionsAreFinal == Queue!FinalRowsStand

\* Every deletion comes to an end: see OutboxDrains.
DeletionsEnd == Queue!OutboxDrains
===============================================================================

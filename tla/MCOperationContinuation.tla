----------------------- MODULE MCOperationContinuation -----------------------
(* Bounds for TLC: the clock, the calls under way, and two regions that are     *)
(* explored to their ends, one worker with every Tool Call and every worker     *)
(* with one Tool Call.                                                          *)
EXTENDS OperationContinuation

CONSTANTS
    MaxClock, MaxInflight,
    TheCall,   \* the Tool Call that several workers contend for
    TheWorker  \* the worker under which continuations succeed each other

\* An Operation that failed allows what a completed one does; revocation meets one call
\* under way at a time.
Contention ==
    /\ Cardinality(inflight) <= MaxInflight
    /\ op.status # "failed"
    /\ ~access => Cardinality(inflight) <= 1
    /\ \A s \in Seqs : rows[s].status # "absent" => s = 1 /\ rows[s].call = TheCall
    /\ \A c \in Calls \ {TheCall} : approval[c] = "pending" /\ c \in pendingCalls

Succession ==
    /\ clock < MaxClock
    /\ Cardinality(inflight) <= 1
    /\ \A call \in inflight : call.owner = TheWorker
    /\ \A s \in Seqs : rows[s].gen <= 1 /\ rows[s].owner \in {TheWorker, NoOwner}

Bounded == clock <= MaxClock /\ (Contention \/ Succession)
==============================================================================

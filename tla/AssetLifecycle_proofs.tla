-------------------------- MODULE AssetLifecycle_proofs --------------------------
(* Theorems about the life of an Asset: for every kind of upload, any number of  *)
(* attempts and faults, and a deletion at any time.                              *)
EXTENDS AssetLifecycle, TLAPS

USE OutboxAssumption, LifecycleAssumption

-------------------------------------------------------------------------------
(* What the helpers do to the task and the queue of a job.                      *)

Tasks == [pc : {"idle", "begin", "work", "settle", "fail"}, made : SUBSET Derived]
Queues == [state : {"none", "ready", "locked", "done", "dead"}, attempts : 0..QueueAttempts]

\* The task of j and its queue entry, q before, move on, and those of no other job.
Moved(j, q) ==
    /\ task' \in [Jobs -> Tasks] /\ queue' \in [Jobs -> Queues]
    /\ \A l \in Jobs \ {j} : task'[l] = task[l] /\ queue'[l] = q[l]
    /\ queue'[j].state = "ready" => queue'[j].attempts < QueueAttempts

LEMMA Types ==
    ASSUME LifeInv
    PROVE  /\ task \in [Jobs -> Tasks] /\ queue \in [Jobs -> Queues]
           /\ \A j \in Jobs : queue[j].state = "ready" => queue[j].attempts < QueueAttempts
  BY DEF LifeInv, TypeOK, JobsOK, Tasks, Queues

LEMMA QueueMoves ==
    ASSUME NEW q \in [Jobs -> Queues], NEW j \in Jobs,
           NEW s \in {"none", "locked", "done", "dead"}, queue' = [q EXCEPT ![j].state = s]
    PROVE  /\ queue' \in [Jobs -> Queues]
           /\ \A l \in Jobs \ {j} : queue'[l] = q[l]
           /\ queue'[j].state = s /\ queue'[j].attempts = q[j].attempts
  BY DEF Queues

LEMMA QueueReady ==
    ASSUME NEW q \in [Jobs -> Queues], NEW j \in Jobs, queue' = [q EXCEPT ![j].state = "ready"]
    PROVE  /\ queue' \in [Jobs -> Queues]
           /\ \A l \in Jobs \ {j} : queue'[l] = q[l]
           /\ queue'[j].state = "ready" /\ queue'[j].attempts = q[j].attempts
  BY DEF Queues

LEMMA TaskMoves ==
    ASSUME task \in [Jobs -> Tasks], NEW j \in Jobs,
           NEW pc \in {"idle", "begin", "work", "settle", "fail"}, task' = [task EXCEPT ![j].pc = pc]
    PROVE  /\ task' \in [Jobs -> Tasks]
           /\ \A l \in Jobs \ {j} : task'[l] = task[l]
           /\ task'[j].pc = pc /\ task'[j].made = task[j].made
  BY DEF Tasks

LEMMA TaskSet ==
    ASSUME task \in [Jobs -> Tasks], NEW j \in Jobs, NEW t \in Tasks, task' = [task EXCEPT ![j] = t]
    PROVE  /\ task' \in [Jobs -> Tasks]
           /\ \A l \in Jobs \ {j} : task'[l] = task[l]
           /\ task'[j] = t
  OBVIOUS

LEMMA IdleTask == Idle \in Tasks /\ Idle.pc = "idle" /\ [pc |-> "fail", made |-> {}] \in Tasks
  BY DEF Idle, Tasks, Derived

LEMMA ReturnsMoves ==
    ASSUME task \in [Jobs -> Tasks], NEW q \in [Jobs -> Queues], NEW j \in Jobs,
           task' = [task EXCEPT ![j] = Idle], queue' = [q EXCEPT ![j].state = "done"]
    PROVE  Moved(j, q) /\ task'[j].pc = "idle"
  BY IdleTask, TaskSet, QueueMoves DEF Moved

LEMMA ThrowsMoves ==
    ASSUME task \in [Jobs -> Tasks], queue \in [Jobs -> Queues], NEW q \in [Jobs -> Queues],
           NEW j \in Jobs, q[j] = queue[j], throwsAlways(j, q)
    PROVE  Moved(j, q) /\ task'[j].pc = "idle"
<1>1. task' = [task EXCEPT ![j] = Idle]
  BY DEF throwsAlways
<1>2. queue[j].attempts \in 0..QueueAttempts /\ QueueAttempts \in Nat
  BY DEF Queues
<1>3. CASE Last(j)
  <2>1. queue' = [q EXCEPT ![j].state = "dead"]
    BY <1>3 DEF throwsAlways
  <2>2. QED
    BY <1>1, <2>1, IdleTask, TaskSet, QueueMoves DEF Moved
<1>4. CASE ~Last(j)
  <2>1. queue' = [q EXCEPT ![j].state = "ready"]
    BY <1>4, Zenon DEF throwsAlways
  <2>2. queue[j].attempts < QueueAttempts
    BY <1>2, <1>4 DEF Last
  <2>3. queue'[j].attempts = queue[j].attempts
    BY <2>1, QueueReady
  <2>4. QED
    BY <1>1, <2>1, <2>2, <2>3, IdleTask, TaskSet, QueueReady DEF Moved
<1>5. QED
  BY <1>3, <1>4

LEMMA RetriesMoves ==
    ASSUME task \in [Jobs -> Tasks], queue \in [Jobs -> Queues], NEW q \in [Jobs -> Queues],
           NEW j \in Jobs, q[j] = queue[j], retriesOrSettles(j, q),
           queue[j].state = "ready" => queue[j].attempts < QueueAttempts
    PROVE  Moved(j, q) /\ task'[j].pc \in {"idle", "fail"}
<1>1. CASE Last(j)
  BY <1>1, IdleTask, TaskSet DEF Moved, retriesOrSettles
<1>2. CASE ~Last(j)
  <2>1. throwsAlways(j, q)
    BY <1>2 DEF retriesOrSettles, throwsAlways
  <2>2. QED
    BY <2>1, ThrowsMoves
<1>3. QED
  BY <1>1, <1>2

-------------------------------------------------------------------------------
(* Steps that leave the ledgers alone.                                          *)

\* A task may write to the storage while its job is open, and forget what it did.
LEMMA TaskInv ==
    ASSUME LifeInv, NEW j \in Jobs, Moved(j, queue), faults' \in 0..MaxFaults,
           UNCHANGED <<outbox, deleter, kind, asset, version, job, reps, deleting, doomed>>,
           job[j] # "absent",
           task'[j].pc \in {"work", "settle"} => Open(j),
           task'[j].pc = "settle" => task'[j].made \in Outputs(j) /\ task'[j].made \subseteq objects',
           \/ objects' = objects
           \/ Open(j) /\ \E made \in Outputs(j) : objects \subseteq objects' /\ objects' \subseteq objects \cup made
    PROVE  LifeInv'
<1>1. ASSUME NEW made \in Outputs(j), Open(j)
      PROVE  made \subseteq Derived /\ made \cap doomed = {}
  <2>1. made \subseteq Derived
    BY <1>1 DEF Outputs, Derived
  <2>2. CASE j = "derived"
    <3>1. made = {"preview"}
      BY <1>1, <2>2 DEF Outputs
    <3>2. "preview" \notin reps
      BY <1>1, <2>2 DEF LifeInv, RepsOK, Open
    <3>3. doomed \subseteq {"original"} \cup reps
      BY DEF LifeInv, IntentsOK
    <3>4. QED
      BY <2>1, <3>1, <3>2, <3>3
  <2>3. CASE j = "primary"
    <3>1. made \subseteq {"text", "figures", "frames"}
      BY <1>1, <2>3 DEF Outputs
    <3>2. "figures" \notin reps /\ "text" \notin reps /\ "frames" \notin reps
      BY <1>1, <2>3 DEF LifeInv, RepsOK, Open
    <3>3. doomed \subseteq {"original"} \cup reps
      BY DEF LifeInv, IntentsOK
    <3>4. QED
      BY <2>1, <3>1, <3>2, <3>3
  <2>4. QED
    BY <2>1, <2>2, <2>3 DEF Jobs
<1>2. /\ objects \subseteq objects' /\ objects' \subseteq Keys
      /\ \A k \in doomed : k \in objects' => k \in objects
  BY <1>1 DEF LifeInv, TypeOK, OutboxTypeOK, Derived
<1>3. TypeOK'
  BY <1>2 DEF LifeInv, TypeOK, OutboxTypeOK, Moved, Tasks, Queues
<1>4. JobsOK'
  <2>1. ASSUME NEW l \in Jobs
        PROVE /\ task'[l].pc \in {"work", "settle"} => Open(l)'
              /\ task'[l].pc = "settle" =>
                   task'[l].made \in Outputs(l)' /\ (Live' => task'[l].made \subseteq objects')
              /\ queue'[l].state = "ready" => queue'[l].attempts < QueueAttempts
    <3>1. CASE l = j
      BY <3>1 DEF Moved, Open, Outputs, Live
    <3>2. CASE l # j
      BY <1>2, <3>2 DEF Moved, Open, Outputs, Live, LifeInv, JobsOK
    <3>3. QED
      BY <3>1, <3>2
  <2>2. job["derived"] = "absent" =>
          task'["derived"].pc = "idle" /\ queue'["derived"] = [state |-> "none", attempts |-> 0]
    BY DEF LifeInv, JobsOK, Moved, Jobs
  <2>3. QED
    BY <2>1, <2>2 DEF LifeInv, JobsOK
<1>5. RepsOK' /\ NothingDangles'
  BY <1>2 DEF LifeInv, RepsOK, NothingDangles
<1>6. IntentsOK'
  <2>1. ASSUME NEW d \in Deleters, deleter[d] # NoClaim
        PROVE deleter[d].key \in doomed
    BY <2>1 DEF LifeInv, IntentsOK, TypeOK, OutboxTypeOK, Claims
  <2>2. QED
    BY <1>2, <2>1 DEF LifeInv, IntentsOK, Live
<1>7. CompletedIsGone'
  BY <1>2 DEF LifeInv, IntentsOK, CompletedIsGone
<1>8. QED
  BY <1>3, <1>4, <1>5, <1>6, <1>7 DEF LifeInv

LEMMA TakeInv == ASSUME LifeInv, NEW j \in Jobs, Take(j) PROVE LifeInv'
<1>1. /\ queue[j].state = "ready" /\ task' = [task EXCEPT ![j].pc = "begin"]
      /\ queue' = [queue EXCEPT ![j] = [state |-> "locked", attempts |-> @.attempts + 1]]
      /\ UNCHANGED <<objects, outboxVars, ledgers, faults>>
  BY DEF Take
<1>2. queue[j].attempts < QueueAttempts /\ job[j] # "absent"
  BY <1>1 DEF LifeInv, JobsOK, TypeOK, Jobs
<1> DEFINE entry == [state |-> "locked", attempts |-> queue[j].attempts + 1]
<1>3. entry \in Queues /\ entry.state = "locked" /\ queue' = [queue EXCEPT ![j] = entry]
  BY <1>1, <1>2, Types DEF Queues
<1> HIDE DEF entry
<1>4. /\ task' \in [Jobs -> Tasks] /\ task'[j].pc = "begin"
      /\ \A l \in Jobs \ {j} : task'[l] = task[l]
  BY <1>1, Types, TaskMoves
<1>5. /\ queue' \in [Jobs -> Queues] /\ queue'[j] = entry
      /\ \A l \in Jobs \ {j} : queue'[l] = queue[l]
  BY <1>3, Types
<1>6. QED
  <2>1. faults' \in 0..MaxFaults
    BY <1>1 DEF LifeInv, TypeOK
  <2>2. QED
    BY <1>1, <1>2, <1>3, <1>4, <1>5, <2>1, TaskInv DEF Moved, outboxVars, ledgers

\* A task that is not idle works for a job.
LEMMA JobExists ==
    ASSUME LifeInv, NEW j \in Jobs, task[j].pc # "idle" PROVE job[j] # "absent"
  BY DEF LifeInv, JobsOK, Jobs, NothingDangles, TypeOK

LEMMA DieInv == ASSUME LifeInv, NEW j \in Jobs, Die(j) PROVE LifeInv'
<1>1. throwsAlways(j, queue) /\ task[j].pc # "idle" /\ UNCHANGED <<objects, outboxVars, ledgers>>
  BY DEF Die, At, Throws, throwsAlways
<1>2. faults' \in 0..MaxFaults
  BY DEF Die, Fault, LifeInv, TypeOK
<1>3. Moved(j, queue) /\ task'[j].pc = "idle"
  BY <1>1, Types, ThrowsMoves
<1>4. QED
  BY <1>1, <1>2, <1>3, JobExists, TaskInv DEF outboxVars, ledgers

LEMMA BeginInv == ASSUME LifeInv, NEW j \in Jobs, Begin(j) PROVE LifeInv'
<1>1. task[j].pc = "begin" /\ UNCHANGED <<objects, outboxVars, kind, asset, version, reps, deleting, doomed>>
  BY DEF Begin, At
<1>2. CASE ~Open(j) /\ Returns(j) /\ UNCHANGED <<job, faults>>
  <2>1. Moved(j, queue) /\ task'[j].pc = "idle"
    BY <1>2, Types, ReturnsMoves DEF Returns
  <2>2. QED
    BY <1>1, <1>2, <2>1, JobExists, TaskInv DEF outboxVars, LifeInv, TypeOK
<1>3. CASE Fault /\ Throws(j) /\ UNCHANGED job
  <2>1. throwsAlways(j, queue)
    BY <1>3 DEF Throws, throwsAlways
  <2>2. Moved(j, queue) /\ task'[j].pc = "idle"
    BY <2>1, Types, ThrowsMoves
  <2>3. faults' \in 0..MaxFaults
    BY <1>3 DEF Fault, LifeInv, TypeOK
  <2>4. QED
    BY <1>1, <1>3, <2>2, <2>3, JobExists, TaskInv DEF outboxVars
<1>4. ASSUME Open(j), NEW s \in {"running", "cancelled"}, job' = [job EXCEPT ![j] = s],
             s = "running" => Goes(j, "work"), s # "running" => Returns(j), UNCHANGED faults
      PROVE  LifeInv'
  <2>1. Moved(j, queue) /\ task'[j].pc \in {"idle", "work"} /\ (task'[j].pc = "work" => s = "running")
    <3>1. CASE s = "running"
      <4>1. task' = [task EXCEPT ![j].pc = "work"] /\ queue' = queue
        BY <1>4, <3>1 DEF Goes
      <4>2. QED
        BY <3>1, <4>1, Types, TaskMoves DEF Moved
    <3>2. CASE s # "running"
      BY <1>4, <3>2, Types, ReturnsMoves DEF Returns
    <3>3. QED
      BY <3>1, <3>2
  <2>2. job \in [Jobs -> {"absent", "queued", "running", "succeeded", "failed", "cancelled"}]
        /\ job[j] \in {"queued", "running"} /\ job'[j] = s /\ \A l \in Jobs \ {j} : job'[l] = job[l]
    BY <1>4 DEF LifeInv, TypeOK, Open
  <2>3. TypeOK'
    BY <1>1, <1>4, <2>1, <2>2 DEF LifeInv, TypeOK, OutboxTypeOK, outboxVars, Moved, Tasks, Queues
  <2>4. j = "primary" => job["derived"] = "absent"
    BY <2>2 DEF LifeInv, JobsOK, TypeOK, Jobs
  <2>5. JobsOK'
    <3>1. ASSUME NEW l \in Jobs
          PROVE /\ task'[l].pc \in {"work", "settle"} => Open(l)'
                /\ task'[l].pc = "settle" =>
                     task'[l].made \in Outputs(l)' /\ (Live' => task'[l].made \subseteq objects')
                /\ queue'[l].state = "ready" => queue'[l].attempts < QueueAttempts
      <4>1. CASE l = j
        BY <2>1, <2>2, <4>1 DEF Moved, Open
      <4>2. CASE l # j
        BY <1>1, <2>1, <2>2, <4>2 DEF Moved, Open, Outputs, Live, LifeInv, JobsOK
      <4>3. QED
        BY <4>1, <4>2
    <3>2. job'["primary"] # "absent" /\ (job'["derived"] # "absent" => job'["primary"] = "succeeded")
      BY <2>2, <2>4 DEF LifeInv, JobsOK, Jobs
    <3>3. job'["derived"] = "absent" =>
            task'["derived"].pc = "idle" /\ queue'["derived"] = [state |-> "none", attempts |-> 0]
      BY <2>1, <2>2, <2>4 DEF LifeInv, JobsOK, Jobs, Moved
    <3>4. QED
      BY <3>1, <3>2, <3>3 DEF JobsOK
  <2>6. RepsOK'
    BY <1>1, <2>2, <2>4 DEF LifeInv, RepsOK, Jobs
  <2>7. NothingDangles'
    BY <1>1, <2>2 DEF LifeInv, NothingDangles, Jobs
  <2>8. IntentsOK' /\ CompletedIsGone'
    BY <1>1 DEF LifeInv, IntentsOK, CompletedIsGone, Live, outboxVars
  <2>9. QED
    BY <2>3, <2>5, <2>6, <2>7, <2>8 DEF LifeInv
<1>5. CASE /\ Open(j) /\ UNCHANGED faults
           /\ job' = [job EXCEPT ![j] = IF Available(j) THEN "running" ELSE "cancelled"]
           /\ IF Available(j) THEN Goes(j, "work") ELSE Returns(j)
  <2>1. CASE Available(j)
    <3>1. job' = [job EXCEPT ![j] = "running"] /\ Goes(j, "work")
      BY <1>5, <2>1, Zenon
    <3>2. QED
      BY <1>4, <1>5, <3>1
  <2>2. CASE ~Available(j)
    <3>1. job' = [job EXCEPT ![j] = "cancelled"] /\ Returns(j)
      BY <1>5, <2>2, Zenon
    <3>2. QED
      BY <1>4, <1>5, <3>1
  <2>3. QED
    BY <2>1, <2>2
<1>6. QED
  BY <1>2, <1>3, <1>5 DEF Begin

LEMMA WorkInv == ASSUME LifeInv, NEW j \in Jobs, Work(j) PROVE LifeInv'
<1>1. /\ task[j].pc = "work" /\ Open(j) /\ job[j] # "absent" /\ faults' \in 0..MaxFaults
      /\ UNCHANGED <<outbox, deleter, kind, asset, version, job, reps, deleting, doomed>>
  BY DEF Work, At, LifeInv, JobsOK, TypeOK, outboxVars, ledgers, Open
<1>2. ASSUME NEW made \in Outputs(j), objects' = objects \cup made, UNCHANGED queue,
             task' = [task EXCEPT ![j] = [pc |-> "settle", made |-> made]]
      PROVE LifeInv'
  <2>1. [pc |-> "settle", made |-> made] \in Tasks
    BY <1>2 DEF Outputs, Tasks, Derived
  <2>2. Moved(j, queue) /\ task'[j] = [pc |-> "settle", made |-> made]
    BY <1>2, <2>1, Types, TaskSet DEF Moved
  <2>3. QED
    BY <1>1, <1>2, <2>2, TaskInv
<1>3. CASE Goes(j, "fail") /\ UNCHANGED objects
  <2>1. task' = [task EXCEPT ![j].pc = "fail"] /\ queue' = queue
    BY <1>3 DEF Goes
  <2>2. Moved(j, queue) /\ task'[j].pc = "fail"
    BY <2>1, Types, TaskMoves DEF Moved
  <2>3. QED
    BY <1>1, <1>3, <2>2, TaskInv
<1>4. ASSUME NEW made \in Outputs(j), NEW part \in SUBSET made, objects' = objects \cup part,
             retriesOrSettles(j, queue)
      PROVE LifeInv'
  <2>1. Moved(j, queue) /\ task'[j].pc \in {"idle", "fail"}
    BY <1>4, Types, RetriesMoves
  <2>2. QED
    BY <1>1, <1>4, <2>1, TaskInv
<1>5. QED
  BY <1>2, <1>3, <1>4 DEF Work

-------------------------------------------------------------------------------
(* Settlements.                                                                 *)

\* A settlement that commits: j was open, and its task is idle or about to fail.
LEMMA LedgersInv ==
    ASSUME LifeInv, NEW j \in Jobs, NEW status \in {"ready", "failed"},
           Open(j), j = "primary" => admits,
           status = "ready" => task[j].pc = "settle",
           Ledgers(j, status), Moved(j, Enqueues(queue, j, status)),
           task'[j].pc \in {"idle", "fail"},
           UNCHANGED <<objects, outboxVars, kind, deleting, doomed>>,
           faults' \in 0..MaxFaults
    PROVE  LifeInv'
<1> USE DEF Jobs
<1>1. /\ job \in [Jobs -> {"absent", "queued", "running", "succeeded", "failed", "cancelled"}]
      /\ job["derived"] # "absent" => job["primary"] = "succeeded"
      /\ job["primary"] # "absent"
      /\ job[j] \in {"queued", "running"}
  BY DEF LifeInv, TypeOK, JobsOK, Open
<1>2. j = "primary" => job["derived"] = "absent"
  BY <1>1
<1>3. /\ job' \in [Jobs -> {"absent", "queued", "running", "succeeded", "failed", "cancelled"}]
      /\ job'[j] = IF status = "ready" THEN "succeeded" ELSE "failed"
      /\ j = "derived" => job'["primary"] = job["primary"]
      /\ j = "primary" => job'["derived"] \in {"absent", "queued"}
      /\ j = "primary" /\ job'["derived"] = "queued" => status = "ready" /\ kind = "pdf"
      /\ j = "primary" /\ job'["derived"] = "absent" => status # "ready" \/ kind # "pdf"
  BY <1>1, <1>2 DEF Ledgers
<1>4. status = "ready" => task[j].made \in Outputs(j) /\ (Live => task[j].made \subseteq objects)
  BY DEF LifeInv, JobsOK
<1>5. Referenced(task[j].made) \subseteq Derived /\ "figures" \notin Referenced(task[j].made)
  BY DEF Referenced, LifeInv, TypeOK
<1>6. /\ status = "ready" /\ j = "primary" => Referenced(task[j].made) \subseteq {"text", "frames"}
      /\ status = "ready" /\ j = "derived" => Referenced(task[j].made) = {"preview"}
  BY <1>4 DEF Referenced, Outputs
<1>7. TypeOK'
  BY <1>1, <1>3, <1>5 DEF Ledgers, LifeInv, TypeOK, OutboxTypeOK, outboxVars, Moved, Tasks, Queues
<1>8. JobsOK'
  <2>1. ASSUME NEW l \in Jobs
        PROVE /\ task'[l].pc \in {"work", "settle"} => Open(l)'
              /\ task'[l].pc = "settle" =>
                   task'[l].made \in Outputs(l)' /\ (Live' => task'[l].made \subseteq objects')
              /\ queue'[l].state = "ready" => queue'[l].attempts < QueueAttempts
    <3>1. CASE l = j
      BY <3>1 DEF Moved
    <3>2. CASE l # j /\ j = "primary"
      BY <1>1, <1>2, <3>2 DEF Moved, Enqueues, LifeInv, JobsOK
    <3>3. CASE l # j /\ j = "derived"
      <4>1. task[l].pc \notin {"work", "settle"}
        BY <1>1, <3>3 DEF LifeInv, JobsOK, Open
      <4>2. QED
        BY <3>3, <4>1 DEF Moved, Enqueues, LifeInv, JobsOK
    <3>4. QED
      BY <3>1, <3>2, <3>3
  <2>2. job'["primary"] # "absent" /\ (job'["derived"] # "absent" => job'["primary"] = "succeeded")
    BY <1>1, <1>3
  <2>3. job'["derived"] = "absent" =>
          task'["derived"].pc = "idle" /\ queue'["derived"] = [state |-> "none", attempts |-> 0]
    BY <1>1, <1>2, <1>3 DEF Moved, Enqueues, LifeInv, JobsOK
  <2>4. QED
    BY <2>1, <2>2, <2>3 DEF JobsOK
<1>9. RepsOK'
  BY <1>1, <1>2, <1>3, <1>5, <1>6 DEF Ledgers, LifeInv, RepsOK
<1>10. NothingDangles'
  <2>1. CASE j = "derived"
    BY <1>3, <1>4, <2>1 DEF Ledgers, Referenced, LifeInv, NothingDangles, Live
  <2>2. CASE j = "primary"
    BY <1>3, <1>4, <2>2 DEF Ledgers, Referenced, LifeInv, NothingDangles, Live, admits
  <2>3. QED
    BY <2>1, <2>2
<1>11. IntentsOK'
  BY DEF Ledgers, LifeInv, IntentsOK, Live, admits, outboxVars
<1>12. CompletedIsGone'
  BY DEF LifeInv, CompletedIsGone, outboxVars
<1>13. QED
  BY <1>7, <1>8, <1>9, <1>10, <1>11, <1>12 DEF LifeInv

LEMMA EnqueuesQueue ==
    ASSUME LifeInv, NEW j \in Jobs, NEW status \in {"ready", "failed"}
    PROVE  Enqueues(queue, j, status) \in [Jobs -> Queues] /\ Enqueues(queue, j, status)[j] = queue[j]
  BY Types DEF Enqueues, Queues, Jobs

LEMMA SettleInv == ASSUME LifeInv, NEW j \in Jobs, Settle(j) PROVE LifeInv'
<1> DEFINE q == Enqueues(queue, j, "ready")
<1>1. /\ task[j].pc = "settle" /\ Open(j) /\ job[j] # "absent"
      /\ UNCHANGED <<outboxVars, kind, deleting, doomed>>
  BY DEF Settle, At, LifeInv, JobsOK, Open
<1>2. q \in [Jobs -> Queues] /\ q[j] = queue[j] /\ q = Enqueues(queue, j, "ready")
  BY EnqueuesQueue
<1>3. UNCHANGED faults \/ Fault => faults' \in 0..MaxFaults
  BY DEF Fault, LifeInv, TypeOK
<1>4. CASE /\ j = "primary" => admits
           /\ Ledgers(j, "ready")
           /\ task' = [task EXCEPT ![j] = Idle]
           /\ queue' = Enqueues([queue EXCEPT ![j].state = "done"], j, "ready")
           /\ UNCHANGED <<objects, faults>>
  <2>1. queue' = [q EXCEPT ![j].state = "done"]
    BY <1>4, Types DEF Enqueues, Queues, Jobs
  <2>2. Moved(j, q) /\ task'[j].pc = "idle"
    BY <1>2, <1>4, <2>1, Types, ReturnsMoves
  <2>3. QED
    BY <1>1, <1>2, <1>3, <1>4, <2>2, LedgersInv
<1>5. CASE (j = "primary" => admits) /\ Ledgers(j, "ready") /\ Fault
           /\ retriesOrSettles(j, Enqueues(queue, j, "ready")) /\ objects' = objects
  <2>1. Moved(j, q) /\ task'[j].pc \in {"idle", "fail"}
    BY <1>2, <1>5, Types, RetriesMoves
  <2>2. QED
    BY <1>1, <1>2, <1>3, <1>5, <2>1, LedgersInv
<1>6. CASE retriesOrSettles(j, queue) /\ objects' = objects
           /\ UNCHANGED <<version, asset, reps, job>> /\ (UNCHANGED faults \/ Fault)
  <2>1. Moved(j, queue) /\ task'[j].pc \in {"idle", "fail"}
    BY <1>6, Types, RetriesMoves
  <2>2. QED
    BY <1>1, <1>3, <1>6, <2>1, TaskInv DEF outboxVars
<1>7. QED
  BY <1>1, <1>4, <1>5, <1>6 DEF Settle, Settlement, settles, keepsMade

LEMMA FailInv == ASSUME LifeInv, NEW j \in Jobs, Fail(j) PROVE LifeInv'
<1> DEFINE q == Enqueues(queue, j, "failed")
<1>1. /\ task[j].pc = "fail" /\ job[j] # "absent"
      /\ UNCHANGED <<outboxVars, kind, deleting, doomed>>
  BY JobExists DEF Fail, At
<1>2. q \in [Jobs -> Queues] /\ q[j] = queue[j] /\ q = Enqueues(queue, j, "failed")
  BY EnqueuesQueue
<1>3. UNCHANGED faults \/ Fault => faults' \in 0..MaxFaults
  BY DEF Fault, LifeInv, TypeOK
<1>4. CASE /\ Open(j) /\ (j = "primary" => admits)
           /\ Ledgers(j, "failed")
           /\ task' = [task EXCEPT ![j] = Idle]
           /\ queue' = Enqueues([queue EXCEPT ![j].state = "done"], j, "failed")
           /\ UNCHANGED <<objects, faults>>
  <2>1. queue' = [q EXCEPT ![j].state = "done"]
    BY <1>4, Types DEF Enqueues, Queues, Jobs
  <2>2. Moved(j, q) /\ task'[j].pc = "idle"
    BY <1>2, <1>4, <2>1, Types, ReturnsMoves
  <2>3. QED
    BY <1>1, <1>2, <1>3, <1>4, <2>2, LedgersInv
<1>5. CASE Open(j) /\ (j = "primary" => admits) /\ Ledgers(j, "failed") /\ Fault
           /\ throwsAlways(j, Enqueues(queue, j, "failed")) /\ objects' = objects
  <2>1. Moved(j, q) /\ task'[j].pc = "idle"
    BY <1>2, <1>5, Types, ThrowsMoves
  <2>2. QED
    BY <1>1, <1>2, <1>3, <1>5, <2>1, LedgersInv
<1>6. CASE throwsAlways(j, queue) /\ objects' = objects
           /\ UNCHANGED <<version, asset, reps, job>> /\ (UNCHANGED faults \/ Fault)
  <2>1. Moved(j, queue) /\ task'[j].pc = "idle"
    BY <1>6, Types, ThrowsMoves
  <2>2. QED
    BY <1>1, <1>3, <1>6, <2>1, TaskInv DEF outboxVars
<1>7. CASE Returns(j) /\ objects' = objects /\ UNCHANGED <<version, asset, reps, job, faults>>
  <2>1. Moved(j, queue) /\ task'[j].pc = "idle"
    BY <1>7, Types, ReturnsMoves DEF Returns
  <2>2. QED
    BY <1>1, <1>3, <1>7, <2>1, TaskInv DEF outboxVars
<1>8. QED
  BY <1>1, <1>4, <1>5, <1>6, <1>7 DEF Fail, Settlement, settles, keepsMade

-------------------------------------------------------------------------------
(* The deletion and its outbox.                                                 *)

LEMMA TombstoneReadsInv == ASSUME LifeInv, TombstoneReads PROVE LifeInv'
<1>1. /\ deleting = "none" /\ deleting' = "read" /\ doomed' = {"original"} \cup reps
      /\ UNCHANGED <<objects, outboxVars, kind, asset, version, job, queue, task, reps, faults>>
  BY DEF TombstoneReads, collects
<1>2. TypeOK'
  BY <1>1 DEF LifeInv, TypeOK, OutboxTypeOK, outboxVars, Derived
<1>3. JobsOK' /\ RepsOK' /\ NothingDangles' /\ CompletedIsGone'
  BY <1>1 DEF LifeInv, JobsOK, RepsOK, NothingDangles, CompletedIsGone, Open, Outputs, Live, outboxVars
<1>4. IntentsOK'
  BY <1>1 DEF LifeInv, IntentsOK, Live, outboxVars, NoRow
<1>5. QED
  BY <1>2, <1>3, <1>4 DEF LifeInv

LEMMA TombstoneCommitsInv == ASSUME LifeInv, TombstoneCommits PROVE LifeInv'
<1>1. /\ deleting = "read" /\ deleting' = "done" /\ outbox' = registered(doomed)
      /\ version' = "tombstoned" /\ asset' = "tombstoned"
      /\ UNCHANGED <<objects, deleter, kind, job, queue, task, reps, doomed, faults>>
  BY DEF TombstoneCommits
<1>2. Live /\ (\A k \in Keys : outbox[k] = NoRow) /\ (\A d \in Deleters : deleter[d] = NoClaim)
  BY <1>1 DEF LifeInv, IntentsOK
<1>3. \A k \in Keys : outbox'[k] = IF k \in doomed THEN [status |-> "pending", attempts |-> 0] ELSE NoRow
  BY <1>1, <1>2 DEF registered, NoRow
<1>4. outbox' \in [Keys -> Rows]
  BY <1>1, <1>2 DEF registered, NoRow, Rows
<1>5. TypeOK'
  BY <1>1, <1>4 DEF LifeInv, TypeOK, OutboxTypeOK
<1>6. JobsOK' /\ RepsOK' /\ NothingDangles'
  BY <1>1 DEF LifeInv, JobsOK, RepsOK, NothingDangles, Open, Outputs, Live
<1>7. IntentsOK' /\ CompletedIsGone'
  BY <1>1, <1>2, <1>3 DEF LifeInv, IntentsOK, CompletedIsGone, Live, NoRow
<1>8. QED
  BY <1>5, <1>6, <1>7 DEF LifeInv

\* A step of the outbox comes after the tombstone, where nothing depends on the storage.
LEMMA DeleterInv ==
    ASSUME LifeInv, ~Live,
           UNCHANGED <<ledgers, queue, task, faults>>, objects' \subseteq objects,
           outbox' \in [Keys -> Rows], deleter' \in [Deleters -> Claims \cup {NoClaim}],
           \A k \in Keys : outbox'[k].status = "absent" <=> outbox[k].status = "absent",
           \A k \in Keys : outbox'[k].status = "completed" => k \notin objects',
           \A d \in Deleters : deleter'[d] # NoClaim =>
             /\ outbox[deleter'[d].key].status # "absent"
             /\ deleter'[d].pc = "complete" => deleter'[d].key \notin objects'
    PROVE  LifeInv'
<1>1. ~Live' /\ UNCHANGED <<kind, asset, version, job, reps, deleting, doomed>>
  BY DEF ledgers, Live
<1>2. TypeOK'
  BY <1>1 DEF LifeInv, TypeOK, OutboxTypeOK
<1>3. JobsOK'
  BY <1>1 DEF LifeInv, JobsOK, Open, Outputs
<1>4. RepsOK' /\ NothingDangles'
  BY <1>1 DEF LifeInv, RepsOK, NothingDangles, Live
<1>5. \A d \in Deleters : deleter'[d] # NoClaim => deleter'[d].key \in Keys
  BY DEF Claims
<1>6. IntentsOK'
  BY <1>1, <1>5 DEF LifeInv, IntentsOK
<1>7. CompletedIsGone'
  BY DEF CompletedIsGone
<1>8. QED
  BY <1>2, <1>3, <1>4, <1>6, <1>7 DEF LifeInv

LEMMA OutboxInv == ASSUME LifeInv, Outbox PROVE LifeInv'
<1> USE DEF outboxVars
<1>1. PICK d \in Deleters : Claim(d) \/ Delete(d) \/ Record(d) \/ Dies(d)
  BY DEF Outbox, DeleterStep
<1>2. UNCHANGED <<ledgers, queue, task, faults>>
  BY DEF Outbox
<1>3. /\ outbox \in [Keys -> Rows] /\ deleter \in [Deleters -> Claims \cup {NoClaim}]
      /\ \A k \in Keys : outbox[k].status = "completed" => k \notin objects
      /\ \A e \in Deleters : deleter[e] # NoClaim =>
           /\ outbox[deleter[e].key].status # "absent" /\ deleter[e].key \in Keys
           /\ deleter[e].pc \in {"delete", "complete", "fail"}
           /\ deleter[e].attempt \in 1..AttemptCeiling
           /\ deleter[e] \in Claims
           /\ deleter[e].pc = "complete" => deleter[e].key \notin objects
  BY DEF LifeInv, TypeOK, OutboxTypeOK, CompletedIsGone, IntentsOK, Claims
<1>4. NoClaim.pc = "idle"
  BY DEF NoClaim
<1>5. ~Live
  <2>1. CASE Claim(d)
    BY <2>1 DEF Claim, claim, LifeInv, IntentsOK, NoRow
  <2>2. CASE Delete(d) \/ Record(d) \/ Dies(d)
    BY <1>4, <2>2 DEF Delete, deleteObject, Record, complete, fail, Dies, dies, LifeInv, IntentsOK
  <2>3. QED
    BY <1>1, <2>1, <2>2
<1>6. CASE Claim(d)
  <2>1. PICK k \in Keys : claim(d, k)
    BY <1>6 DEF Claim
  <2>2. CASE outbox[k].attempts >= AttemptCeiling
    <3>1. outbox' = [outbox EXCEPT ![k].status = "failed"] /\ UNCHANGED <<objects, deleter>>
      BY <1>6, <2>1, <2>2 DEF Claim, claim, closesExhausted
    <3>2. outbox' \in [Keys -> Rows] /\ outbox'[k].status = "failed"
          /\ \A l \in Keys \ {k} : outbox'[l] = outbox[l]
      BY <1>3, <3>1 DEF Rows
    <3>3. outbox[k].status # "absent"
      BY <2>1 DEF claim
    <3>4. QED
      BY <1>2, <1>3, <1>5, <3>1, <3>2, <3>3, DeleterInv
  <2>3. CASE ~(outbox[k].attempts >= AttemptCeiling)
    <3> DEFINE row == [status |-> "processing", attempts |-> outbox[k].attempts + 1]
               claimed == [pc |-> "delete", key |-> k, attempt |-> outbox[k].attempts + 1]
    <3>1. outbox' = [outbox EXCEPT ![k] = row] /\ deleter' = [deleter EXCEPT ![d] = claimed]
          /\ UNCHANGED objects /\ outbox[k].status # "absent"
      BY <1>6, <2>1, <2>3 DEF Claim, claim
    <3>2. row \in Rows /\ claimed \in Claims /\ row.status = "processing"
          /\ claimed.pc = "delete" /\ claimed.key = k
      BY <1>3, <2>3 DEF Rows, Claims
    <3> HIDE DEF row, claimed
    <3>3. outbox' \in [Keys -> Rows] /\ outbox'[k] = row
          /\ \A l \in Keys \ {k} : outbox'[l] = outbox[l]
      BY <1>3, <3>1, <3>2
    <3>4. deleter' \in [Deleters -> Claims \cup {NoClaim}] /\ deleter'[d] = claimed
          /\ \A e \in Deleters \ {d} : deleter'[e] = deleter[e]
      BY <1>3, <3>1, <3>2
    <3>5. QED
      BY <1>2, <1>3, <1>5, <3>1, <3>2, <3>3, <3>4, DeleterInv
  <2>4. QED
    BY <2>2, <2>3
<1>7. ASSUME NEW pc \in {"complete", "fail"}, deleter[d] # NoClaim, UNCHANGED outbox,
             deleter' = [deleter EXCEPT ![d].pc = pc],
             objects' = objects \/ objects' = objects \ {deleter[d].key},
             pc = "complete" => objects' = objects \ {deleter[d].key}
      PROVE LifeInv'
  <2> DEFINE claimed == [deleter[d] EXCEPT !.pc = pc]
  <2>1. claimed \in Claims /\ claimed.pc = pc /\ claimed.key = deleter[d].key
    BY <1>3, <1>7 DEF Claims
  <2>2. deleter' = [deleter EXCEPT ![d] = claimed]
    BY <1>7
  <2> HIDE DEF claimed
  <2>3. deleter' \in [Deleters -> Claims \cup {NoClaim}] /\ deleter'[d] = claimed
        /\ \A e \in Deleters \ {d} : deleter'[e] = deleter[e]
    BY <1>3, <2>1, <2>2
  <2>4. QED
    BY <1>2, <1>3, <1>5, <1>7, <2>1, <2>3, DeleterInv
<1>8. ASSUME deleter[d] # NoClaim, UNCHANGED objects, deleter' = [deleter EXCEPT ![d] = NoClaim],
             NEW s \in {"completed", "failed", "pending"},
             outbox' = outbox \/ outbox' = [outbox EXCEPT ![deleter[d].key].status = s],
             s = "completed" => deleter[d].pc = "complete"
      PROVE LifeInv'
  <2>1. outbox' \in [Keys -> Rows]
        /\ (outbox'[deleter[d].key].status = s \/ outbox' = outbox)
        /\ \A l \in Keys \ {deleter[d].key} : outbox'[l] = outbox[l]
    BY <1>3, <1>8 DEF Rows
  <2>2. deleter' \in [Deleters -> Claims \cup {NoClaim}] /\ deleter'[d] = NoClaim
        /\ \A e \in Deleters \ {d} : deleter'[e] = deleter[e]
    BY <1>3, <1>8
  <2>3. QED
    BY <1>2, <1>3, <1>5, <1>8, <2>1, <2>2, DeleterInv
<1>9. CASE Delete(d)
  <2>1. deleter[d].pc = "delete" /\ deleter[d] # NoClaim /\ UNCHANGED outbox
    BY <1>4, <1>9 DEF Delete, deleteObject
  <2>2. CASE objects' = objects \ {deleter[d].key} /\ deleter' = [deleter EXCEPT ![d].pc = "complete"]
    BY <1>7, <2>1, <2>2
  <2>3. CASE objects' = objects /\ deleter' = [deleter EXCEPT ![d].pc = "fail"]
    BY <1>7, <2>1, <2>3
  <2>4. QED
    BY <1>9, <2>2, <2>3 DEF Delete, deleteObject, afterError
<1>10. CASE Record(d) /\ complete(d)
  <2>1. deleter[d].pc = "complete" /\ deleter[d] # NoClaim /\ UNCHANGED objects
    BY <1>4, <1>10 DEF Record, complete
  <2>2. CASE deleter' = [deleter EXCEPT ![d].pc = "fail"] /\ UNCHANGED outbox
    BY <1>7, <2>1, <2>2
  <2>3. CASE /\ deleter' = [deleter EXCEPT ![d] = NoClaim]
             /\ outbox' = outbox \/ outbox' = [outbox EXCEPT ![deleter[d].key].status = "completed"]
    BY <1>8, <2>1, <2>3
  <2>4. QED
    BY <1>10, <2>2, <2>3 DEF complete
<1>11. CASE Record(d) /\ fail(d)
  <2>1. deleter[d] # NoClaim /\ UNCHANGED objects /\ deleter' = [deleter EXCEPT ![d] = NoClaim]
    BY <1>4, <1>11 DEF Record, fail
  <2>2. afterFailure(deleter[d].attempt) \in {"failed", "pending"}
    BY DEF afterFailure
  <2>3. outbox' = outbox
        \/ outbox' = [outbox EXCEPT ![deleter[d].key].status = afterFailure(deleter[d].attempt)]
    BY <1>11 DEF fail
  <2>4. QED
    BY <1>8, <2>1, <2>2, <2>3
<1>12. CASE Dies(d)
  <2>1. deleter[d] # NoClaim /\ UNCHANGED <<objects, outbox>> /\ deleter' = [deleter EXCEPT ![d] = NoClaim]
    BY <1>12 DEF Dies, dies
  <2>2. QED
    BY <1>8, <2>1
<1>13. QED
  BY <1>1, <1>6, <1>9, <1>10, <1>11, <1>12 DEF Record

-------------------------------------------------------------------------------
(* The theorems.                                                                *)

LEMMA LifeInitInv == Init => LifeInv
<1> SUFFICES ASSUME Init PROVE LifeInv
  OBVIOUS
<1> USE DEF Init, OutboxInit
<1>1. TypeOK
  BY DEF TypeOK, OutboxTypeOK, NoRow, Rows, Idle, Derived, Jobs
<1>2. JobsOK /\ RepsOK
  BY DEF JobsOK, RepsOK, Jobs, Idle
<1>3. IntentsOK /\ NothingDangles /\ CompletedIsGone
  BY DEF IntentsOK, NothingDangles, CompletedIsGone, Live, NoRow, Jobs
<1>4. QED
  BY <1>1, <1>2, <1>3 DEF LifeInv

LEMMA LifeNextInv == LifeInv /\ [Next]_vars => LifeInv'
<1> SUFFICES ASSUME LifeInv, [Next]_vars PROVE LifeInv'
  OBVIOUS
<1>1. ASSUME NEW j \in Jobs, TaskStep(j) \/ Die(j) PROVE LifeInv'
  BY <1>1, TakeInv, BeginInv, WorkInv, SettleInv, FailInv, DieInv DEF TaskStep
<1>2. CASE TombstoneReads \/ TombstoneCommits
  BY <1>2, TombstoneReadsInv, TombstoneCommitsInv
<1>3. CASE Outbox
  BY <1>3, OutboxInv
<1>4. CASE UNCHANGED vars
  <2>1. TypeOK'
    BY <1>4 DEF LifeInv, TypeOK, OutboxTypeOK, vars
  <2>2. JobsOK' /\ RepsOK' /\ NothingDangles' /\ CompletedIsGone' /\ IntentsOK'
    BY <1>4 DEF LifeInv, JobsOK, RepsOK, IntentsOK, NothingDangles, CompletedIsGone, Open, Outputs, Live, vars
  <2>3. QED
    BY <2>1, <2>2 DEF LifeInv
<1>5. QED
  BY <1>1, <1>2, <1>3, <1>4 DEF Next

\* A task only works for a job that is open, derived objects are settled once, and the
\* outbox holds what the tombstone has read (asset-repository.ts:1553-1671).
THEOREM LifeInvariant == Spec => []LifeInv
<1>1. Init => LifeInv
  BY LifeInitInv
<1>2. LifeInv /\ [Next]_vars => LifeInv'
  BY LifeNextInv
<1>3. QED
  BY <1>1, <1>2, PTL DEF Spec

\* As long as a Source is not deleted, everything its representations point to exists
\* (asset-repository.ts:506-681, 1553-1671).
THEOREM LifeNothingDangles == Spec => []NothingDangles
<1>1. LifeInv => NothingDangles
  BY DEF LifeInv
<1>2. QED
  BY <1>1, LifeInvariant, PTL

\* A deletion that is recorded as completed is one that happened, and that no task of
\* the Asset undoes (object-deletion-outbox-repository.ts:147-166).
THEOREM LifeCompletedIsGone == Spec => []CompletedIsGone
<1>1. LifeInv => CompletedIsGone
  BY DEF LifeInv
<1>2. QED
  BY <1>1, LifeInvariant, PTL

\* No settlement, of whatever task, brings a deleted Source back, or makes a processed
\* one fail (schema/asset.ts:71-74, asset-repository.ts:506-681).
THEOREM LifeDeletionStands == Spec => DeletionStands
<1>1. LifeInv /\ [Next]_vars =>
        [/\ asset = "ready" => asset' \in {"ready", "tombstoned"}
         /\ asset = "tombstoned" => asset' = asset /\ version' = version]_vars
  <2> SUFFICES ASSUME LifeInv, Next
               PROVE  /\ asset = "ready" => asset' \in {"ready", "tombstoned"}
                      /\ asset = "tombstoned" => asset' = asset /\ version' = version
    OBVIOUS
  <2>1. ASSUME NEW j \in Jobs, Settle(j) \/ Fail(j)
        PROVE  \/ UNCHANGED <<asset, version>>
               \/ j = "primary" /\ Open(j) /\ admits
    BY <2>1 DEF Settle, Fail, Settlement, settles, Ledgers, Jobs
  <2>2. Open("primary") /\ admits => asset # "ready"
    BY DEF Open, admits, LifeInv, NothingDangles
  <2>3. ASSUME NEW j \in Jobs, TaskStep(j) \/ Die(j)
        PROVE  UNCHANGED <<asset, version>> \/ (asset # "ready" /\ asset # "tombstoned")
    <3>1. CASE Take(j) \/ Begin(j) \/ Work(j) \/ Die(j)
      BY <3>1 DEF Take, Begin, Work, Die, ledgers
    <3>2. CASE Settle(j) \/ Fail(j)
      BY <2>1, <2>2, <3>2 DEF admits
    <3>3. QED
      BY <2>3, <3>1, <3>2 DEF TaskStep
  <2>4. CASE TombstoneReads \/ Outbox
    BY <2>4 DEF TombstoneReads, Outbox, ledgers
  <2>5. CASE TombstoneCommits
    <3>1. asset # "tombstoned" /\ asset' = "tombstoned"
      BY <2>5 DEF TombstoneCommits, LifeInv, IntentsOK, Live
    <3>2. QED
      BY <3>1
  <2>6. QED
    BY <2>3, <2>4, <2>5 DEF Next
<1>2. QED
  BY <1>1, LifeInvariant, PTL DEF Spec, DeletionStands

\* A deletion of an object that was completed or given up is never taken up again, nor
\* rewritten by a claim that lost its lease (object-deletion-outbox-repository.ts:147-200).
THEOREM LifeFinalRowsStand == Spec => FinalRowsStand
<1>1. LifeInv /\ [Next]_vars =>
        [\A k \in Keys : OutboxFinal(outbox[k]) => outbox'[k] = outbox[k]]_outboxVars
  <2> SUFFICES ASSUME LifeInv, Next, NEW k \in Keys, OutboxFinal(outbox[k])
               PROVE  outbox'[k] = outbox[k]
    BY DEF vars, outboxVars
  <2>1. outbox \in [Keys -> Rows] /\ outbox[k].status \in {"completed", "failed"}
    BY DEF LifeInv, TypeOK, OutboxTypeOK, OutboxFinal
  <2>2. ASSUME NEW j \in Jobs, TaskStep(j) \/ Die(j) PROVE UNCHANGED outbox
    BY <2>2 DEF TaskStep, Take, Begin, Work, Settle, Fail, Die, outboxVars
  <2>3. CASE TombstoneReads
    BY <2>3 DEF TombstoneReads, outboxVars
  <2>4. CASE TombstoneCommits
    BY <2>1, <2>4 DEF TombstoneCommits, registered
  <2>5. ASSUME NEW d \in Deleters, Claim(d) \/ Delete(d) \/ Record(d) \/ Dies(d)
        PROVE  outbox'[k] = outbox[k]
    <3>1. CASE Claim(d)
      BY <2>1, <3>1 DEF Claim, claim, closesExhausted
    <3>2. CASE Delete(d) \/ Dies(d)
      BY <3>2 DEF Delete, Dies, dies
    <3>3. CASE Record(d)
      BY <2>1, <3>3 DEF Record, complete, fail, holds
    <3>4. QED
      BY <2>5, <3>1, <3>2, <3>3
  <2>6. QED
    BY <2>2, <2>3, <2>4, <2>5 DEF Next, Outbox, DeleterStep
<1>2. QED
  BY <1>1, LifeInvariant, PTL DEF Spec, FinalRowsStand
===============================================================================

---------------------------- MODULE SwarmRuntime ----------------------------
(***************************************************************************)
(* The swarm: core/runtime/orchestrator.py with its queue (queue.py), the  *)
(* swarm_tasks table with optimistic locking (persistence_db.py) and the   *)
(* recovery of tasks at boot (recovery_manager.py).                        *)
(*                                                                         *)
(* One SwarmTask object per task is shared by the queue, the consumer loop,*)
(* the workflows and the API calls of a process: its status, retry and     *)
(* metadata["_version"] are mem, retry and known. save_task() is three     *)
(* steps: it reads the version it expects; after its SELECT it compares,   *)
(* puts the next version into the object and flushes; then it commits. The *)
(* object is ahead of its row until then, and stays so when the commit     *)
(* fails or is cancelled. Which agent gets a task is not followed here,    *)
(* only that there may be none.                                            *)
(***************************************************************************)
EXTENDS Integers, Sequences, FiniteSets, Functions

CONSTANTS
    Tasks, NoTask,
    Priority,       \* Priority[t]: the value of the priority map
    Slots,          \* active_worker_tasks: max_concurrent of them
    MaxRetry,       \* SwarmTask.retry of a new task
    MaxEvents       \* bound: how often a task is cancelled, paused or resumed, the
                    \* process stops or crashes, or a transaction fails

ASSUME SwarmAssumption ==
    /\ NoTask \notin Tasks /\ IsFiniteSet(Tasks)
    /\ Priority \in [Tasks -> Nat]
    /\ MaxRetry \in Nat /\ MaxEvents \in Nat

VARIABLES
    mem, retry, known,  \* the SwarmTask objects of the process
    queue,              \* SwarmTaskQueue._queue, the first place of each task
    row, rowRetry, version,     \* swarm_tasks
    loopAt, loopTask, loopExp,  \* the consumer loop
    at, doing, exp,     \* the workflows: where, which task, version expected
    call, callExp,      \* spawn_task(), cancel_task() ... on a task
    put,                \* what each save has flushed and not committed
    torn,               \* history: tasks with a flushed save that was lost, or
                        \* committed over a newer version
    succeeded,          \* history: tasks executed with success
    recovered,          \* history: stale tasks put back by a recovery
    events              \* counter for the bound

object == <<mem, retry, known>>
table == <<row, rowRetry, version>>
loop == <<loopAt, loopTask, loopExp>>
workflows == <<at, doing, exp>>
api == <<call, callExp>>
saves == <<put, torn>>
ghosts == <<succeeded, recovered>>
vars == <<object, queue, table, loop, workflows, api, saves, ghosts, events>>
-----------------------------------------------------------------------------
Status == {"Pending", "Claimed", "Running", "Waiting", "Completed", "Failed", "Cancelled"}

\* The consumer loop: stopped; polling; saving the claim; saving that no agent
\* was found; ended by an exception.
LoopPoints == {"off", "poll", "claim", "unallocated", "dead"}

\* A workflow: free; created; saving Running; executing; saving its outcome;
\* saving Pending before it puts the task back in the queue.
WorkPoints == {"free", "new", "starting", "executing", "ending", "retrying"}

CallPoints == {"idle", "spawning", "saving"}

\* Who saves: the consumer loop, a workflow or a call.
LoopSave == <<"loop", NoTask>>
WorkSave(s) == <<"work", s>>
CallSave(t) == <<"call", t>>
Savers == {LoopSave} \cup {WorkSave(s) : s \in Slots} \cup {CallSave(t) : t \in Tasks}

\* The INSERT or UPDATE of a save: status and retry as they were selected and as
\* the object has them, and the version that is written.
Puts == [op : {"none", "insert", "update"}, task : Tasks \cup {NoTask},
         from : (Status \cup {"none"}) \X (0 .. MaxRetry),
         to : (Status \cup {"none"}) \X (0 .. MaxRetry), version : Nat]

NoPut == [op |-> "none", task |-> NoTask,
          from |-> <<"none", 0>>, to |-> <<"none", 0>>, version |-> 0]

TypeOK ==
    /\ mem \in [Tasks -> Status \cup {"none"}]
    /\ retry \in [Tasks -> 0 .. MaxRetry] /\ rowRetry \in [Tasks -> 0 .. MaxRetry]
    /\ row \in [Tasks -> Status \cup {"none"}]
    /\ known \in [Tasks -> Nat] /\ version \in [Tasks -> Nat]
    /\ queue \in Seq(Tasks)
    /\ loopAt \in LoopPoints /\ loopTask \in Tasks \cup {NoTask} /\ loopExp \in Nat
    /\ at \in [Slots -> WorkPoints] /\ doing \in [Slots -> Tasks \cup {NoTask}]
    /\ exp \in [Slots -> Nat]
    /\ call \in [Tasks -> CallPoints] /\ callExp \in [Tasks -> Nat]
    /\ put \in [Savers -> Puts] /\ torn \subseteq Tasks
    /\ succeeded \subseteq Tasks /\ recovered \subseteq Tasks
    /\ events \in 0 .. MaxEvents

Init ==
    /\ mem = [t \in Tasks |-> "none"] /\ retry = [t \in Tasks |-> MaxRetry]
    /\ known = [t \in Tasks |-> 1] /\ queue = <<>>
    /\ row = [t \in Tasks |-> "none"] /\ rowRetry = [t \in Tasks |-> MaxRetry]
    /\ version = [t \in Tasks |-> 0]
    /\ loopAt = "poll" /\ loopTask = NoTask /\ loopExp = 0
    /\ at = [s \in Slots |-> "free"] /\ doing = [s \in Slots |-> NoTask]
    /\ exp = [s \in Slots |-> 0]
    /\ call = [t \in Tasks |-> "idle"] /\ callExp = [t \in Tasks |-> 0]
    /\ put = [x \in Savers |-> NoPut] /\ torn = {}
    /\ succeeded = {} /\ recovered = {} /\ events = 0

Queued == {queue[i] : i \in DOMAIN queue}

\* queue' is q with the highest priority first; sort() is stable.
SortQueue(q) ==
    \E p \in Bijection(DOMAIN q, DOMAIN q) :
        /\ \A i, j \in DOMAIN q : i < j =>
               \/ Priority[q[p[i]]] > Priority[q[p[j]]]
               \/ Priority[q[p[i]]] = Priority[q[p[j]]] /\ p[i] < p[j]
        /\ queue' = [i \in DOMAIN q |-> q[p[i]]]

\* enqueue(): append and sort. An object that is in the list already keeps its
\* first place.
Enqueue(t) ==
    /\ mem' = [mem EXCEPT ![t] = "Pending"]
    /\ IF t \in Queued THEN UNCHANGED queue ELSE SortQueue(Append(queue, t))

\* The row does not exist or has the version that is expected.
Accepts(t, e) == row[t] = "none" \/ version[t] = e

\* The values a save of t would write now.
NewPut(t) ==
    [op |-> IF row[t] = "none" THEN "insert" ELSE "update", task |-> t,
     from |-> <<row[t], rowRetry[t]>>, to |-> <<mem[t], retry[t]>>, version |-> version[t] + 1]

\* Save x may flush: it has selected, or its INSERT met the row of another save.
Selected(x, t) == put[x].op = "none" \/ (put[x].op = "insert" /\ row[t] # "none")

\* Mutant: the object does not learn the new version.
FlushForgetsVersion(x, t, e) ==
    /\ Selected(x, t) /\ Accepts(t, e)
    /\ put' = [put EXCEPT ![x] = NewPut(t)]
    /\ UNCHANGED <<known, table, torn, events>>

\* _save_task_internal() after its SELECT, when the version is the expected e:
\* the object gets the next one before anything is committed.
Flush(x, t, e) ==
    /\ Selected(x, t) /\ Accepts(t, e)
    /\ put' = [put EXCEPT ![x] = NewPut(t)]
    /\ known' = [known EXCEPT ![t] = IF row[t] = "none" THEN @ ELSE version[t] + 1]
    /\ UNCHANGED <<table, torn, events>>

\* An UPDATE leaves a column alone that had the value already.
Changed(i, u, now) == IF u.from[i] = u.to[i] THEN now ELSE u.to[i]

\* The transaction of save x is committed. The WHERE of the UPDATE has no
\* version in it, so it may go back.
Commit(x) ==
    LET u == put[x]
    IN /\ u.op = "update" \/ (u.op = "insert" /\ row[u.task] = "none")
       /\ row' = [row EXCEPT ![u.task] = Changed(1, u, @)]
       /\ rowRetry' = [rowRetry EXCEPT ![u.task] = Changed(2, u, @)]
       /\ version' = [version EXCEPT ![u.task] = u.version]
       /\ torn' = IF u.version < version[u.task] THEN torn \cup {u.task} ELSE torn
       /\ put' = [put EXCEPT ![x] = NoPut]
       /\ UNCHANGED <<known, events>>

\* The saves in D come to nothing: what they have flushed is rolled back, the
\* object keeps the version.
Drop(D) ==
    /\ put' = [x \in Savers |-> IF x \in D THEN NoPut ELSE put[x]]
    /\ torn' = torn \cup {put[x].task : x \in {y \in D : put[y].op = "update"}}

\* save_task() raises: AGENT_005, when another save was faster, or an error of
\* the database in the SELECT or the commit.
Raise(x, t, e) ==
    /\ \/ put[x].op # "update" /\ ~Accepts(t, e) /\ UNCHANGED events
       \/ events < MaxEvents /\ events' = events + 1
    /\ Drop({x})
    /\ UNCHANGED <<known, table>>
-----------------------------------------------------------------------------
(* The API calls.                                                          *)

\* spawn_task() up to its save_task(): the lock is free, since task ids are
\* fresh, and an agent is found or spawned.
SpawnTask(t) ==
    /\ mem[t] = "none" /\ row[t] = "none" /\ call[t] = "idle"
    /\ Enqueue(t)
    /\ call' = [call EXCEPT ![t] = "spawning"]
    /\ callExp' = [callExp EXCEPT ![t] = known[t]]
    /\ UNCHANGED <<retry, known, table, loop, workflows, saves, ghosts, events>>

\* cancel_task(), pause_task() and resume_task() up to save_task(): a task the
\* queue knows, in any state.
SetStatus(t, s) ==
    /\ mem[t] # "none" /\ call[t] = "idle" /\ events < MaxEvents
    /\ mem' = [mem EXCEPT ![t] = s]
    /\ call' = [call EXCEPT ![t] = "saving"]
    /\ callExp' = [callExp EXCEPT ![t] = known[t]]
    /\ events' = events + 1
    /\ UNCHANGED <<retry, known, queue, table, loop, workflows, saves, ghosts>>

CancelTask(t) == SetStatus(t, "Cancelled")
PauseTask(t) == SetStatus(t, "Waiting")
ResumeTask(t) == SetStatus(t, "Running")

CallFlushes(t) ==
    /\ call[t] # "idle"
    /\ Flush(CallSave(t), t, callExp[t])
    /\ UNCHANGED <<mem, retry, queue, loop, workflows, api, ghosts>>

\* The call has saved the task and returns, or it raises.
CallReturns(t) ==
    /\ call[t] # "idle"
    /\ Commit(CallSave(t)) \/ Raise(CallSave(t), t, callExp[t])
    /\ call' = [call EXCEPT ![t] = "idle"]
    /\ callExp' = [callExp EXCEPT ![t] = 0]
    /\ UNCHANGED <<mem, retry, queue, loop, workflows, ghosts>>

CallSaves(t) == CallFlushes(t) \/ CallReturns(t)
-----------------------------------------------------------------------------
(* _process_queue_loop().                                                  *)

Free == {s \in Slots : at[s] = "free"}

Pending == {i \in DOMAIN queue : mem[queue[i]] = "Pending"}

\* The loop is at point p with task t.
LoopAt(p, t) ==
    /\ loopAt' = p /\ loopTask' = t
    /\ loopExp' = IF t = NoTask THEN 0 ELSE known[t]

\* Mutant: only the head of the list is looked at.
DequeueHead ==
    /\ loopAt = "poll" /\ Free # {} /\ 1 \in Pending
    /\ mem' = [mem EXCEPT ![queue[1]] = "Claimed"]
    /\ LoopAt("claim", queue[1])
    /\ UNCHANGED <<retry, known, queue, table, workflows, api, saves, ghosts, events>>

\* The first pending task is dequeued and claimed in memory.
Dequeue ==
    /\ loopAt = "poll" /\ Free # {}
    /\ \E i \in Pending :
        /\ \A j \in Pending : i <= j
        /\ mem' = [mem EXCEPT ![queue[i]] = "Claimed"]
        /\ LoopAt("claim", queue[i])
    /\ UNCHANGED <<retry, known, queue, table, workflows, api, saves, ghosts, events>>

LoopFlushes ==
    /\ loopAt \in {"claim", "unallocated"}
    /\ Flush(LoopSave, loopTask, loopExp)
    /\ UNCHANGED <<mem, retry, queue, loop, workflows, api, ghosts>>

\* The claim raises: another writer was faster, or the database failed.
ClaimRefused ==
    /\ loopAt = "claim" /\ Raise(LoopSave, loopTask, loopExp)
    /\ LoopAt("poll", NoTask)
    /\ UNCHANGED <<mem, retry, queue, workflows, api, ghosts>>

\* The claim is saved, an agent is found or spawned, the workflow is created.
ClaimSaved ==
    /\ loopAt = "claim" /\ Commit(LoopSave)
    /\ LET s == CHOOSE s \in Free : TRUE
       IN /\ at' = [at EXCEPT ![s] = "new"]
          /\ doing' = [doing EXCEPT ![s] = loopTask]
    /\ LoopAt("poll", NoTask)
    /\ UNCHANGED <<mem, retry, queue, exp, api, ghosts>>

\* The claim is saved and no agent can be spawned.
NoAgent ==
    /\ loopAt = "claim" /\ Commit(LoopSave)
    /\ mem' = [mem EXCEPT ![loopTask] = "Failed"]
    /\ LoopAt("unallocated", loopTask)
    /\ UNCHANGED <<retry, queue, workflows, api, ghosts>>

\* The failure is saved; an exception ends the loop, and start_worker_loop()
\* does not start another one.
FailureSaved ==
    /\ loopAt = "unallocated"
    /\ \/ Commit(LoopSave) /\ LoopAt("poll", NoTask)
       \/ Raise(LoopSave, loopTask, loopExp) /\ LoopAt("dead", NoTask)
    /\ UNCHANGED <<mem, retry, queue, workflows, api, ghosts>>

LoopStep ==
    \/ Dequeue \/ LoopFlushes
    \/ ClaimRefused \/ ClaimSaved \/ NoAgent \/ FailureSaved
-----------------------------------------------------------------------------
(* _execute_swarm_task_workflow().                                         *)

\* The object gets status st and workflow s is about to save it.
SetAndSave(s, st, p) ==
    /\ mem' = [mem EXCEPT ![doing[s]] = st]
    /\ at' = [at EXCEPT ![s] = p]
    /\ exp' = [exp EXCEPT ![s] = known[doing[s]]]
    /\ UNCHANGED doing

Ends(s) ==
    /\ at' = [at EXCEPT ![s] = "free"]
    /\ doing' = [doing EXCEPT ![s] = NoTask]
    /\ exp' = [exp EXCEPT ![s] = 0]

Begin(s) ==
    /\ at[s] = "new"
    /\ SetAndSave(s, "Running", "starting")
    /\ UNCHANGED <<retry, known, queue, table, loop, api, saves, ghosts, events>>

WorkFlushes(s) ==
    /\ at[s] \in {"starting", "ending", "retrying"}
    /\ Flush(WorkSave(s), doing[s], exp[s])
    /\ UNCHANGED <<mem, retry, queue, loop, workflows, api, ghosts>>

WorkRaises(s) == Raise(WorkSave(s), doing[s], exp[s])

\* Running is saved; an exception ends the workflow.
RunningSaved(s) ==
    /\ at[s] = "starting"
    /\ \/ /\ Commit(WorkSave(s))
          /\ at' = [at EXCEPT ![s] = "executing"]
          /\ UNCHANGED <<doing, exp>>
       \/ WorkRaises(s) /\ Ends(s)
    /\ UNCHANGED <<mem, retry, queue, loop, api, ghosts>>

Succeed(s) ==
    /\ at[s] = "executing"
    /\ SetAndSave(s, "Completed", "ending")
    /\ succeeded' = succeeded \cup {doing[s]}
    /\ UNCHANGED <<retry, known, queue, table, loop, api, saves, recovered, events>>

\* The execution fails and the task has retries left.
Retry(s) ==
    /\ at[s] = "executing" /\ retry[doing[s]] > 0
    /\ retry' = [retry EXCEPT ![doing[s]] = @ - 1]
    /\ SetAndSave(s, "Pending", "retrying")
    /\ UNCHANGED <<known, queue, table, loop, api, saves, ghosts, events>>

GiveUp(s) ==
    /\ at[s] = "executing" /\ retry[doing[s]] = 0
    /\ SetAndSave(s, "Failed", "ending")
    /\ UNCHANGED <<retry, known, queue, table, loop, api, saves, ghosts, events>>

\* The outcome is saved, or the workflow ends with the exception.
OutcomeSaved(s) ==
    /\ at[s] = "ending"
    /\ Commit(WorkSave(s)) \/ WorkRaises(s)
    /\ Ends(s)
    /\ UNCHANGED <<mem, retry, queue, loop, api, ghosts>>

\* Pending is saved and the task is put in the queue again.
RetrySaved(s) ==
    /\ at[s] = "retrying"
    /\ \/ Commit(WorkSave(s)) /\ Enqueue(doing[s])
       \/ WorkRaises(s) /\ UNCHANGED <<mem, queue>>
    /\ Ends(s)
    /\ UNCHANGED <<retry, loop, api, ghosts>>

WorkStep(s) ==
    \/ Begin(s) \/ WorkFlushes(s) \/ RunningSaved(s)
    \/ Succeed(s) \/ Retry(s) \/ GiveUp(s)
    \/ OutcomeSaved(s) \/ RetrySaved(s)
-----------------------------------------------------------------------------
(* Stopping, crashing and recovery.                                        *)

NoWorkflows ==
    /\ at' = [s \in Slots |-> "free"] /\ doing' = [s \in Slots |-> NoTask]
    /\ exp' = [s \in Slots |-> 0]

\* stop_worker_loop(): the loop and the workflows are cancelled where they are.
StopWorkerLoop ==
    /\ loopAt # "off" /\ events < MaxEvents
    /\ LoopAt("off", NoTask) /\ NoWorkflows
    /\ Drop({LoopSave} \cup {WorkSave(s) : s \in Slots})
    /\ UNCHANGED <<known, table>>
    /\ events' = events + 1
    /\ UNCHANGED <<mem, retry, queue, api, ghosts>>

StartWorkerLoop ==
    /\ loopAt = "off"
    /\ LoopAt("poll", NoTask)
    /\ UNCHANGED <<object, queue, table, workflows, api, saves, ghosts, events>>

\* Rows a recovery looks at, and those of them it puts back in the queue when
\* the ones in stale have not been updated for recovery_timeout.
Unfinished == {t \in Tasks : row[t] \in {"Running", "Claimed", "Pending"}}
Interrupted == {t \in Tasks : row[t] \in {"Running", "Claimed"}}
PutBack(stale) == {t \in Unfinished : row[t] = "Pending" \/ (t \in stale /\ rowRetry[t] > 0)}

\* recover_all(), one transaction. Objects are built from the rows; they take
\* the version the row has before the recovery itself changes it.
Recover(stale) ==
    /\ mem' = [t \in Tasks |-> IF t \in PutBack(stale) THEN "Pending" ELSE "none"]
    /\ known' = [t \in Tasks |-> IF t \in PutBack(stale) THEN version[t] ELSE 1]
    /\ \E q \in Bijection(1 .. Cardinality(PutBack(stale)), PutBack(stale)) : SortQueue(q)
    /\ row' = [t \in Tasks |-> IF t \notin stale THEN row[t]
                               ELSE IF rowRetry[t] > 0 THEN "Pending" ELSE "Failed"]
    /\ rowRetry' = [t \in Tasks |-> IF t \in stale /\ rowRetry[t] > 0
                                    THEN rowRetry[t] - 1 ELSE rowRetry[t]]
    /\ retry' = [t \in Tasks |-> IF t \in PutBack(stale) THEN rowRetry'[t] ELSE MaxRetry]
    /\ version' = [t \in Tasks |-> IF t \in stale THEN version[t] + 1 ELSE version[t]]
    /\ recovered' = stale \cap PutBack(stale)

\* The process dies and boots again.
CrashAndBoot ==
    /\ events < MaxEvents
    /\ \E stale \in SUBSET Interrupted : Recover(stale)
    /\ LoopAt("poll", NoTask) /\ NoWorkflows
    /\ call' = [t \in Tasks |-> "idle"] /\ callExp' = [t \in Tasks |-> 0]
    /\ put' = [x \in Savers |-> NoPut] /\ torn' = {}
    /\ events' = events + 1
    /\ UNCHANGED succeeded

Next ==
    \/ \E t \in Tasks :
         \/ SpawnTask(t) \/ CancelTask(t) \/ PauseTask(t) \/ ResumeTask(t)
         \/ CallSaves(t)
    \/ LoopStep
    \/ \E s \in Slots : WorkStep(s)
    \/ StopWorkerLoop \/ StartWorkerLoop \/ CrashAndBoot

Spec == Init /\ [][Next]_vars

\* The event loop resumes the consumer loop, the workflows and the calls.
SwarmFairness ==
    /\ WF_vars(LoopStep) /\ WF_vars(StartWorkerLoop)
    /\ \A s \in Slots : WF_vars(WorkStep(s))
    /\ \A t \in Tasks : WF_vars(CallSaves(t))

FairSpec == Spec /\ SwarmFairness
-----------------------------------------------------------------------------
(* Properties.                                                             *)

\* A row says Completed only if an execution of the task succeeded, whatever
\* calls, retries and restarts came in between.
CompletedWasExecuted == \A t \in Tasks : row[t] = "Completed" => t \in succeeded

\* The version an object expects is the one of its row, or of an UPDATE of it
\* that is under way: saves of one process, however they overlap, do not refuse
\* each other for good. The exceptions are a stale task that was recovered and a
\* task with a save that was lost after its flush, or overtaken by two others.
MemoryIsCurrent ==
    \A t \in Tasks : mem[t] # "none" /\ row[t] # "none" =>
        \/ known[t] = version[t]
        \/ \E x \in Savers :
              put[x].op = "update" /\ put[x].task = t /\ put[x].version = known[t]
        \/ t \in recovered \cup torn

\* A task that is Pending in memory is in the queue, so that it is dequeued.
PendingIsQueued == \A t \in Tasks : mem[t] = "Pending" => t \in Queued

Executing(t) == {s \in Slots : doing[s] = t}

\* The claim: until a task is retried, at most one workflow executes it. (A
\* retried task may be dequeued between the two steps that make it Pending.)
ClaimedOnce ==
    \A t \in Tasks : retry[t] = MaxRetry => Cardinality(Executing(t)) <= 1

\* Rows, objects, queue and workflows agree, whatever saves are refused and
\* wherever the process is stopped.
SwarmConsistent ==
    TypeOK /\ CompletedWasExecuted /\ MemoryIsCurrent /\ PendingIsQueued /\ ClaimedOnce

\* While the consumer loop lives, a pending task does not stay pending.
PendingIsTaken ==
    \A t \in Tasks : mem[t] = "Pending" ~> (mem[t] # "Pending" \/ loopAt = "dead")

\* What recovery_manager.py says it does, "restores pending items to queues":
\* a stale task it put back is executed. It is not: the version it gives the
\* object is refused by the row when the task is claimed.
RecoveredIsExecuted ==
    \A t \in Tasks : t \in recovered ~> (t \notin recovered \/ Executing(t) # {})
=============================================================================

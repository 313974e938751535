-------------------------- MODULE MissionScheduler --------------------------
(***************************************************************************)
(* GoalScheduler and BackgroundGoalRunner of                               *)
(* core/mission/mission_scheduler.py: missions are queued by priority, and *)
(* each runner takes the head of the queue and executes its tasks one by   *)
(* one, while callers cancel, pause and resume missions.                   *)
(*                                                                         *)
(* asyncio: a coroutine only gives way where an await really suspends. The *)
(* critical sections under _lock hold no such await, so a runner gives way *)
(* while an event is published, while the executor runs a task, and during *)
(* the back-off before a task is retried. Everything between two of these  *)
(* points is one action.                                                   *)
(*                                                                         *)
(* resolve() is represented by the wave it gives to each task; what it     *)
(* computes is the subject of DependencyResolver.                          *)
(***************************************************************************)
EXTENDS Integers, Sequences, FiniteSets, Functions

CONSTANTS
    Missions,
    NoMission,      \* a runner's mission while it has none
    Tasks,          \* the tasks of all missions
    NoTask,
    TasksOf,        \* TasksOf[m]: Mission.tasks
    Wave,           \* Wave[t]: the wave of t, or 0 if t is on or behind a cycle
    Priority,       \* Priority[m]: Mission.priority
    HasDeadline,    \* the missions with a due_at
    Ceiling,        \* total_budget * overage_grace, the same for all missions
    Costs,          \* what one execution of a task may cost
    MaxTaskRetries, \* MissionTask.max_retries
    MaxRetries,     \* Mission.max_retries
    MaxConcurrent,  \* max_concurrent_missions
    Runners,        \* BackgroundGoalRunners, each a loop around run_next()
    MaxPauses,      \* bound: how often missions are paused in all
    MaxStops        \* bound: how often runners are stopped in all

ASSUME SchedulerAssumption ==
    /\ NoMission \notin Missions /\ NoTask \notin Tasks
    /\ TasksOf \in [Missions -> SUBSET Tasks]
    /\ \A m, n \in Missions : m # n => TasksOf[m] \cap TasksOf[n] = {}
    /\ Wave \in [Tasks -> Nat]
    /\ Priority \in [Missions -> 1..10]
    /\ HasDeadline \subseteq Missions
    /\ Ceiling \in Nat /\ Costs \subseteq Nat
    /\ MaxTaskRetries \in Nat /\ MaxRetries \in Nat
    /\ MaxConcurrent \in Nat \ {0}
    /\ MaxPauses \in Nat /\ MaxStops \in Nat

VARIABLES
    status,         \* Mission.status; PENDING: not submitted yet
    taskStatus,     \* MissionTask.status
    retries,        \* MissionTask.retries
    retryCount,     \* Mission.retry_count
    used,           \* Mission.used_budget
    queue,          \* MissionQueue._items, as mission ids
    running,        \* GoalScheduler._running
    urgency,        \* how close a mission's deadline is
    at,             \* where each runner is suspended
    doing,          \* the mission it is executing
    current,        \* the task it is executing
    left,           \* the tasks it has not executed yet, current included
    alive,          \* the runners whose loop is running
    pauses,         \* pauses so far
    stops,          \* stops so far
    orphans         \* history: the missions whose runner was stopped, and where

runVars == <<at, doing, current, left>>
taskVars == <<taskStatus, retries>>
budgetVars == <<retryCount, used>>
worldVars == <<urgency, alive, pauses, stops, orphans>>

vars == <<status, taskVars, budgetVars, queue, running, runVars, worldVars>>

-----------------------------------------------------------------------------
MissionStatus == {"PENDING", "QUEUED", "RUNNING", "PAUSED", "COMPLETED",
                  "FAILED", "CANCELLED", "RECOVERING"}

\* Where a runner is suspended: in the loop's sleep, publishing
\* mission.started, in the executor, in the back-off, publishing how the
\* execution ended.
Points == {"idle", "started", "task", "backoff", "ended"}

\* A deadline is far off, within the hour, or past.
Urgencies == {"far", "near", "overdue"}

TypeOK ==
    /\ status \in [Missions -> MissionStatus]
    /\ taskStatus \in [Tasks -> MissionStatus]
    /\ retries \in [Tasks -> 0..MaxTaskRetries]
    /\ retryCount \in [Missions -> 0..MaxRetries]
    /\ used \in [Missions -> Nat]
    /\ queue \in Seq(Missions)
    /\ running \subseteq Missions
    /\ urgency \in [Missions -> Urgencies]
    /\ at \in [Runners -> Points]
    /\ doing \in [Runners -> Missions \cup {NoMission}]
    /\ current \in [Runners -> Tasks \cup {NoTask}]
    /\ left \in [Runners -> SUBSET Tasks]
    /\ alive \subseteq Runners
    /\ pauses \in 0..MaxPauses
    /\ stops \in 0..MaxStops
    /\ orphans \subseteq Missions \X Points

Init ==
    /\ status = [m \in Missions |-> "PENDING"]
    /\ taskStatus = [t \in Tasks |-> "PENDING"]
    /\ retries = [t \in Tasks |-> 0]
    /\ retryCount = [m \in Missions |-> 0]
    /\ used = [m \in Missions |-> 0]
    /\ queue = <<>>
    /\ running = {}
    /\ urgency = [m \in Missions |-> "far"]
    /\ at = [r \in Runners |-> "idle"]
    /\ doing = [r \in Runners |-> NoMission]
    /\ current = [r \in Runners |-> NoTask]
    /\ left = [r \in Runners |-> {}]
    /\ alive = Runners
    /\ pauses = 0
    /\ stops = 0
    /\ orphans = {}

-----------------------------------------------------------------------------
(* The queue.                                                              *)

\* MissionQueueItem.effective_priority(): the urgency bonus is at most 5.
EffectivePriority(m) ==
    CASE urgency[m] = "far" -> Priority[m]
      [] urgency[m] = "near" -> Priority[m] + 5
      [] urgency[m] = "overdue" -> 9999

\* Item i of q stays or gets before item j: sorted() is stable.
Before(q, i, j) ==
    \/ EffectivePriority(q[i]) > EffectivePriority(q[j])
    \/ EffectivePriority(q[i]) = EffectivePriority(q[j]) /\ i < j

\* sort_queue(): queue' is q, reordered.
SortQueue(q) ==
    \E p \in Bijection(DOMAIN q, DOMAIN q) :
        /\ \A i, j \in DOMAIN q : i < j => Before(q, p[i], p[j])
        /\ queue' = [i \in DOMAIN q |-> q[p[i]]]

\* enqueue(): append, then sort the whole queue by the priorities of now.
Enqueue(m) == SortQueue(Append(queue, m))

\* remove(): the items of other missions stay, in their order.
Remove(m) ==
    LET kept == {i \in DOMAIN queue : queue[i] # m} IN
    \E n \in 0..Len(queue) : \E f \in Surjection(1..n, kept) :
        /\ \A i, j \in 1..n : i < j => f[i] < f[j]
        /\ queue' = [i \in 1..n |-> queue[f[i]]]

-----------------------------------------------------------------------------
(* Callers.                                                                *)

\* schedule_mission() of a new mission.
Schedule(m) ==
    /\ status[m] = "PENDING"
    /\ status' = [status EXCEPT ![m] = "QUEUED"]
    /\ Enqueue(m)
    /\ UNCHANGED <<taskVars, budgetVars, running, runVars, worldVars>>

\* cancel_mission(): the queue is cleared of m before the status is looked at.
Cancel(m) ==
    /\ status[m] # "PENDING"
    /\ Remove(m)
    /\ IF status[m] \in {"COMPLETED", "FAILED", "CANCELLED"}
         THEN UNCHANGED <<status, running>>
         ELSE /\ status' = [status EXCEPT ![m] = "CANCELLED"]
              /\ running' = running \ {m}
    /\ UNCHANGED <<taskVars, budgetVars, runVars, worldVars>>

\* pause_mission()
Pause(m) ==
    /\ status[m] = "RUNNING"
    /\ pauses < MaxPauses
    /\ pauses' = pauses + 1
    /\ status' = [status EXCEPT ![m] = "PAUSED"]
    /\ UNCHANGED <<taskVars, budgetVars, queue, running, runVars, urgency, alive, stops, orphans>>

\* resume_mission(): the mission is queued again, even while a runner still
\* executes the task it was in when the mission was paused.
Resume(m) ==
    /\ status[m] = "PAUSED"
    /\ status' = [status EXCEPT ![m] = "QUEUED"]
    /\ Enqueue(m)
    /\ UNCHANGED <<taskVars, budgetVars, running, runVars, worldVars>>

\* A deadline gets closer.
Approach(m) ==
    /\ m \in HasDeadline /\ urgency[m] # "overdue"
    /\ urgency' = [urgency EXCEPT ![m] = IF @ = "far" THEN "near" ELSE "overdue"]
    /\ UNCHANGED <<status, taskVars, budgetVars, queue, running, runVars, alive, pauses, stops, orphans>>

-----------------------------------------------------------------------------
(* A runner.                                                               *)

\* The end of an execution: the runner goes back to its loop.
Leave(r) ==
    /\ at' = [at EXCEPT ![r] = "idle"]
    /\ doing' = [doing EXCEPT ![r] = NoMission]
    /\ current' = [current EXCEPT ![r] = NoTask]
    /\ left' = [left EXCEPT ![r] = {}]

\* The execution is over but for the event that says so.
PublishEnd(r) ==
    /\ at' = [at EXCEPT ![r] = "ended"]
    /\ current' = [current EXCEPT ![r] = NoTask]
    /\ left' = [left EXCEPT ![r] = {}]
    /\ UNCHANGED doing

\* Mutant: the budget is never exhausted.
NeverExhausted(amount) == FALSE

\* ExecutionBudgetManager.is_exhausted(), on the budget as consume() leaves it.
IsExhausted(amount) == amount > Ceiling

\* What run_next() does with the item it dequeues. A mission that was cancelled
\* is dropped; one that completed or failed since is run again.
TakeUp(r, m) ==
    IF status[m] = "CANCELLED"
      THEN UNCHANGED <<status, running, runVars>>
      ELSE /\ status' = [status EXCEPT ![m] = "RUNNING"]
           /\ running' = running \cup {m}
           /\ at' = [at EXCEPT ![r] = "started"]
           /\ doing' = [doing EXCEPT ![r] = m]
           /\ UNCHANGED <<current, left>>

\* Mutant: the limit is not checked.
StartWithoutCap(r) ==
    /\ r \in alive /\ at[r] = "idle"
    /\ queue # <<>>
    /\ queue' = Tail(queue)
    /\ TakeUp(r, Head(queue))
    /\ UNCHANGED <<taskVars, budgetVars, worldVars>>

\* run_next() up to the publication of mission.started.
RunNext(r) ==
    /\ r \in alive /\ at[r] = "idle"
    /\ Cardinality(running) < MaxConcurrent
    /\ queue # <<>>
    /\ queue' = Tail(queue)
    /\ TakeUp(r, Head(queue))
    /\ UNCHANGED <<taskVars, budgetVars, worldVars>>

\* The tasks of rest that come next in the order of the waves.
NextTasks(rest) == {t \in rest : \A u \in rest : Wave[t] <= Wave[u]}

\* The head of the loop over tasks: ts is every task's status by now, used'
\* the budgets by now, rest the tasks of m that are left.
NextTask(r, m, rest, ts) ==
    \/ /\ rest = {}
       /\ status' = [status EXCEPT ![m] = "COMPLETED"]
       /\ taskStatus' = ts
       /\ PublishEnd(r)
       /\ UNCHANGED running
    \/ /\ rest # {} /\ status[m] \in {"CANCELLED", "PAUSED"}
       /\ taskStatus' = ts
       /\ running' = running \ {m}
       /\ Leave(r)
       /\ UNCHANGED status
    \/ /\ rest # {} /\ status[m] \notin {"CANCELLED", "PAUSED"}
       /\ IsExhausted(used'[m])
       /\ status' = [status EXCEPT ![m] = "FAILED"]
       /\ taskStatus' = ts
       /\ PublishEnd(r)
       /\ UNCHANGED running
    \/ /\ rest # {} /\ status[m] \notin {"CANCELLED", "PAUSED"}
       /\ ~IsExhausted(used'[m])
       /\ \E t \in NextTasks(rest) :
            /\ taskStatus' = [ts EXCEPT ![t] = "RUNNING"]
            /\ current' = [current EXCEPT ![r] = t]
       /\ at' = [at EXCEPT ![r] = "task"]
       /\ left' = [left EXCEPT ![r] = rest]
       /\ UNCHANGED <<status, running, doing>>

\* resolve(): a cycle raises ValueError, which fails the mission whatever
\* became of it; otherwise the first task starts.
Begin(r) ==
    /\ at[r] = "started"
    /\ UNCHANGED <<retries, budgetVars, queue, worldVars>>
    /\ LET m == doing[r] IN
         IF \E t \in TasksOf[m] : Wave[t] = 0
           THEN /\ status' = [status EXCEPT ![m] = "FAILED"]
                /\ PublishEnd(r)
                /\ UNCHANGED <<taskStatus, running>>
           ELSE NextTask(r, m, TasksOf[m], taskStatus)

\* The executor returns: the cost is consumed and the loop goes on.
TaskSucceeds(r, cost) ==
    /\ at[r] = "task"
    /\ used' = [used EXCEPT ![doing[r]] = @ + cost]
    /\ NextTask(r, doing[r], left[r] \ {current[r]},
                [taskStatus EXCEPT ![current[r]] = "COMPLETED"])
    /\ UNCHANGED <<retries, retryCount, queue, worldVars>>

\* The executor raises and the task has retries left: back off.
TaskBacksOff(r) ==
    /\ at[r] = "task"
    /\ retries[current[r]] < MaxTaskRetries
    /\ retries' = [retries EXCEPT ![current[r]] = @ + 1]
    /\ taskStatus' = [taskStatus EXCEPT ![current[r]] = "PENDING"]
    /\ at' = [at EXCEPT ![r] = "backoff"]
    /\ UNCHANGED <<status, budgetVars, queue, running, doing, current, left, worldVars>>

\* Back in _execute_task(): neither the status nor the budget is looked at.
TaskRetries(r) ==
    /\ at[r] = "backoff"
    /\ taskStatus' = [taskStatus EXCEPT ![current[r]] = "RUNNING"]
    /\ at' = [at EXCEPT ![r] = "task"]
    /\ UNCHANGED <<status, retries, budgetVars, queue, running, doing, current, left, worldVars>>

\* MissionRecovery.should_retry_mission()
ShouldRetryMission(m) == status[m] = "FAILED" /\ retryCount[m] < MaxRetries

\* Mutant: the failure is published but the status is not set.
FailureNotRecorded(r) ==
    /\ at[r] = "task"
    /\ retries[current[r]] = MaxTaskRetries
    /\ PublishEnd(r)
    /\ taskStatus' = [taskStatus EXCEPT ![current[r]] = "FAILED"]
    /\ UNCHANGED <<status, retries, budgetVars, queue, running, worldVars>>

\* Mutant: the result of the mission's last task is not looked at.
LastFailureIgnored(r) ==
    /\ at[r] = "task"
    /\ retries[current[r]] = MaxTaskRetries
    /\ PublishEnd(r)
    /\ taskStatus' = [taskStatus EXCEPT ![current[r]] = "FAILED"]
    /\ status' = [status EXCEPT ![doing[r]] = IF left[r] = {current[r]} THEN "COMPLETED" ELSE "FAILED"]
    /\ UNCHANGED <<retries, budgetVars, queue, running, worldVars>>

\* The executor raises and the task is out of retries.
TaskFails(r) ==
    /\ at[r] = "task"
    /\ retries[current[r]] = MaxTaskRetries
    /\ PublishEnd(r)
    /\ LET m == doing[r]
           ts == [taskStatus EXCEPT ![current[r]] = "FAILED"]
       IN \/ /\ ~ShouldRetryMission(m)
             /\ status' = [status EXCEPT ![m] = "FAILED"]
             /\ taskStatus' = ts
             /\ UNCHANGED <<retryCount, queue>>
          \/ /\ ShouldRetryMission(m)
             /\ retryCount' = [retryCount EXCEPT ![m] = @ + 1]
             /\ status' = [status EXCEPT ![m] = "RECOVERING"]
             /\ taskStatus' = [t \in Tasks |-> IF t \in TasksOf[m] /\ ts[t] = "FAILED"
                                                 THEN "PENDING" ELSE ts[t]]
             /\ Enqueue(m)
    /\ UNCHANGED <<retries, used, running, worldVars>>

\* The event is out: the finally clause.
End(r) ==
    /\ at[r] = "ended"
    /\ running' = running \ {doing[r]}
    /\ Leave(r)
    /\ UNCHANGED <<status, taskVars, budgetVars, queue, worldVars>>

\* BackgroundGoalRunner.stop(): the loop is cancelled where it is suspended.
\* CancelledError passes the except clauses; the finally clause runs, unless the
\* runner was still publishing mission.started, which is before the try: then
\* nothing takes the mission out of _running.
Stop(r) ==
    /\ r \in alive
    /\ stops < MaxStops
    /\ stops' = stops + 1
    /\ alive' = alive \ {r}
    /\ orphans' = orphans \cup ({<<doing[r], at[r]>>} \cap (Missions \X Points))
    /\ running' = IF at[r] = "started" THEN running ELSE running \ {doing[r]}
    /\ Leave(r)
    /\ UNCHANGED <<status, taskVars, budgetVars, queue, urgency, pauses>>

\* BackgroundGoalRunner.start()
Start(r) ==
    /\ r \notin alive
    /\ alive' = alive \cup {r}
    /\ UNCHANGED <<status, taskVars, budgetVars, queue, running, runVars, urgency, pauses, stops, orphans>>

RunnerStep(r) ==
    \/ RunNext(r) \/ Begin(r) \/ TaskBacksOff(r) \/ TaskRetries(r) \/ TaskFails(r) \/ End(r)
    \/ \E cost \in Costs : TaskSucceeds(r, cost)

Next ==
    \/ \E m \in Missions : Schedule(m) \/ Cancel(m) \/ Pause(m) \/ Resume(m) \/ Approach(m)
    \/ \E r \in Runners : RunnerStep(r) \/ Stop(r) \/ Start(r)

Spec == Init /\ [][Next]_vars

\* The event loop runs every task that can run, and executors return.
FairSpec == Spec /\ \A r \in Runners : WF_vars(RunnerStep(r))

-----------------------------------------------------------------------------
(* Properties.                                                             *)

Executing(r) == at[r] \in {"task", "backoff"}

\* A mission that is QUEUED has its item in the queue, through pauses,
\* resumptions, cancellations and reorderings: otherwise nobody would ever run
\* it (schedule_mission(), resume_mission(), run_next()).
QueuedIsInQueue ==
    \A m \in Missions : status[m] = "QUEUED" => \E i \in DOMAIN queue : queue[i] = m

\* The limit of run_next() is never exceeded by _running: the check and the
\* insertion are separated by awaits that do not suspend.
RunningWithinLimit == Cardinality(running) <= MaxConcurrent

\* The missions whose runner was stopped while it published mission.started: a
\* place under the limit may be lost to each.
Leaked == {m \in Missions : <<m, "started">> \in orphans}

\* A mission's entry in _running goes with its last execution, on every path
\* out of _execute_mission() but one: a stop while mission.started is published.
RunningIsExecuted == running \subseteq {doing[r] : r \in Runners} \cup Leaked

\* No mission is lost from the queue, a place under the limit is only lost to a
\* stop before the try, and max_concurrent is never exceeded.
PlacesKept == QueuedIsInQueue /\ RunningIsExecuted /\ RunningWithinLimit

\* MS-1, wave sequence, for a sequential runner: while a task of a mission
\* runs, every task of the earlier waves is COMPLETED.
WaveSequence ==
    \A r \in Runners : Executing(r) =>
        \A t \in TasksOf[doing[r]] : Wave[t] < Wave[current[r]] => taskStatus[t] = "COMPLETED"

\* A mission is only COMPLETED once each of its tasks was executed with success
\* (sequential runner).
CompletedMeansAllDone ==
    \A m \in Missions : status[m] = "COMPLETED" =>
        \A t \in TasksOf[m] : taskStatus[t] = "COMPLETED"

\* Tasks run wave by wave, and COMPLETED means that all of them are done.
TasksInOrder == TypeOK /\ WaveSequence /\ CompletedMeansAllDone

\* A mission overshoots its ceiling by at most one task's cost for each runner,
\* however often it is paused, resumed and run again.
OvershootBounded ==
    \A m \in Missions : \A c \in Costs : (\A d \in Costs : d <= c) =>
        used[m] <= Ceiling + c * Cardinality(Runners)

\* Every mission that is queued is eventually taken up or cancelled, while a
\* runner is alive and the places are not all lost to stopped runners.
QueuedIsTakenUp ==
    \A m \in Missions : status[m] = "QUEUED" ~>
        \/ status[m] # "QUEUED"
        \/ alive = {} \/ Cardinality(Leaked) >= MaxConcurrent

\* Every execution ends: a mission does not stay RUNNING for ever, unless its
\* runner is stopped.
RunningEnds ==
    \A m \in Missions : status[m] = "RUNNING" ~>
        status[m] # "RUNNING" \/ \E p \in Points : <<m, p>> \in orphans

\* Every queued mission is taken up, and every running one ends, whoever is
\* stopped meanwhile.
MissionsProgress == QueuedIsTakenUp /\ RunningEnds

\* docs/mission_state_machine.md: COMPLETED and CANCELLED have no out-edges.
TerminalStatesStay ==
    [][\A m \in Missions : status[m] \in {"COMPLETED", "CANCELLED"} => status'[m] = status[m]]_vars
=============================================================================

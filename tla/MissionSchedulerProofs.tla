----------------------- MODULE MissionSchedulerProofs -----------------------
(***************************************************************************)
(* Proofs about MissionScheduler, for any number of missions, tasks and    *)
(* runners.                                                                *)
(***************************************************************************)
EXTENDS MissionScheduler, FiniteSetTheorems, TLAPS

\* A runner that is not idle has a mission, and one that executes has a task.
RunnersBusy ==
    \A r \in Runners :
        /\ at[r] = "idle" => doing[r] = NoMission
        /\ at[r] # "idle" => doing[r] \in Missions
        /\ Executing(r) => current[r] \in Tasks

\* _running is finite.
RunningIsFinite == IsFiniteSet(running)

IInv ==
    /\ TypeOK
    /\ RunnersBusy
    /\ RunningIsFinite
    /\ QueuedIsInQueue
    /\ RunningIsExecuted
    /\ RunningWithinLimit

-----------------------------------------------------------------------------
(* The queue.                                                              *)

\* Mission m has an item in q.
In(m, q) == \E i \in DOMAIN q : q[i] = m

\* Sorting keeps exactly the items that are there.
LEMMA SortKeepsItems ==
    ASSUME NEW q \in Seq(Missions), SortQueue(q)
    PROVE  queue' \in Seq(Missions) /\ \A m \in Missions : In(m, q) <=> In(m, queue')
<1>1. PICK p \in Bijection(DOMAIN q, DOMAIN q) : queue' = [i \in DOMAIN q |-> q[p[i]]]
  BY DEF SortQueue
<1>2. p \in [DOMAIN q -> DOMAIN q] /\ \A j \in DOMAIN q : \E i \in DOMAIN q : p[i] = j
  BY DEF Bijection, Surjection
<1>3. DOMAIN q = 1..Len(q) /\ Len(q) \in Nat /\ \A i \in DOMAIN q : q[i] \in Missions
  OBVIOUS
<1>4. queue' \in [1..Len(q) -> Missions]
  BY <1>1, <1>2, <1>3
<1>5. queue' \in Seq(Missions)
  BY <1>3, <1>4
<1>6. \A m \in Missions : In(m, q) <=> In(m, queue')
  BY <1>1, <1>2 DEF In
<1>7. QED
  BY <1>5, <1>6

\* enqueue() adds m and loses nothing.
LEMMA EnqueueKeepsItems ==
    ASSUME queue \in Seq(Missions), NEW m \in Missions, Enqueue(m)
    PROVE  /\ queue' \in Seq(Missions)
           /\ In(m, queue')
           /\ \A n \in Missions : In(n, queue) => In(n, queue')
<1> DEFINE q == Append(queue, m)
<1>1. q \in Seq(Missions)
  OBVIOUS
<1>2. In(m, q) /\ \A n \in Missions : In(n, queue) => In(n, q)
  <2>1. /\ DOMAIN queue = 1..Len(queue) /\ Len(queue) \in Nat /\ DOMAIN q = 1..(Len(queue) + 1)
        /\ q[Len(queue) + 1] = m /\ \A i \in DOMAIN queue : q[i] = queue[i]
    OBVIOUS
  <2>2. QED
    BY <2>1 DEF In
<1>3. SortQueue(q)
  BY DEF Enqueue
<1>4. queue' \in Seq(Missions) /\ \A n \in Missions : In(n, q) <=> In(n, queue')
  BY <1>1, <1>3, SortKeepsItems
<1>5. QED
  BY <1>2, <1>4

\* remove() loses no item of another mission.
LEMMA RemoveKeepsOthers ==
    ASSUME queue \in Seq(Missions), NEW m \in Missions, Remove(m)
    PROVE  /\ queue' \in Seq(Missions)
           /\ \A n \in Missions \ {m} : In(n, queue) => In(n, queue')
<1> DEFINE kept == {i \in DOMAIN queue : queue[i] # m}
<1>0. PICK n \in 0..Len(queue) : \E f \in Surjection(1..n, kept) :
        queue' = [i \in 1..n |-> queue[f[i]]]
  BY DEF Remove
<1>1. PICK f \in Surjection(1..n, kept) : queue' = [i \in 1..n |-> queue[f[i]]]
  BY <1>0
<1>2. f \in [1..n -> kept] /\ \A j \in kept : \E i \in 1..n : f[i] = j
  BY DEF Surjection
<1>3. \A i \in DOMAIN queue : queue[i] \in Missions
  OBVIOUS
<1>4. queue' \in [1..n -> Missions] /\ n \in Nat
  BY <1>1, <1>2, <1>3
<1>5. queue' \in Seq(Missions)
  BY <1>4
<1>6. DOMAIN queue' = 1..n
  BY <1>4
<1>7. ASSUME NEW k \in Missions \ {m}, In(k, queue) PROVE In(k, queue')
  <2>1. PICK j \in DOMAIN queue : queue[j] = k
    BY <1>7 DEF In
  <2>2. PICK i \in 1..n : f[i] = j
    BY <1>2, <2>1
  <2>3. queue'[i] = k
    BY <1>1, <2>1, <2>2
  <2>4. QED
    BY <1>6, <2>2, <2>3 DEF In
<1>8. QED
  BY <1>5, <1>7

\* dequeue() loses the head only.
LEMMA TailKeepsOthers ==
    ASSUME queue \in Seq(Missions), queue # <<>>, queue' = Tail(queue)
    PROVE  /\ queue' \in Seq(Missions) /\ Head(queue) \in Missions
           /\ \A n \in Missions \ {Head(queue)} : In(n, queue) => In(n, queue')
<1>1. queue' \in Seq(Missions) /\ Head(queue) \in Missions
  OBVIOUS
<1>2. ASSUME NEW n \in Missions \ {Head(queue)}, In(n, queue) PROVE In(n, queue')
  <2>1. PICK i \in DOMAIN queue : queue[i] = n
    BY <1>2 DEF In
  <2>2. i # 1 /\ i \in 1..Len(queue) /\ Len(queue) \in Nat
    BY <2>1
  <2>3. i - 1 \in DOMAIN queue' /\ queue'[i - 1] = n
    BY <2>1, <2>2
  <2>4. QED
    BY <2>3 DEF In
<1>3. QED
  BY <1>1, <1>2

-----------------------------------------------------------------------------
(* Types.                                                                  *)

\* What a runner may do to the variables it shares with no other runner.
Moves(r) ==
    /\ at' \in [Runners -> Points]
    /\ doing' \in [Runners -> Missions \cup {NoMission}]
    /\ current' \in [Runners -> Tasks \cup {NoTask}]
    /\ left' \in [Runners -> SUBSET Tasks]
    /\ RunnersBusy'
    /\ \A s \in Runners \ {r} : doing'[s] = doing[s]

\* Each of these names is one of the statuses.
LEMMA Statuses ==
    {"PENDING", "QUEUED", "RUNNING", "PAUSED", "COMPLETED", "FAILED", "CANCELLED", "RECOVERING"}
      \subseteq MissionStatus
  BY DEF MissionStatus

LEMMA LeaveMoves ==
    ASSUME TypeOK, RunnersBusy, NEW r \in Runners, Leave(r)
    PROVE  Moves(r) /\ doing'[r] = NoMission
  BY DEF TypeOK, RunnersBusy, Leave, Moves, Executing, Points

LEMMA PublishEndMoves ==
    ASSUME TypeOK, RunnersBusy, NEW r \in Runners, at[r] # "idle", PublishEnd(r)
    PROVE  Moves(r) /\ doing'[r] = doing[r]
  BY DEF TypeOK, RunnersBusy, PublishEnd, Moves, Executing, Points

\* The four ways on from the head of the loop.
LEMMA NextTaskTypes ==
    ASSUME TypeOK, RunnersBusy, NEW r \in Runners, at[r] # "idle", NEW m \in Missions,
           NEW rest \in SUBSET Tasks, NEW ts \in [Tasks -> MissionStatus],
           NextTask(r, m, rest, ts)
    PROVE  /\ status' \in [Missions -> MissionStatus]
           /\ taskStatus' \in [Tasks -> MissionStatus]
           /\ \A n \in Missions : status'[n] = "QUEUED" => status[n] = "QUEUED"
           /\ Moves(r)
           /\ \/ doing'[r] = doing[r] /\ running' = running
              \/ running' = running \ {m}
<1>0. status \in [Missions -> MissionStatus]
  BY DEF TypeOK
<1>1. CASE rest = {}
  <2>1. PublishEnd(r) /\ taskStatus' = ts /\ running' = running
        /\ status' = [status EXCEPT ![m] = "COMPLETED"]
    BY <1>1 DEF NextTask
  <2>2. QED
    BY <1>0, <2>1, PublishEndMoves, Statuses
<1>2. CASE rest # {} /\ status[m] \in {"CANCELLED", "PAUSED"}
  <2>1. Leave(r) /\ taskStatus' = ts /\ running' = running \ {m} /\ status' = status
    BY <1>2 DEF NextTask
  <2>2. QED
    BY <1>0, <2>1, LeaveMoves
<1>3. CASE rest # {} /\ status[m] \notin {"CANCELLED", "PAUSED"} /\ IsExhausted(used'[m])
  <2>1. PublishEnd(r) /\ taskStatus' = ts /\ running' = running
        /\ status' = [status EXCEPT ![m] = "FAILED"]
    BY <1>3 DEF NextTask
  <2>2. QED
    BY <1>0, <2>1, PublishEndMoves, Statuses
<1>4. CASE rest # {} /\ status[m] \notin {"CANCELLED", "PAUSED"} /\ ~IsExhausted(used'[m])
  <2>1. PICK t \in NextTasks(rest) :
          taskStatus' = [ts EXCEPT ![t] = "RUNNING"] /\ current' = [current EXCEPT ![r] = t]
    BY <1>4 DEF NextTask
  <2>2. /\ at' = [at EXCEPT ![r] = "task"] /\ left' = [left EXCEPT ![r] = rest]
        /\ UNCHANGED <<status, running, doing>>
    BY <1>4 DEF NextTask
  <2>3. t \in Tasks
    BY DEF NextTasks
  <2>4. taskStatus' \in [Tasks -> MissionStatus]
    BY <2>1, <2>3, Statuses
  <2>5. Moves(r)
    BY <2>1, <2>2, <2>3 DEF TypeOK, RunnersBusy, Moves, Executing, Points
  <2>6. QED
    BY <1>0, <2>2, <2>4, <2>5
<1>5. QED
  BY <1>1, <1>2, <1>3, <1>4

-----------------------------------------------------------------------------
(* One lemma for each conjunct that several actions can disturb.           *)

\* _running shrinks, or stays: it remains finite and within the limit.
LEMMA ShrinkingIsFine ==
    ASSUME RunningIsFinite, RunningWithinLimit, running' \subseteq running
    PROVE  RunningIsFinite' /\ RunningWithinLimit'
<1>1. IsFiniteSet(running') /\ Cardinality(running') <= Cardinality(running)
  BY FS_Subset DEF RunningIsFinite
<1>2. Cardinality(running') \in Int /\ Cardinality(running) \in Int
  BY <1>1, FS_CardinalityType DEF RunningIsFinite
<1>3. QED
  BY <1>1, <1>2, SchedulerAssumption DEF RunningIsFinite, RunningWithinLimit

\* A runner that drops its own mission only, or keeps it, keeps _running executed.
LEMMA DroppingIsFine ==
    ASSUME RunningIsExecuted, NEW r \in Runners,
           \A s \in Runners \ {r} : doing'[s] = doing[s],
           \/ doing'[r] = doing[r] /\ running' = running
           \/ running' = running \ {doing[r]},
           orphans \subseteq orphans'
    PROVE  RunningIsExecuted' /\ running' \subseteq running
<1>1. Leaked \subseteq Leaked'
  BY DEF Leaked
<1>2. QED
  BY <1>1 DEF RunningIsExecuted, Leaked

\* No mission becomes QUEUED and the queue stays: QUEUED missions are still in it.
LEMMA SameQueueIsFine ==
    ASSUME QueuedIsInQueue, UNCHANGED queue,
           \A n \in Missions : status'[n] = "QUEUED" => status[n] = "QUEUED"
    PROVE  QueuedIsInQueue'
  BY DEF QueuedIsInQueue

\* schedule_mission(), resume_mission(): m becomes QUEUED and gets an item.
LEMMA QueuedAndEnqueued ==
    ASSUME IInv, NEW m \in Missions, status' = [status EXCEPT ![m] = "QUEUED"], Enqueue(m),
           UNCHANGED <<taskVars, budgetVars, running, runVars, worldVars>>
    PROVE  IInv'
<1> USE DEF taskVars, budgetVars, runVars, worldVars
<1>0. TypeOK /\ QueuedIsInQueue
  BY DEF IInv
<1>1. /\ queue' \in Seq(Missions) /\ In(m, queue')
      /\ \A n \in Missions : In(n, queue) => In(n, queue')
  BY <1>0, EnqueueKeepsItems DEF TypeOK
<1>2. status' \in [Missions -> MissionStatus]
  BY <1>0, Statuses DEF TypeOK
<1>3. TypeOK'
  BY <1>0, <1>1, <1>2 DEF TypeOK
<1>4. QueuedIsInQueue'
  BY <1>0, <1>1 DEF TypeOK, QueuedIsInQueue, In
<1>5. RunnersBusy' /\ RunningIsFinite' /\ RunningIsExecuted' /\ RunningWithinLimit'
  BY DEF IInv, RunnersBusy, Executing, RunningIsFinite, RunningIsExecuted, Leaked, RunningWithinLimit
<1>6. QED
  BY <1>3, <1>4, <1>5 DEF IInv

LEMMA CancelIInv == ASSUME IInv, NEW m \in Missions, Cancel(m) PROVE IInv'
<1> USE DEF taskVars, budgetVars, runVars, worldVars
<1>0. TypeOK /\ QueuedIsInQueue /\ Remove(m)
  BY DEF IInv, Cancel
<1>1. queue' \in Seq(Missions) /\ \A n \in Missions \ {m} : In(n, queue) => In(n, queue')
  BY <1>0, RemoveKeepsOthers DEF TypeOK
<1>2. /\ status' \in [Missions -> MissionStatus]
      /\ status'[m] # "QUEUED" /\ \A n \in Missions \ {m} : status'[n] = status[n]
      /\ running' \subseteq running
  BY <1>0, Statuses DEF Cancel, TypeOK
<1>3. UNCHANGED <<taskVars, budgetVars, runVars, worldVars>>
  BY DEF Cancel
<1>4. TypeOK'
  BY <1>0, <1>1, <1>2, <1>3 DEF TypeOK
<1>5. QueuedIsInQueue'
  BY <1>0, <1>1, <1>2 DEF QueuedIsInQueue, In
<1>6. RunnersBusy' /\ RunningIsExecuted'
  BY <1>2, <1>3 DEF IInv, RunnersBusy, Executing, RunningIsExecuted, Leaked
<1>7. QED
  BY <1>2, <1>4, <1>5, <1>6, ShrinkingIsFine DEF IInv

LEMMA PauseIInv == ASSUME IInv, NEW m \in Missions, Pause(m) PROVE IInv'
<1> USE DEF taskVars, budgetVars, runVars, worldVars
<1>0. TypeOK
  BY DEF IInv
<1>1. /\ status' \in [Missions -> MissionStatus]
      /\ \A n \in Missions : status'[n] = "QUEUED" => status[n] = "QUEUED"
  BY <1>0, Statuses DEF Pause, TypeOK
<1>2. pauses' \in 0..MaxPauses
  BY <1>0, SchedulerAssumption DEF Pause, TypeOK
<1>3. UNCHANGED <<taskVars, budgetVars, queue, running, runVars, urgency, alive, stops, orphans>>
  BY DEF Pause
<1>4. TypeOK'
  BY <1>0, <1>1, <1>2, <1>3 DEF TypeOK
<1>5. RunnersBusy' /\ RunningIsFinite' /\ RunningIsExecuted' /\ RunningWithinLimit'
  BY <1>3 DEF IInv, RunnersBusy, Executing, RunningIsFinite, RunningIsExecuted, Leaked, RunningWithinLimit
<1>6. QED
  BY <1>1, <1>3, <1>4, <1>5, SameQueueIsFine DEF IInv

LEMMA ApproachIInv == ASSUME IInv, NEW m \in Missions, Approach(m) PROVE IInv'
<1> USE DEF taskVars, budgetVars, runVars
<1>1. UNCHANGED <<status, taskVars, budgetVars, queue, running, runVars, alive, pauses, stops, orphans>>
  BY DEF Approach
<1>2. urgency' \in [Missions -> Urgencies]
  BY DEF IInv, TypeOK, Approach, Urgencies
<1>3. TypeOK'
  BY <1>1, <1>2 DEF IInv, TypeOK
<1>4. RunnersBusy' /\ RunningIsFinite' /\ RunningIsExecuted' /\ RunningWithinLimit' /\ QueuedIsInQueue'
  BY <1>1 DEF IInv, RunnersBusy, Executing, RunningIsFinite, RunningIsExecuted, Leaked, RunningWithinLimit,
     QueuedIsInQueue
<1>5. QED
  BY <1>3, <1>4 DEF IInv

LEMMA RunNextIInv == ASSUME IInv, NEW r \in Runners, RunNext(r) PROVE IInv'
<1> USE DEF taskVars, budgetVars, runVars, worldVars
<1> DEFINE m == Head(queue)
<1>0. TypeOK /\ QueuedIsInQueue /\ RunnersBusy
  BY DEF IInv
<1>1. /\ queue' \in Seq(Missions) /\ m \in Missions
      /\ \A n \in Missions \ {m} : In(n, queue) => In(n, queue')
  BY <1>0, TailKeepsOthers DEF RunNext, TypeOK
<1>2. UNCHANGED <<taskVars, budgetVars, worldVars>> /\ at[r] = "idle"
  BY DEF RunNext
<1>3. CASE status[m] = "CANCELLED"
  <2>1. UNCHANGED <<status, running, runVars>>
    BY <1>3 DEF RunNext, TakeUp
  <2>2. TypeOK'
    BY <1>0, <1>1, <1>2, <2>1 DEF TypeOK
  <2>3. QueuedIsInQueue'
    BY <1>0, <1>1, <1>3, <2>1 DEF QueuedIsInQueue, In
  <2>4. RunnersBusy' /\ RunningIsFinite' /\ RunningIsExecuted' /\ RunningWithinLimit'
    BY <1>2, <2>1 DEF IInv, RunnersBusy, Executing, RunningIsFinite, RunningIsExecuted, Leaked,
       RunningWithinLimit
  <2>5. QED
    BY <2>2, <2>3, <2>4 DEF IInv
<1>4. CASE status[m] # "CANCELLED"
  <2>1. /\ status' = [status EXCEPT ![m] = "RUNNING"]
        /\ running' = running \cup {m}
        /\ at' = [at EXCEPT ![r] = "started"]
        /\ doing' = [doing EXCEPT ![r] = m]
        /\ UNCHANGED <<current, left>>
    BY <1>4 DEF RunNext, TakeUp
  <2>2. status' \in [Missions -> MissionStatus]
    BY <1>0, <1>1, <2>1, Statuses DEF TypeOK
  <2>3. Moves(r)
    BY <1>0, <1>1, <2>1 DEF Moves, TypeOK, RunnersBusy, Executing, Points
  <2>4. TypeOK'
    BY <1>0, <1>1, <1>2, <2>1, <2>2, <2>3 DEF TypeOK, Moves
  <2>5. QueuedIsInQueue'
    BY <1>0, <1>1, <2>1 DEF TypeOK, QueuedIsInQueue, In
  <2>6. RunningIsExecuted'
    <3>1. doing[r] = NoMission
      BY <1>0, <1>2 DEF RunnersBusy
    <3>2. doing[r] \notin running
      BY <1>0, <3>1, SchedulerAssumption DEF TypeOK
    <3>3. doing'[r] = m /\ \A s \in Runners \ {r} : doing'[s] = doing[s]
      BY <1>0, <2>1 DEF TypeOK
    <3>4. QED
      BY <1>2, <2>1, <3>2, <3>3 DEF IInv, RunningIsExecuted, Leaked
  <2>7. RunningIsFinite' /\ RunningWithinLimit'
    <3>1. /\ IsFiniteSet(running \cup {m})
          /\ Cardinality(running \cup {m}) = IF m \in running THEN Cardinality(running)
                                                               ELSE Cardinality(running) + 1
      BY FS_AddElement DEF IInv, RunningIsFinite
    <3>2. Cardinality(running) < MaxConcurrent /\ Cardinality(running) \in Nat
      BY FS_CardinalityType DEF RunNext, IInv, RunningIsFinite
    <3>3. QED
      BY <2>1, <3>1, <3>2, SchedulerAssumption DEF RunningIsFinite, RunningWithinLimit
  <2>8. QED
    BY <2>3, <2>4, <2>5, <2>6, <2>7 DEF IInv, Moves
<1>5. QED
  BY <1>3, <1>4

\* Every step that ends at the head of the loop over tasks.
LEMMA LoopHeadIInv ==
    ASSUME IInv, NEW r \in Runners, at[r] # "idle",
           NEW rest \in SUBSET Tasks, NEW ts \in [Tasks -> MissionStatus],
           NextTask(r, doing[r], rest, ts),
           used' \in [Missions -> Nat],
           UNCHANGED <<retries, retryCount, queue, worldVars>>
    PROVE  IInv'
<1> USE DEF worldVars
<1>0. TypeOK /\ RunnersBusy /\ doing[r] \in Missions
  BY DEF IInv, RunnersBusy
<1>1. /\ status' \in [Missions -> MissionStatus]
      /\ taskStatus' \in [Tasks -> MissionStatus]
      /\ \A n \in Missions : status'[n] = "QUEUED" => status[n] = "QUEUED"
      /\ Moves(r)
      /\ \/ doing'[r] = doing[r] /\ running' = running
         \/ running' = running \ {doing[r]}
  BY <1>0, NextTaskTypes
<1>2. RunningIsExecuted' /\ running' \subseteq running
  BY <1>1, DroppingIsFine DEF IInv, Moves
<1>3. TypeOK'
  BY <1>0, <1>1, <1>2 DEF TypeOK, Moves
<1>4. RunningIsFinite' /\ RunningWithinLimit'
  BY <1>2, ShrinkingIsFine DEF IInv
<1>5. QueuedIsInQueue'
  BY <1>1, SameQueueIsFine DEF IInv
<1>6. QED
  BY <1>1, <1>2, <1>3, <1>4, <1>5 DEF IInv, Moves

LEMMA BeginIInv == ASSUME IInv, NEW r \in Runners, Begin(r) PROVE IInv'
<1> USE DEF budgetVars, worldVars
<1> DEFINE m == doing[r]
<1>0. TypeOK /\ RunnersBusy /\ at[r] = "started" /\ m \in Missions
  BY DEF IInv, Begin, RunnersBusy
<1>1. UNCHANGED <<retries, budgetVars, queue, worldVars>>
  BY DEF Begin
<1>2. CASE \E t \in TasksOf[m] : Wave[t] = 0
  <2>1. /\ status' = [status EXCEPT ![m] = "FAILED"]
        /\ PublishEnd(r) /\ UNCHANGED <<taskStatus, running>>
    BY <1>2 DEF Begin
  <2>2. Moves(r) /\ doing'[r] = doing[r]
    BY <1>0, <2>1, PublishEndMoves
  <2>3. /\ status' \in [Missions -> MissionStatus]
        /\ \A n \in Missions : status'[n] = "QUEUED" => status[n] = "QUEUED"
    BY <1>0, <2>1, Statuses DEF TypeOK
  <2>4. TypeOK'
    BY <1>0, <1>1, <2>1, <2>2, <2>3 DEF TypeOK, Moves
  <2>5. RunningIsExecuted' /\ running' \subseteq running
    BY <1>1, <2>1, <2>2, DroppingIsFine DEF IInv, Moves
  <2>6. QED
    BY <1>1, <2>2, <2>3, <2>4, <2>5, SameQueueIsFine, ShrinkingIsFine DEF IInv, Moves
<1>3. CASE ~\E t \in TasksOf[m] : Wave[t] = 0
  <2>1. NextTask(r, m, TasksOf[m], taskStatus)
    BY <1>3 DEF Begin
  <2>2. TasksOf[m] \in SUBSET Tasks
    BY <1>0, SchedulerAssumption
  <2>3. taskStatus \in [Tasks -> MissionStatus] /\ used' \in [Missions -> Nat]
    BY <1>0, <1>1 DEF TypeOK
  <2>4. QED
    BY <1>0, <1>1, <2>1, <2>2, <2>3, LoopHeadIInv
<1>4. QED
  BY <1>2, <1>3

LEMMA TaskSucceedsIInv ==
    ASSUME IInv, NEW r \in Runners, NEW cost \in Costs, TaskSucceeds(r, cost)
    PROVE  IInv'
<1> DEFINE ts == [taskStatus EXCEPT ![current[r]] = "COMPLETED"]
<1>0. TypeOK /\ at[r] = "task" /\ doing[r] \in Missions /\ current[r] \in Tasks
  BY DEF IInv, TaskSucceeds, RunnersBusy, Executing
<1>1. used' \in [Missions -> Nat]
  BY <1>0, SchedulerAssumption DEF TypeOK, TaskSucceeds
<1>2. ts \in [Tasks -> MissionStatus] /\ left[r] \ {current[r]} \in SUBSET Tasks
  BY <1>0, Statuses DEF TypeOK
<1>3. NextTask(r, doing[r], left[r] \ {current[r]}, ts)
  BY DEF TaskSucceeds
<1>4. UNCHANGED <<retries, retryCount, queue, worldVars>>
  BY DEF TaskSucceeds
<1>5. QED
  BY <1>0, <1>1, <1>2, <1>3, <1>4, LoopHeadIInv

\* The two steps that stay inside _execute_task().
LEMMA WithinTaskIInv ==
    ASSUME IInv, NEW r \in Runners, Executing(r),
           taskStatus' \in [Tasks -> MissionStatus], retries' \in [Tasks -> 0..MaxTaskRetries],
           NEW p \in {"task", "backoff"}, at' = [at EXCEPT ![r] = p],
           UNCHANGED <<status, budgetVars, queue, running, doing, current, left, worldVars>>
    PROVE  IInv'
<1> USE DEF budgetVars, worldVars
<1>1. at' \in [Runners -> Points]
  BY DEF IInv, TypeOK, Points
<1>2. TypeOK'
  BY <1>1 DEF IInv, TypeOK
<1>3. RunnersBusy'
  BY DEF IInv, TypeOK, RunnersBusy, Executing
<1>4. RunningIsFinite' /\ RunningIsExecuted' /\ RunningWithinLimit' /\ QueuedIsInQueue'
  BY DEF IInv, RunningIsFinite, RunningIsExecuted, Leaked, RunningWithinLimit, QueuedIsInQueue
<1>5. QED
  BY <1>2, <1>3, <1>4 DEF IInv

LEMMA TaskBacksOffIInv == ASSUME IInv, NEW r \in Runners, TaskBacksOff(r) PROVE IInv'
<1>1. TypeOK /\ Executing(r) /\ current[r] \in Tasks
  BY DEF IInv, TaskBacksOff, RunnersBusy, Executing
<1>2. taskStatus' \in [Tasks -> MissionStatus]
  BY <1>1, Statuses DEF TypeOK, TaskBacksOff
<1>3. retries' \in [Tasks -> 0..MaxTaskRetries]
  BY <1>1, SchedulerAssumption DEF TypeOK, TaskBacksOff
<1>4. QED
  BY <1>1, <1>2, <1>3, WithinTaskIInv DEF TaskBacksOff

LEMMA TaskRetriesIInv == ASSUME IInv, NEW r \in Runners, TaskRetries(r) PROVE IInv'
<1>1. TypeOK /\ Executing(r) /\ current[r] \in Tasks
  BY DEF IInv, TaskRetries, RunnersBusy, Executing
<1>2. taskStatus' \in [Tasks -> MissionStatus]
  BY <1>1, Statuses DEF TypeOK, TaskRetries
<1>3. retries' \in [Tasks -> 0..MaxTaskRetries]
  BY <1>1 DEF TypeOK, TaskRetries
<1>4. QED
  BY <1>1, <1>2, <1>3, WithinTaskIInv DEF TaskRetries

LEMMA TaskFailsIInv == ASSUME IInv, NEW r \in Runners, TaskFails(r) PROVE IInv'
<1> USE DEF worldVars
<1> DEFINE m == doing[r]
           ts == [taskStatus EXCEPT ![current[r]] = "FAILED"]
<1>0. TypeOK /\ RunnersBusy /\ at[r] = "task" /\ m \in Missions /\ current[r] \in Tasks
  BY DEF IInv, TaskFails, RunnersBusy, Executing
<1>1. PublishEnd(r) /\ UNCHANGED <<retries, used, running, worldVars>>
  BY DEF TaskFails
<1>2. Moves(r) /\ doing'[r] = doing[r]
  BY <1>0, <1>1, PublishEndMoves
<1>3. RunningIsExecuted' /\ running' \subseteq running
  BY <1>1, <1>2, DroppingIsFine DEF IInv, Moves
<1>4. RunningIsFinite' /\ RunningWithinLimit'
  BY <1>3, ShrinkingIsFine DEF IInv
<1>5. ts \in [Tasks -> MissionStatus]
  BY <1>0, Statuses DEF TypeOK
<1>6. CASE ~ShouldRetryMission(m)
  <2>1. status' = [status EXCEPT ![m] = "FAILED"] /\ taskStatus' = ts /\ UNCHANGED <<retryCount, queue>>
    BY <1>6 DEF TaskFails
  <2>2. /\ status' \in [Missions -> MissionStatus]
        /\ \A n \in Missions : status'[n] = "QUEUED" => status[n] = "QUEUED"
    BY <1>0, <2>1, Statuses DEF TypeOK
  <2>3. TypeOK'
    BY <1>0, <1>1, <1>2, <1>5, <2>1, <2>2 DEF TypeOK, Moves
  <2>4. QED
    BY <1>2, <1>3, <1>4, <2>1, <2>2, <2>3, SameQueueIsFine DEF IInv, Moves
<1>7. CASE ShouldRetryMission(m)
  <2>1. /\ status' = [status EXCEPT ![m] = "RECOVERING"]
        /\ retryCount' = [retryCount EXCEPT ![m] = @ + 1]
        /\ taskStatus' = [t \in Tasks |-> IF t \in TasksOf[m] /\ ts[t] = "FAILED"
                                            THEN "PENDING" ELSE ts[t]]
        /\ Enqueue(m)
    BY <1>7 DEF TaskFails
  <2>2. /\ queue' \in Seq(Missions)
        /\ \A n \in Missions : In(n, queue) => In(n, queue')
    BY <1>0, <2>1, EnqueueKeepsItems DEF TypeOK
  <2>3. /\ status' \in [Missions -> MissionStatus]
        /\ \A n \in Missions : status'[n] = "QUEUED" => status[n] = "QUEUED"
    BY <1>0, <2>1, Statuses DEF TypeOK
  <2>4. retryCount' \in [Missions -> 0..MaxRetries]
    BY <1>0, <1>7, <2>1, SchedulerAssumption DEF TypeOK, ShouldRetryMission
  <2>5. taskStatus' \in [Tasks -> MissionStatus]
    BY <1>5, <2>1, Statuses
  <2>6. TypeOK'
    BY <1>0, <1>1, <1>2, <2>2, <2>3, <2>4, <2>5 DEF TypeOK, Moves
  <2>7. QueuedIsInQueue'
    BY <2>2, <2>3 DEF IInv, QueuedIsInQueue, In
  <2>8. QED
    BY <1>2, <1>3, <1>4, <2>6, <2>7 DEF IInv, Moves
<1>8. QED
  BY <1>6, <1>7

\* End and Stop: the runner leaves, and its mission goes from _running or is
\* one more that stop() left there.
LEMMA LeavingIInv ==
    ASSUME IInv, NEW r \in Runners, Leave(r),
           \/ running' = running \ {doing[r]}
           \/ running' = running /\ doing[r] \in Leaked',
           alive' \subseteq Runners, stops' \in 0..MaxStops,
           orphans \subseteq orphans', orphans' \subseteq Missions \X Points,
           UNCHANGED <<status, taskVars, budgetVars, queue, urgency, pauses>>
    PROVE  IInv'
<1> USE DEF taskVars, budgetVars
<1>1. Moves(r)
  BY LeaveMoves DEF IInv
<1>2. Leaked \subseteq Leaked'
  BY DEF Leaked
<1>3. RunningIsExecuted' /\ running' \subseteq running
  BY <1>1, <1>2 DEF IInv, Moves, RunningIsExecuted, Leaked
<1>4. TypeOK'
  BY <1>1, <1>3 DEF IInv, TypeOK, Moves
<1>5. QED
  BY <1>1, <1>3, <1>4, ShrinkingIsFine, SameQueueIsFine DEF IInv, Moves

LEMMA StopIInv == ASSUME IInv, NEW r \in Runners, Stop(r) PROVE IInv'
<1>1. alive' \subseteq Runners /\ stops' \in 0..MaxStops
  BY SchedulerAssumption DEF IInv, TypeOK, Stop
<1>2. orphans \subseteq orphans' /\ orphans' \subseteq Missions \X Points
  BY DEF IInv, TypeOK, Stop
<1>3. CASE at[r] = "started"
  <2>1. doing[r] \in Missions
    BY <1>3 DEF IInv, RunnersBusy
  <2>2. doing[r] \in Leaked'
    BY <1>3, <2>1 DEF Stop, Leaked, Points
  <2>3. running' = running
    BY <1>3 DEF Stop
  <2>4. QED
    BY <1>1, <1>2, <2>2, <2>3, LeavingIInv DEF Stop
<1>4. CASE at[r] # "started"
  <2>1. running' = running \ {doing[r]}
    BY <1>4 DEF Stop
  <2>2. QED
    BY <1>1, <1>2, <2>1, LeavingIInv DEF Stop
<1>5. QED
  BY <1>3, <1>4

LEMMA EndIInv == ASSUME IInv, NEW r \in Runners, End(r) PROVE IInv'
<1>1. alive' \subseteq Runners /\ stops' \in 0..MaxStops /\ UNCHANGED <<urgency, pauses>>
      /\ orphans' = orphans /\ orphans \subseteq Missions \X Points
  BY DEF IInv, TypeOK, End, worldVars
<1>2. QED
  BY <1>1, LeavingIInv DEF End

LEMMA StartIInv == ASSUME IInv, NEW r \in Runners, Start(r) PROVE IInv'
<1> USE DEF taskVars, budgetVars, runVars
<1>1. UNCHANGED <<status, taskVars, budgetVars, queue, running, runVars, urgency, pauses, stops, orphans>>
  BY DEF Start
<1>2. TypeOK'
  BY <1>1 DEF IInv, TypeOK, Start
<1>3. QED
  BY <1>1, <1>2 DEF IInv, RunnersBusy, Executing, RunningIsFinite, RunningIsExecuted, Leaked,
     RunningWithinLimit, QueuedIsInQueue

-----------------------------------------------------------------------------
\* IInv holds in every state of the scheduler.
THEOREM Invariance == Spec => []IInv
<1>1. Init => IInv
  <2> SUFFICES ASSUME Init PROVE IInv
    OBVIOUS
  <2>1. TypeOK
    BY SchedulerAssumption, Statuses DEF Init, TypeOK, Points, Urgencies
  <2>2. RunnersBusy /\ QueuedIsInQueue /\ RunningIsExecuted
    BY DEF Init, RunnersBusy, Executing, QueuedIsInQueue, RunningIsExecuted, Leaked
  <2>3. RunningIsFinite /\ RunningWithinLimit
    BY FS_EmptySet, SchedulerAssumption DEF Init, RunningIsFinite, RunningWithinLimit
  <2>4. QED
    BY <2>1, <2>2, <2>3 DEF IInv
<1>2. IInv /\ [Next]_vars => IInv'
  <2> SUFFICES ASSUME IInv, [Next]_vars PROVE IInv'
    OBVIOUS
  <2>1. ASSUME NEW m \in Missions, Schedule(m) \/ Resume(m) PROVE IInv'
    BY <2>1, QueuedAndEnqueued DEF Schedule, Resume
  <2>2. ASSUME NEW m \in Missions, Cancel(m) \/ Pause(m) \/ Approach(m) PROVE IInv'
    BY <2>2, CancelIInv, PauseIInv, ApproachIInv
  <2>3. ASSUME NEW r \in Runners, RunnerStep(r) PROVE IInv'
    BY <2>3, RunNextIInv, BeginIInv, TaskBacksOffIInv, TaskRetriesIInv, TaskFailsIInv, EndIInv,
       TaskSucceedsIInv DEF RunnerStep
  <2>4. ASSUME NEW r \in Runners, Stop(r) \/ Start(r) PROVE IInv'
    BY <2>4, StopIInv, StartIInv
  <2>5. CASE UNCHANGED vars
    BY <2>5 DEF vars, taskVars, budgetVars, runVars, worldVars, IInv, TypeOK, RunnersBusy, Executing,
       RunningIsFinite, RunningIsExecuted, Leaked, RunningWithinLimit, QueuedIsInQueue
  <2>6. QED
    BY <2>1, <2>2, <2>3, <2>4, <2>5 DEF Next
<1>3. QED
  BY <1>1, <1>2, PTL DEF Spec

\* The scheduler keeps the types of its state; retry counters stay within
\* max_retries.
THEOREM TypeCorrect == Spec => []TypeOK
<1>1. IInv => TypeOK
  BY DEF IInv
<1>2. QED
  BY <1>1, Invariance, PTL

\* A QUEUED mission always has an item in the queue (schedule_mission(),
\* resume_mission(), cancel_mission(), run_next()), for any number of runners.
THEOREM NoMissionLost == Spec => []QueuedIsInQueue
<1>1. IInv => QueuedIsInQueue
  BY DEF IInv
<1>2. QED
  BY <1>1, Invariance, PTL

\* _running never holds more than max_concurrent_missions missions.
THEOREM LimitHolds == Spec => []RunningWithinLimit
<1>1. IInv => RunningWithinLimit
  BY DEF IInv
<1>2. QED
  BY <1>1, Invariance, PTL

\* Every mission in _running is one that some runner is executing, or one whose
\* runner was stopped while it published mission.started: that stop is the only
\* way to lose a place under the limit.
THEOREM NoPlaceLost == Spec => []RunningIsExecuted
<1>1. IInv => RunningIsExecuted
  BY DEF IInv
<1>2. QED
  BY <1>1, Invariance, PTL

-----------------------------------------------------------------------------
(* A sequential runner: at most one execution at a time.                   *)

Sequential == \A r, s \in Runners : r = s

\* How far the execution is: what it has not to execute any more is COMPLETED.
Progress ==
    \A r \in Runners :
        /\ at[r] \in {"started", "task", "backoff"} => status[doing[r]] # "COMPLETED"
        /\ Executing(r) =>
             /\ left[r] \subseteq TasksOf[doing[r]]
             /\ current[r] \in NextTasks(left[r])
             /\ \A t \in TasksOf[doing[r]] \ left[r] : taskStatus[t] = "COMPLETED"

SeqInv == Progress /\ CompletedMeansAllDone

\* Callers change the status of one mission, never to COMPLETED.
LEMMA CallersSeqInv ==
    ASSUME IInv, SeqInv, UNCHANGED <<taskStatus, runVars>>,
           \A m \in Missions : status'[m] = "COMPLETED" => status[m] = "COMPLETED"
    PROVE  SeqInv'
<1> USE DEF runVars
<1>1. Progress'
  BY DEF IInv, RunnersBusy, SeqInv, Progress, Executing
<1>2. CompletedMeansAllDone'
  BY DEF SeqInv, CompletedMeansAllDone
<1>3. QED
  BY <1>1, <1>2 DEF SeqInv

\* An execution that is over, or about to be, leaves nothing to show.
LEMMA NotExecuting ==
    ASSUME Sequential, NEW r \in Runners, at'[r] \in {"idle", "ended"}
    PROVE  Progress'
  BY DEF Sequential, Progress, Executing

\* A change of one mission's tasks concerns no other mission.
LEMMA OwnTasksOnly ==
    ASSUME CompletedMeansAllDone, NEW m \in Missions,
           \A n \in Missions \ {m} : status'[n] = status[n],
           \A t \in Tasks \ TasksOf[m] : taskStatus'[t] = taskStatus[t],
           status'[m] = "COMPLETED" => \A t \in TasksOf[m] : taskStatus'[t] = "COMPLETED"
    PROVE  CompletedMeansAllDone'
  BY SchedulerAssumption DEF CompletedMeansAllDone

\* The head of the loop, when everything but rest is done.
LEMMA LoopHeadSeqInv ==
    ASSUME IInv, SeqInv, Sequential, NEW r \in Runners, NEW m \in Missions, doing[r] = m,
           status[m] # "COMPLETED",
           NEW rest \in SUBSET TasksOf[m], NEW ts \in [Tasks -> MissionStatus],
           \A t \in Tasks \ TasksOf[m] : ts[t] = taskStatus[t],
           \A t \in TasksOf[m] \ rest : ts[t] = "COMPLETED",
           NextTask(r, m, rest, ts)
    PROVE  SeqInv'
<1>0. TypeOK /\ CompletedMeansAllDone
  BY DEF IInv, SeqInv
<1>1. CASE rest = {}
  <2>1. PublishEnd(r) /\ taskStatus' = ts /\ status' = [status EXCEPT ![m] = "COMPLETED"]
    BY <1>1 DEF NextTask
  <2>2. at'[r] = "ended"
    BY <1>0, <2>1 DEF PublishEnd, TypeOK
  <2>3. CompletedMeansAllDone'
    BY <1>0, <1>1, <2>1, OwnTasksOnly DEF TypeOK
  <2>4. QED
    BY <2>2, <2>3, NotExecuting DEF SeqInv
<1>2. CASE rest # {} /\ status[m] \in {"CANCELLED", "PAUSED"}
  <2>1. Leave(r) /\ taskStatus' = ts /\ status' = status
    BY <1>2 DEF NextTask
  <2>2. at'[r] = "idle"
    BY <1>0, <2>1 DEF Leave, TypeOK
  <2>3. CompletedMeansAllDone'
    BY <1>0, <2>1, OwnTasksOnly DEF TypeOK
  <2>4. QED
    BY <2>2, <2>3, NotExecuting DEF SeqInv
<1>3. CASE rest # {} /\ status[m] \notin {"CANCELLED", "PAUSED"} /\ IsExhausted(used'[m])
  <2>1. PublishEnd(r) /\ taskStatus' = ts /\ status' = [status EXCEPT ![m] = "FAILED"]
    BY <1>3 DEF NextTask
  <2>2. at'[r] = "ended"
    BY <1>0, <2>1 DEF PublishEnd, TypeOK
  <2>3. CompletedMeansAllDone'
    BY <1>0, <2>1, OwnTasksOnly DEF TypeOK
  <2>4. QED
    BY <2>2, <2>3, NotExecuting DEF SeqInv
<1>4. CASE rest # {} /\ status[m] \notin {"CANCELLED", "PAUSED"} /\ ~IsExhausted(used'[m])
  <2>1. PICK t \in NextTasks(rest) :
          taskStatus' = [ts EXCEPT ![t] = "RUNNING"] /\ current' = [current EXCEPT ![r] = t]
    BY <1>4 DEF NextTask
  <2>2. /\ at' = [at EXCEPT ![r] = "task"] /\ left' = [left EXCEPT ![r] = rest]
        /\ UNCHANGED <<status, doing>>
    BY <1>4 DEF NextTask
  <2>3. t \in rest /\ t \in TasksOf[m] /\ t \in Tasks
    BY SchedulerAssumption DEF NextTasks
  <2>4. Progress'
    <3>1. current'[r] = t /\ left'[r] = rest /\ doing'[r] = m /\ status'[m] = status[m]
      BY <1>0, <2>1, <2>2 DEF TypeOK
    <3>2. \A u \in TasksOf[m] \ rest : taskStatus'[u] = "COMPLETED"
      BY <2>1, <2>3, SchedulerAssumption
    <3>3. NextTasks(rest)' = NextTasks(rest)
      BY DEF NextTasks
    <3>4. QED
      BY <2>1, <3>1, <3>2 DEF Progress, Sequential, NextTasks
  <2>5. CompletedMeansAllDone'
    BY <1>0, <2>1, <2>2, <2>3, OwnTasksOnly DEF TypeOK
  <2>6. QED
    BY <2>4, <2>5 DEF SeqInv
<1>5. QED
  BY <1>1, <1>2, <1>3, <1>4

\* Steps of the runner that stay inside a task of its mission.
LEMMA WithinTaskSeqInv ==
    ASSUME IInv, SeqInv, Sequential, NEW r \in Runners, Executing(r),
           NEW st \in MissionStatus, taskStatus' = [taskStatus EXCEPT ![current[r]] = st],
           UNCHANGED <<status, doing, current, left>>
    PROVE  SeqInv'
<1>0. /\ TypeOK /\ doing[r] \in Missions /\ status[doing[r]] # "COMPLETED"
      /\ left[r] \subseteq TasksOf[doing[r]] /\ current[r] \in NextTasks(left[r])
      /\ \A t \in TasksOf[doing[r]] \ left[r] : taskStatus[t] = "COMPLETED"
  BY DEF IInv, SeqInv, Progress, RunnersBusy, Executing
<1>1. current[r] \in left[r] /\ current[r] \in TasksOf[doing[r]]
  BY <1>0 DEF NextTasks
<1>2. Progress'
  BY <1>0, <1>1 DEF Progress, Sequential, TypeOK, NextTasks
<1>3. CompletedMeansAllDone'
  BY <1>0, <1>1, OwnTasksOnly DEF SeqInv, TypeOK
<1>4. QED
  BY <1>2, <1>3 DEF SeqInv

LEMMA RunnerSeqInv ==
    ASSUME IInv, SeqInv, Sequential, NEW r \in Runners, RunnerStep(r)
    PROVE  SeqInv'
<1>0. TypeOK /\ CompletedMeansAllDone
  BY DEF IInv, SeqInv
<1>1. CASE RunNext(r)
  <2>1. Head(queue) \in Missions
    BY <1>0, <1>1, TailKeepsOthers DEF RunNext, TypeOK
  <2>2. UNCHANGED taskStatus
    BY <1>1 DEF RunNext, taskVars
  <2>3. CASE status[Head(queue)] = "CANCELLED"
    BY <1>1, <2>2, <2>3, CallersSeqInv DEF RunNext, TakeUp
  <2>4. CASE status[Head(queue)] # "CANCELLED"
    <3>1. /\ status' = [status EXCEPT ![Head(queue)] = "RUNNING"]
          /\ at'[r] = "started" /\ doing'[r] = Head(queue)
      BY <1>0, <1>1, <2>4 DEF RunNext, TakeUp, TypeOK
    <3>2. Progress'
      BY <1>0, <2>1, <3>1 DEF Progress, Sequential, Executing, TypeOK
    <3>3. CompletedMeansAllDone'
      BY <1>0, <2>1, <2>2, <3>1, OwnTasksOnly DEF TypeOK
    <3>4. QED
      BY <3>2, <3>3 DEF SeqInv
  <2>5. QED
    BY <2>3, <2>4
<1>2. CASE Begin(r)
  <2>1. at[r] = "started" /\ doing[r] \in Missions /\ status[doing[r]] # "COMPLETED"
    BY <1>2 DEF Begin, IInv, RunnersBusy, SeqInv, Progress
  <2>2. CASE \E t \in TasksOf[doing[r]] : Wave[t] = 0
    <3>1. PublishEnd(r) /\ status' = [status EXCEPT ![doing[r]] = "FAILED"] /\ taskStatus' = taskStatus
      BY <1>2, <2>2 DEF Begin
    <3>2. at'[r] = "ended"
      BY <1>0, <3>1 DEF PublishEnd, TypeOK
    <3>3. CompletedMeansAllDone'
      BY <1>0, <2>1, <3>1, OwnTasksOnly DEF TypeOK
    <3>4. QED
      BY <3>2, <3>3, NotExecuting DEF SeqInv
  <2>3. CASE ~\E t \in TasksOf[doing[r]] : Wave[t] = 0
    <3>1. NextTask(r, doing[r], TasksOf[doing[r]], taskStatus)
      BY <1>2, <2>3 DEF Begin
    <3>2. taskStatus \in [Tasks -> MissionStatus]
      BY <1>0 DEF TypeOK
    <3>3. QED
      BY <2>1, <3>1, <3>2, LoopHeadSeqInv
  <2>4. QED
    BY <2>2, <2>3
<1>3. CASE \E cost \in Costs : TaskSucceeds(r, cost)
  <2> DEFINE ts == [taskStatus EXCEPT ![current[r]] = "COMPLETED"]
             rest == left[r] \ {current[r]}
  <2>1. /\ at[r] = "task" /\ Executing(r)
        /\ NextTask(r, doing[r], rest, ts)
    BY <1>3 DEF TaskSucceeds, Executing
  <2>2. /\ doing[r] \in Missions /\ status[doing[r]] # "COMPLETED" /\ current[r] \in Tasks
        /\ left[r] \subseteq TasksOf[doing[r]] /\ current[r] \in NextTasks(left[r])
        /\ \A t \in TasksOf[doing[r]] \ left[r] : taskStatus[t] = "COMPLETED"
    BY <2>1 DEF IInv, SeqInv, Progress, RunnersBusy, Executing
  <2>3. current[r] \in TasksOf[doing[r]] /\ rest \in SUBSET TasksOf[doing[r]]
    BY <2>2 DEF NextTasks
  <2>4. ts \in [Tasks -> MissionStatus] /\ \A t \in Tasks \ TasksOf[doing[r]] : ts[t] = taskStatus[t]
    BY <1>0, <2>2, <2>3, Statuses DEF TypeOK
  <2>5. \A t \in TasksOf[doing[r]] \ rest : ts[t] = "COMPLETED"
    BY <1>0, <2>2, <2>3, SchedulerAssumption DEF TypeOK
  <2>6. QED
    BY <2>1, <2>2, <2>3, <2>4, <2>5, LoopHeadSeqInv
<1>4. CASE TaskBacksOff(r)
  BY <1>4, WithinTaskSeqInv, Statuses DEF TaskBacksOff, Executing
<1>5. CASE TaskRetries(r)
  BY <1>5, WithinTaskSeqInv, Statuses DEF TaskRetries, Executing
<1>6. CASE TaskFails(r)
  <2>1. /\ Executing(r) /\ doing[r] \in Missions /\ current[r] \in Tasks
        /\ current[r] \in TasksOf[doing[r]]
    BY <1>6 DEF TaskFails, Executing, IInv, RunnersBusy, SeqInv, Progress, NextTasks
  <2>2. at'[r] = "ended"
    BY <1>0, <1>6 DEF TaskFails, PublishEnd, TypeOK
  <2>3. /\ status'[doing[r]] # "COMPLETED"
        /\ \A n \in Missions \ {doing[r]} : status'[n] = status[n]
        /\ \A t \in Tasks \ TasksOf[doing[r]] : taskStatus'[t] = taskStatus[t]
    BY <1>0, <1>6, <2>1 DEF TaskFails, TypeOK
  <2>4. CompletedMeansAllDone'
    BY <1>0, <2>1, <2>3, OwnTasksOnly
  <2>5. QED
    BY <2>2, <2>4, NotExecuting DEF SeqInv
<1>7. CASE End(r)
  <2>1. at'[r] = "idle" /\ UNCHANGED <<status, taskStatus>>
    BY <1>0, <1>7 DEF End, Leave, TypeOK, taskVars
  <2>2. CompletedMeansAllDone'
    BY <1>0, <2>1 DEF CompletedMeansAllDone
  <2>3. QED
    BY <2>1, <2>2, NotExecuting DEF SeqInv
<1>8. QED
  BY <1>1, <1>2, <1>3, <1>4, <1>5, <1>6, <1>7 DEF RunnerStep

LEMMA SequentialInvariance == Sequential /\ Spec => []SeqInv
<1> SUFFICES ASSUME Sequential PROVE Spec => []SeqInv
  OBVIOUS
<1>1. Init => SeqInv
  BY DEF Init, SeqInv, Progress, Executing, CompletedMeansAllDone
<1>2. IInv /\ SeqInv /\ [Next]_vars => SeqInv'
  <2> SUFFICES ASSUME IInv, SeqInv, [Next]_vars PROVE SeqInv'
    OBVIOUS
  <2>0. TypeOK
    BY DEF IInv
  <2>1. ASSUME NEW m \in Missions, Schedule(m) \/ Cancel(m) \/ Pause(m) \/ Resume(m) \/ Approach(m)
        PROVE  SeqInv'
    <3>1. UNCHANGED <<taskStatus, runVars>>
      BY <2>1 DEF Schedule, Cancel, Pause, Resume, Approach, taskVars
    <3>2. \A n \in Missions : status'[n] = "COMPLETED" => status[n] = "COMPLETED"
      BY <2>0, <2>1 DEF Schedule, Cancel, Pause, Resume, Approach, TypeOK
    <3>3. QED
      BY <3>1, <3>2, CallersSeqInv
  <2>2. ASSUME NEW r \in Runners, RunnerStep(r) PROVE SeqInv'
    BY <2>2, RunnerSeqInv
  <2>3. ASSUME NEW r \in Runners, Stop(r) PROVE SeqInv'
    <3>1. at'[r] = "idle" /\ UNCHANGED <<status, taskStatus>>
      BY <2>0, <2>3 DEF Stop, Leave, TypeOK, taskVars
    <3>2. QED
      BY <3>1, NotExecuting DEF SeqInv, CompletedMeansAllDone
  <2>4. ASSUME NEW r \in Runners, Start(r) PROVE SeqInv'
    BY <2>4, CallersSeqInv DEF Start, taskVars
  <2>5. CASE UNCHANGED vars
    BY <2>5, CallersSeqInv DEF vars, taskVars
  <2>6. QED
    BY <2>1, <2>2, <2>3, <2>4, <2>5 DEF Next
<1>3. QED
  BY <1>1, <1>2, Invariance, PTL DEF Spec

\* MS-1 for a sequential runner (BackgroundGoalRunner): while a task is
\* executed, every task of an earlier wave of its mission is COMPLETED,
\* whatever is paused, resumed, cancelled, retried or stopped around it.
THEOREM WavesInSequence == Sequential /\ Spec => []WaveSequence
<1>1. SeqInv /\ IInv => WaveSequence
  <2> SUFFICES ASSUME SeqInv, IInv, NEW r \in Runners, Executing(r),
                      NEW t \in TasksOf[doing[r]], Wave[t] < Wave[current[r]]
               PROVE  taskStatus[t] = "COMPLETED"
    BY DEF WaveSequence
  <2>1. /\ current[r] \in NextTasks(left[r]) /\ left[r] \subseteq TasksOf[doing[r]]
        /\ \A u \in TasksOf[doing[r]] \ left[r] : taskStatus[u] = "COMPLETED"
        /\ doing[r] \in Missions /\ current[r] \in Tasks
    BY DEF SeqInv, Progress, IInv, RunnersBusy, Executing
  <2>2. t \in Tasks /\ Wave[t] \in Nat /\ Wave[current[r]] \in Nat
    BY <2>1, SchedulerAssumption
  <2>3. t \notin left[r]
    BY <2>1, <2>2 DEF NextTasks
  <2>4. QED
    BY <2>1, <2>3
<1>2. QED
  BY <1>1, SequentialInvariance, Invariance, PTL

\* With a sequential runner, a mission that is COMPLETED has only COMPLETED
\* tasks (_execute_mission()).
THEOREM CompletionIsReal == Sequential /\ Spec => []CompletedMeansAllDone
<1>1. SeqInv => CompletedMeansAllDone
  BY DEF SeqInv
<1>2. QED
  BY <1>1, SequentialInvariance, PTL

\* _execute_mission() runs tasks in the order of their waves, and COMPLETED is
\* never reported too early.
THEOREM TasksRunInOrder == Sequential /\ Spec => []TasksInOrder
<1>1. TypeOK /\ WaveSequence /\ CompletedMeansAllDone => TasksInOrder
  BY DEF TasksInOrder
<1>2. QED
  BY <1>1, TypeCorrect, WavesInSequence, CompletionIsReal, PTL

\* The queue of GoalScheduler loses no mission, its running set no place but to
\* a stop before the try, and the limit holds.
THEOREM PlacesAreKept == Spec => []PlacesKept
<1>1. QueuedIsInQueue /\ RunningIsExecuted /\ RunningWithinLimit => PlacesKept
  BY DEF PlacesKept
<1>2. QED
  BY <1>1, NoMissionLost, NoPlaceLost, LimitHolds, PTL
-----------------------------------------------------------------------------
(* The budget. A mission may be executed by several runners at once (after *)
(* a pause and a resumption), and each of them looked at the budget before *)
(* its task.                                                               *)

\* The runners that execute a task of m.
Spenders(m) == {r \in Runners : Executing(r) /\ doing[r] = m}

\* Each of them may still add its cost c, and nothing else can be added.
WithinBound(m, c) ==
    used[m] + c * Cardinality(Spenders(m)) <= Ceiling + c * Cardinality(Runners)

Dearest(c) == c \in Costs /\ \A d \in Costs : d <= c

BudgetInv == \A m \in Missions, c \in Costs : Dearest(c) => WithinBound(m, c)

\* Products of natural numbers.
LEMMA Products ==
    ASSUME NEW c \in Nat, NEW i \in Nat, NEW j \in Nat
    PROVE  /\ c * i \in Nat /\ c * (i + 1) = c * i + c
           /\ i <= j => c * i <= c * j
<1>1. c * i \in Nat /\ c * (i + 1) = c * i + c
  OBVIOUS
<1>2. ASSUME i <= j
      PROVE  c * i <= c * j
  <2> DEFINE k == j - i
  <2>1. k \in Nat /\ j = i + k
    BY <1>2
  <2> HIDE DEF k
  <2>2. c * (i + k) = c * i + c * k /\ c * k >= 0 /\ c * i \in Int /\ c * k \in Int
    BY <2>1
  <2> QED
    BY <2>1, <2>2
<1> QED
  BY <1>1, <1>2

LEMMA SpendersAreFew ==
    ASSUME IsFiniteSet(Runners), NEW m \in Missions
    PROVE  /\ IsFiniteSet(Spenders(m)) /\ Cardinality(Spenders(m)) \in Nat
           /\ Cardinality(Runners) \in Nat /\ Cardinality(Spenders(m)) <= Cardinality(Runners)
<1>1. Spenders(m) \subseteq Runners
  BY DEF Spenders
<1> QED
  BY <1>1, FS_Subset, FS_CardinalityType

\* A budget that is not exhausted yet is within any bound.
LEMMA NotExhaustedIsWithin ==
    ASSUME IsFiniteSet(Runners), NEW m \in Missions, NEW c \in Costs,
           used'[m] \in Nat, used'[m] <= Ceiling
    PROVE  WithinBound(m, c)'
<1> DEFINE s == Cardinality(Spenders(m)')
           n == Cardinality(Runners)
<1>1. s \in Nat /\ n \in Nat /\ s <= n
  <2>1. Spenders(m)' \subseteq Runners
    BY DEF Spenders
  <2> QED
    BY <2>1, FS_Subset, FS_CardinalityType
<1>2. c \in Nat /\ Ceiling \in Nat
  BY SchedulerAssumption
<1> HIDE DEF s, n
<1>3. c * s <= c * n /\ c * s \in Nat /\ c * n \in Nat
  BY <1>1, <1>2, Products
<1>4. used'[m] + c * s <= Ceiling + c * n
  BY <1>2, <1>3
<1> QED
  BY <1>4 DEF WithinBound, s, n

\* A runner that stops executing m, whether or not it has spent the cost of the
\* task, or nobody who starts to.
LEMMA FewerSpenders ==
    ASSUME IsFiniteSet(Runners), NEW m \in Missions, NEW c \in Costs, WithinBound(m, c),
           used[m] \in Nat, used'[m] = used[m], Spenders(m)' \subseteq Spenders(m)
    PROVE  WithinBound(m, c)'
<1> DEFINE s == Cardinality(Spenders(m))
           t == Cardinality(Spenders(m)')
           n == Cardinality(Runners)
<1>1. s \in Nat /\ n \in Nat /\ t \in Nat /\ t <= s
  BY SpendersAreFew, FS_Subset, FS_CardinalityType
<1>2. c \in Nat /\ Ceiling \in Nat /\ used[m] + c * s <= Ceiling + c * n
  BY SchedulerAssumption DEF WithinBound
<1> HIDE DEF s, t, n
<1>3. c * t <= c * s /\ c * t \in Nat /\ c * s \in Nat /\ c * n \in Nat
  BY <1>1, <1>2, Products
<1>4. used[m] + c * t <= Ceiling + c * n
  BY <1>2, <1>3
<1> QED
  BY <1>4 DEF WithinBound, t, n

LEMMA SpentAndLeft ==
    ASSUME IsFiniteSet(Runners), NEW m \in Missions, NEW c \in Costs, WithinBound(m, c),
           NEW r \in Spenders(m), NEW cost \in Nat, cost <= c,
           used[m] \in Nat, used'[m] = used[m] + cost, Spenders(m)' = Spenders(m) \ {r}
    PROVE  WithinBound(m, c)'
<1> DEFINE s == Cardinality(Spenders(m))
           t == Cardinality(Spenders(m)')
           n == Cardinality(Runners)
<1>1. s \in Nat /\ n \in Nat /\ t \in Nat /\ s = t + 1
  <2>1. IsFiniteSet(Spenders(m)) /\ s \in Nat /\ n \in Nat
    BY SpendersAreFew
  <2>2. IsFiniteSet(Spenders(m) \ {r}) /\ Cardinality(Spenders(m) \ {r}) = s - 1
    BY <2>1, FS_RemoveElement
  <2>3. t \in Nat
    BY <2>2, FS_CardinalityType
  <2> QED
    BY <2>1, <2>2, <2>3
<1>2. c \in Nat /\ Ceiling \in Nat /\ used[m] + c * s <= Ceiling + c * n
  BY SchedulerAssumption DEF WithinBound
<1> HIDE DEF s, t, n
<1>3. c * s = c * t + c /\ c * t \in Nat /\ c * n \in Nat
  BY <1>1, <1>2, Products
<1>4. (used[m] + cost) + c * t <= Ceiling + c * n
  BY <1>2, <1>3
<1> QED
  BY <1>4 DEF WithinBound, t, n

\* The steps that consume no budget and start no task.
LEMMA NothingSpent ==
    ASSUME IsFiniteSet(Runners), TypeOK, BudgetInv, UNCHANGED used,
           \A r \in Runners : Executing(r)' => Executing(r) /\ doing'[r] = doing[r]
    PROVE  BudgetInv'
<1> SUFFICES ASSUME NEW m \in Missions, NEW c \in Costs, Dearest(c)
             PROVE  WithinBound(m, c)'
  BY DEF BudgetInv, Dearest
<1>1. WithinBound(m, c) /\ used[m] \in Nat /\ used'[m] = used[m]
  BY DEF BudgetInv, TypeOK
<1>2. Spenders(m)' \subseteq Spenders(m)
  BY DEF Spenders
<1> QED
  BY <1>1, <1>2, FewerSpenders

\* The head of the loop: another task starts only if the budget is not
\* exhausted, and otherwise the runner executes nothing any more.
LEMMA LoopHeadSpending ==
    ASSUME TypeOK, NEW r \in Runners, NEW m \in Missions, NEW rest, NEW ts, NextTask(r, m, rest, ts)
    PROVE  /\ \A q \in Runners \ {r} : Executing(q)' = Executing(q) /\ doing'[q] = doing[q]
           /\ ~Executing(r)' \/ (doing'[r] = doing[r] /\ ~IsExhausted(used'[m]))
<1>1. CASE PublishEnd(r)
  BY <1>1 DEF PublishEnd, TypeOK, Executing
<1>2. CASE Leave(r)
  BY <1>2 DEF Leave, TypeOK, Executing
<1>3. CASE /\ ~IsExhausted(used'[m]) /\ at' = [at EXCEPT ![r] = "task"]
           /\ UNCHANGED doing
  BY <1>3 DEF TypeOK, Executing
<1> QED
  BY <1>1, <1>2, <1>3 DEF NextTask

LEMMA BeginSpending ==
    ASSUME IsFiniteSet(Runners), IInv, BudgetInv, NEW r \in Runners, Begin(r)
    PROVE  BudgetInv'
<1> DEFINE m == doing[r]
<1>1. TypeOK /\ m \in Missions /\ UNCHANGED used
  BY DEF IInv, RunnersBusy, Begin, budgetVars
<1>2. CASE PublishEnd(r)
  <2>1. \A q \in Runners : Executing(q)' => Executing(q) /\ doing'[q] = doing[q]
    BY <1>1, <1>2 DEF PublishEnd, TypeOK, Executing
  <2> QED
    BY <1>1, <2>1, NothingSpent
<1>3. CASE NextTask(r, m, TasksOf[m], taskStatus)
  <2>1. /\ \A q \in Runners \ {r} : Executing(q)' = Executing(q) /\ doing'[q] = doing[q]
        /\ ~Executing(r)' \/ (doing'[r] = m /\ ~IsExhausted(used'[m]))
    BY <1>1, <1>3, LoopHeadSpending
  <2> SUFFICES ASSUME NEW n \in Missions, NEW c \in Costs, Dearest(c)
               PROVE  WithinBound(n, c)'
    BY DEF BudgetInv, Dearest
  <2>2. WithinBound(n, c) /\ used[n] \in Nat /\ used'[n] = used[n]
    BY <1>1 DEF BudgetInv, TypeOK
  <2>3. CASE n = m /\ Executing(r)'
    <3>1. used'[n] <= Ceiling
      BY <2>1, <2>2, <2>3, SchedulerAssumption DEF IsExhausted
    <3> QED
      BY <2>2, <3>1, NotExhaustedIsWithin
  <2>4. CASE ~(n = m /\ Executing(r)')
    <3>1. Spenders(n)' \subseteq Spenders(n)
      BY <2>1, <2>4 DEF Spenders
    <3> QED
      BY <2>2, <3>1, FewerSpenders
  <2> QED
    BY <2>3, <2>4
<1> QED
  BY <1>2, <1>3 DEF Begin

LEMMA SuccessSpending ==
    ASSUME IsFiniteSet(Runners), IInv, BudgetInv, NEW r \in Runners, NEW cost \in Costs,
           TaskSucceeds(r, cost)
    PROVE  BudgetInv'
<1> DEFINE m == doing[r]
<1>1. TypeOK /\ m \in Missions /\ Executing(r) /\ cost \in Nat
  BY SchedulerAssumption DEF IInv, RunnersBusy, TaskSucceeds, Executing
<1>2. /\ used' = [used EXCEPT ![m] = @ + cost]
      /\ NextTask(r, m, left[r] \ {current[r]}, [taskStatus EXCEPT ![current[r]] = "COMPLETED"])
  BY DEF TaskSucceeds
<1>3. /\ \A q \in Runners \ {r} : Executing(q)' = Executing(q) /\ doing'[q] = doing[q]
      /\ ~Executing(r)' \/ (doing'[r] = m /\ ~IsExhausted(used'[m]))
  BY <1>1, <1>2, LoopHeadSpending
<1> SUFFICES ASSUME NEW n \in Missions, NEW c \in Costs, Dearest(c)
             PROVE  WithinBound(n, c)'
  BY DEF BudgetInv, Dearest
<1>4. WithinBound(n, c) /\ used[n] \in Nat
  BY <1>1 DEF BudgetInv, TypeOK
<1>5. CASE n # m
  <2>1. used'[n] = used[n] /\ Spenders(n)' \subseteq Spenders(n)
    BY <1>1, <1>2, <1>3, <1>5 DEF Spenders, TypeOK
  <2> QED
    BY <1>4, <2>1, FewerSpenders
<1>6. CASE n = m /\ Executing(r)'
  <2>1. used'[n] = used[n] + cost
    BY <1>1, <1>2, <1>6 DEF TypeOK
  <2>2. used'[n] \in Nat /\ used'[n] <= Ceiling
    <3>1. used'[n] \in Nat /\ ~(used'[n] > Ceiling)
      BY <1>1, <1>3, <1>4, <1>6, <2>1 DEF IsExhausted
    <3> QED
      BY <3>1, SchedulerAssumption
  <2> QED
    BY <2>2, NotExhaustedIsWithin
<1>7. CASE n = m /\ ~Executing(r)'
  <2>1. used'[n] = used[n] + cost
    BY <1>1, <1>2, <1>7 DEF TypeOK
  <2>2. r \in Spenders(n) /\ Spenders(n)' = Spenders(n) \ {r}
    BY <1>1, <1>3, <1>7 DEF Spenders
  <2>3. cost <= c
    BY DEF Dearest
  <2> QED
    BY <1>1, <1>4, <2>1, <2>2, <2>3, SpentAndLeft
<1> QED
  BY <1>5, <1>6, <1>7

\* However often a mission is paused, resumed and run by several runners, it
\* overshoots its ceiling by at most the dearest task for each runner
\* (ExecutionBudgetManager.is_exhausted() before each task, consume() after it).
THEOREM OvershootIsBounded == IsFiniteSet(Runners) /\ Spec => []OvershootBounded
<1> SUFFICES ASSUME IsFiniteSet(Runners) PROVE Spec => []OvershootBounded
  OBVIOUS
<1>1. Init => BudgetInv
  <2> SUFFICES ASSUME Init, NEW m \in Missions, NEW c \in Costs
               PROVE  WithinBound(m, c)
    BY DEF BudgetInv
  <2>1. Spenders(m) = {} /\ used[m] = 0
    BY DEF Init, Spenders, Executing
  <2>2. Cardinality(Spenders(m)) = 0 /\ Cardinality(Runners) \in Nat
    BY <2>1, FS_EmptySet, FS_CardinalityType
  <2>3. c \in Nat /\ Ceiling \in Nat /\ c * Cardinality(Runners) \in Nat /\ c * 0 = 0
    BY <2>2, SchedulerAssumption, Products
  <2> QED
    BY <2>1, <2>2, <2>3 DEF WithinBound
<1>2. IInv /\ BudgetInv /\ [Next]_vars => BudgetInv'
  <2> SUFFICES ASSUME IInv, BudgetInv, [Next]_vars PROVE BudgetInv'
    OBVIOUS
  <2>0. TypeOK
    BY DEF IInv
  <2>1. ASSUME NEW m \in Missions, Schedule(m) \/ Cancel(m) \/ Pause(m) \/ Resume(m) \/ Approach(m)
        PROVE  BudgetInv'
    <3>1. UNCHANGED <<used, runVars>>
      BY <2>1 DEF Schedule, Cancel, Pause, Resume, Approach, budgetVars
    <3> QED
      BY <2>0, <3>1, NothingSpent DEF runVars, Executing
  <2>2. ASSUME NEW r \in Runners, RunNext(r)
        PROVE  BudgetInv'
    <3>1. /\ UNCHANGED used
          /\ \A q \in Runners : Executing(q)' => Executing(q) /\ doing'[q] = doing[q]
      BY <2>0, <2>2 DEF RunNext, TakeUp, budgetVars, runVars, TypeOK, Executing
    <3> QED
      BY <2>0, <3>1, NothingSpent
  <2>3. ASSUME NEW r \in Runners, TaskBacksOff(r) \/ TaskRetries(r)
        PROVE  BudgetInv'
    <3>1. /\ UNCHANGED used
          /\ \A q \in Runners : Executing(q)' => Executing(q) /\ doing'[q] = doing[q]
      BY <2>0, <2>3 DEF TaskBacksOff, TaskRetries, budgetVars, TypeOK, Executing
    <3> QED
      BY <2>0, <3>1, NothingSpent
  <2>4. ASSUME NEW r \in Runners, TaskFails(r) \/ End(r) \/ Stop(r)
        PROVE  BudgetInv'
    <3>1. UNCHANGED used
      BY <2>4 DEF TaskFails, End, Stop, budgetVars
    <3>2. PublishEnd(r) \/ Leave(r)
      BY <2>4 DEF TaskFails, End, Stop
    <3>3. \A q \in Runners : Executing(q)' => Executing(q) /\ doing'[q] = doing[q]
      BY <2>0, <3>2 DEF PublishEnd, Leave, TypeOK, Executing
    <3> QED
      BY <2>0, <3>1, <3>3, NothingSpent
  <2>5. ASSUME NEW r \in Runners, Start(r)
        PROVE  BudgetInv'
    BY <2>0, <2>5, NothingSpent DEF Start, runVars, budgetVars, Executing
  <2>6. CASE UNCHANGED vars
    BY <2>0, <2>6, NothingSpent DEF vars, runVars, budgetVars, Executing
  <2> QED
    BY <2>1, <2>2, <2>3, <2>4, <2>5, <2>6, BeginSpending, SuccessSpending DEF Next, RunnerStep
<1>3. IInv /\ BudgetInv => OvershootBounded
  <2> SUFFICES ASSUME IInv, BudgetInv, NEW m \in Missions, NEW c \in Costs,
                      \A d \in Costs : d <= c
               PROVE  used[m] <= Ceiling + c * Cardinality(Runners)
    BY DEF OvershootBounded
  <2>1. used[m] + c * Cardinality(Spenders(m)) <= Ceiling + c * Cardinality(Runners)
    BY DEF BudgetInv, Dearest, WithinBound
  <2>2. used[m] \in Nat /\ c \in Nat /\ Ceiling \in Nat
    BY SchedulerAssumption DEF IInv, TypeOK
  <2>3. c * Cardinality(Spenders(m)) \in Nat /\ c * Cardinality(Runners) \in Nat
    BY <2>2, SpendersAreFew, Products
  <2> QED
    BY <2>1, <2>2, <2>3
<1> QED
  BY <1>1, <1>2, <1>3, Invariance, PTL DEF Spec
=============================================================================

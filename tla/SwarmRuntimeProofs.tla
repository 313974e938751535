------------------------- MODULE SwarmRuntimeProofs -------------------------
(***************************************************************************)
(* Proofs about SwarmRuntime, for any tasks, priorities, slots and retries:*)
(* rows, objects, queue and workflows agree.                               *)
(***************************************************************************)
EXTENDS SwarmRuntime, FiniteSetTheorems, TLAPS

-----------------------------------------------------------------------------
(* The inductive invariant.                                                *)

\* What the loop, a workflow or a call has in hand is an object of the process.
InHand(t) ==
    \/ loopTask = t
    \/ \E s \in Slots : doing[s] = t
    \/ call[t] # "idle"

\* The loop and the workflows have a task exactly while they work on one, and
\* there is a slot for the one the loop is claiming.
PlacesInv ==
    /\ loopAt \in {"claim", "unallocated"} <=> loopTask # NoTask
    /\ \A s \in Slots : at[s] = "free" <=> doing[s] = NoTask
    /\ loopAt = "claim" => Free # {}

\* An object of the process is in the list, and what is in hand is an object.
ObjectsInv ==
    \A t \in Tasks :
        /\ mem[t] # "none" => t \in Queued
        /\ InHand(t) => mem[t] # "none"

\* A task without a row has version 0, one without an object expects 1; the
\* object of a task that was never saved expects 1 as well.
VersionsInv ==
    \A t \in Tasks :
        /\ row[t] = "none" => version[t] = 0
        /\ mem[t] = "none" \/ row[t] = "none" => known[t] = 1

\* The UPDATE of save x, of task t.
Updates(x, t) == put[x].op = "update" /\ put[x].task = t

\* The tasks whose versions are in order.
Sound(t) == mem[t] # "none" /\ row[t] # "none" /\ t \notin recovered \cup torn

\* What is flushed is of an object; an INSERT is the first version, an UPDATE has
\* its row and no version that the object does not know.
PutsInv ==
    \A x \in Savers : put[x].op # "none" =>
        /\ put[x].task \in Tasks /\ mem[put[x].task] # "none"
        /\ put[x].to[1] # "none"
        /\ put[x].to[1] = "Completed" => put[x].task \in succeeded
        /\ put[x].op = "insert" => put[x].version = 1 /\ put[x].from[1] = "none"
        /\ put[x].op = "update" => row[put[x].task] # "none"
        /\ \A t \in Tasks : Updates(x, t) /\ Sound(t) => put[x].version <= known[t]

\* An object is at most one version ahead of its row, and then an UPDATE is under
\* way that will bring the row there.
AheadInv ==
    \A t \in Tasks : Sound(t) =>
        /\ version[t] <= known[t] /\ known[t] <= version[t] + 1
        /\ \/ known[t] = version[t]
           \/ \E x \in Savers : Updates(x, t) /\ put[x].version = known[t]

\* Completed is written by a success only, to the object and then to the row.
SuccessInv ==
    /\ \A t \in Tasks : mem[t] = "Completed" => t \in succeeded
    /\ CompletedWasExecuted

\* Until a task is retried one of them has it: the queue, where it is Pending,
\* the loop or one workflow.
OneOwner ==
    \A t \in Tasks : retry[t] = MaxRetry =>
        /\ mem[t] = "Pending" => loopTask # t
        /\ mem[t] = "Pending" => \A s \in Slots : doing[s] # t
        /\ loopTask = t => \A s \in Slots : doing[s] # t
        /\ \A s, u \in Slots : doing[s] = t /\ doing[u] = t => s = u
        /\ \A s \in Slots : doing[s] = t => at[s] # "retrying"

SwarmInv ==
    /\ TypeOK /\ PlacesInv /\ ObjectsInv
    /\ VersionsInv /\ PutsInv /\ AheadInv
    /\ SuccessInv /\ OneOwner
-----------------------------------------------------------------------------
(* The queue.                                                              *)

\* Sorting keeps exactly the tasks that are there.
LEMMA SortKeepsTasks ==
    ASSUME NEW q \in Seq(Tasks), SortQueue(q)
    PROVE  queue' \in Seq(Tasks) /\ Queued' = {q[i] : i \in DOMAIN q}
<1>1. PICK p \in Bijection(DOMAIN q, DOMAIN q) : queue' = [i \in DOMAIN q |-> q[p[i]]]
  BY DEF SortQueue
<1>2. p \in [DOMAIN q -> DOMAIN q] /\ \A j \in DOMAIN q : \E i \in DOMAIN q : p[i] = j
  BY DEF Bijection, Surjection
<1>3. DOMAIN q = 1 .. Len(q) /\ Len(q) \in Nat /\ \A i \in DOMAIN q : q[i] \in Tasks
  OBVIOUS
<1>4. queue' \in [1 .. Len(q) -> Tasks]
  BY <1>1, <1>2, <1>3
<1>5. DOMAIN queue' = DOMAIN q /\ \A i \in DOMAIN q : queue'[i] = q[p[i]]
  BY <1>1
<1>6. queue' \in Seq(Tasks)
  BY <1>3, <1>4
<1>7. Queued' = {q[p[i]] : i \in DOMAIN q}
  BY <1>5 DEF Queued
<1>8. {q[p[i]] : i \in DOMAIN q} = {q[i] : i \in DOMAIN q}
  BY <1>2
<1> QED
  BY <1>6, <1>7, <1>8

\* enqueue() adds t and loses nothing.
LEMMA EnqueueAdds ==
    ASSUME queue \in Seq(Tasks), NEW t \in Tasks, Enqueue(t)
    PROVE  queue' \in Seq(Tasks) /\ Queued' = Queued \cup {t}
<1>1. CASE t \in Queued
  BY <1>1 DEF Enqueue, Queued
<1>2. CASE t \notin Queued
  <2> DEFINE q == Append(queue, t)
  <2>1. q \in Seq(Tasks)
    OBVIOUS
  <2>2. /\ DOMAIN queue = 1 .. Len(queue) /\ Len(queue) \in Nat /\ DOMAIN q = 1 .. Len(queue) + 1
        /\ q[Len(queue) + 1] = t /\ \A i \in DOMAIN queue : q[i] = queue[i]
    OBVIOUS
  <2>3. {q[i] : i \in DOMAIN q} = Queued \cup {t}
    BY <2>2 DEF Queued
  <2>4. SortQueue(q)
    BY <1>2 DEF Enqueue
  <2> QED
    BY <2>1, <2>3, <2>4, SortKeepsTasks
<1> QED
  BY <1>1, <1>2

\* A recovery puts exactly these tasks in the queue.
LEMMA RecoverQueues ==
    ASSUME NEW stale, Recover(stale)
    PROVE  queue' \in Seq(Tasks) /\ Queued' = PutBack(stale)
<1>1. PutBack(stale) \subseteq Tasks /\ IsFiniteSet(PutBack(stale))
  BY SwarmAssumption, FS_Subset DEF PutBack, Unfinished
<1>2. Cardinality(PutBack(stale)) \in Nat
  BY <1>1, FS_CardinalityType
<1>3. PICK q \in Bijection(1 .. Cardinality(PutBack(stale)), PutBack(stale)) : SortQueue(q)
  BY DEF Recover
<1>4. /\ q \in [1 .. Cardinality(PutBack(stale)) -> PutBack(stale)]
      /\ \A t \in PutBack(stale) : \E i \in 1 .. Cardinality(PutBack(stale)) : q[i] = t
  BY <1>3 DEF Bijection, Surjection
<1>5. q \in Seq(Tasks)
  BY <1>1, <1>2, <1>4
<1>6. {q[i] : i \in DOMAIN q} = PutBack(stale)
  BY <1>4
<1> QED
  BY <1>3, <1>5, <1>6, SortKeepsTasks
-----------------------------------------------------------------------------
(* The steps.                                                              *)

\* The object that is dequeued is Pending.
LEMMA DequeuedIsPending ==
    ASSUME TypeOK, Dequeue
    PROVE  \E t \in Tasks :
              /\ mem[t] = "Pending" /\ loopAt = "poll" /\ Free # {}
              /\ mem' = [mem EXCEPT ![t] = "Claimed"]
              /\ LoopAt("claim", t)
<1>1. PICK i \in Pending :
            /\ mem' = [mem EXCEPT ![queue[i]] = "Claimed"]
            /\ LoopAt("claim", queue[i])
  BY DEF Dequeue
<1>2. queue[i] \in Tasks /\ mem[queue[i]] = "Pending"
  BY DEF Pending, TypeOK
<1> QED
  BY <1>1, <1>2 DEF Dequeue

\* One object gets the status st.
Sets(t, st) == mem' = [mem EXCEPT ![t] = st]

\* A step other than a crash flushes or commits one save of an object, or drops
\* some, and sets the status of at most one object: to Completed after a success
\* only, and of a task that has no object only when it has no row either.
Writes ==
    \/ UNCHANGED <<table, known, put, torn>>
    \/ \E x \in Savers, t \in Tasks, e \in Nat : mem[t] # "none" /\ Flush(x, t, e)
    \/ \E x \in Savers : Commit(x)
    \/ \E D \in SUBSET Savers : Drop(D) /\ UNCHANGED <<table, known>>

SetsStatus ==
    \/ UNCHANGED mem
    \/ \E t \in Tasks, st \in Status :
          /\ Sets(t, st)
          /\ st = "Completed" => t \in succeeded'
          /\ mem[t] = "none" => row[t] = "none" /\ call'[t] # "idle"

Grows ==
    /\ succeeded \subseteq succeeded' /\ recovered' = recovered
    /\ queue' \in Seq(Tasks) /\ Queued \subseteq Queued'
    /\ \A t \in Tasks : mem'[t] # "none" => mem[t] # "none" \/ t \in Queued'

Effects == Writes /\ SetsStatus /\ Grows

\* What a workflow or the loop works on is an object.
LEMMA WorksOnObject ==
    ASSUME TypeOK, PlacesInv, ObjectsInv
    PROVE  /\ loopTask # NoTask => loopTask \in Tasks /\ mem[loopTask] # "none"
           /\ \A s \in Slots : at[s] # "free" => doing[s] \in Tasks /\ mem[doing[s]] # "none"
BY DEF TypeOK, PlacesInv, ObjectsInv, InHand

\* A save that raises drops what it has flushed.
LEMMA RaiseDrops ==
    ASSUME NEW x \in Savers, NEW t, NEW e, Raise(x, t, e)
    PROVE  \E D \in SUBSET Savers : Drop(D) /\ UNCHANGED <<table, known>>
<1>1. {x} \in SUBSET Savers
  OBVIOUS
<1> QED
  BY <1>1 DEF Raise, table

\* Every step but a crash has these effects.
LEMMA StepEffects ==
    ASSUME TypeOK, PlacesInv, ObjectsInv, [Next]_vars
    PROVE  CrashAndBoot \/ Effects
<1>a. /\ loopTask # NoTask => loopTask \in Tasks /\ mem[loopTask] # "none"
      /\ \A s \in Slots : at[s] # "free" => doing[s] \in Tasks /\ mem[doing[s]] # "none"
  BY WorksOnObject
<1>b. queue \in Seq(Tasks) /\ (UNCHANGED queue => Queued' = Queued)
  BY DEF TypeOK, Queued
<1>1. ASSUME NEW t \in Tasks, SpawnTask(t)
      PROVE  CrashAndBoot \/ Effects
  <2>1. Writes
    BY <1>1 DEF SpawnTask, Writes, object, table, saves
  <2>2. SetsStatus
    <3>1. Sets(t, "Pending") /\ "Pending" \in Status
      BY <1>1 DEF SpawnTask, Enqueue, Sets, Status
    <3>2. row[t] = "none" /\ call'[t] # "idle"
      BY <1>1 DEF SpawnTask, TypeOK
    <3> QED
      BY <3>1, <3>2 DEF SetsStatus
  <2>3. Grows
    <3>1. queue' \in Seq(Tasks) /\ Queued' = Queued \cup {t}
      BY <1>1, EnqueueAdds DEF SpawnTask, TypeOK
    <3>2. \A u \in Tasks \ {t} : mem'[u] = mem[u]
      BY <1>1 DEF SpawnTask, Enqueue, TypeOK
    <3> QED
      BY <1>1, <3>1, <3>2 DEF SpawnTask, Grows, ghosts
  <2> QED
    BY <2>1, <2>2, <2>3 DEF Effects
<1>2. ASSUME NEW t \in Tasks, CancelTask(t)
      PROVE  CrashAndBoot \/ Effects
  <2>1. Writes
    BY <1>2 DEF CancelTask, SetStatus, Writes, object, table, saves
  <2>2. SetsStatus
    <3>1. Sets(t, "Cancelled") /\ "Cancelled" \in Status
      BY <1>2 DEF CancelTask, SetStatus, Sets, Status
    <3>2. t \in Tasks /\ mem[t] # "none"
      BY <1>2, <1>a DEF CancelTask, SetStatus, PlacesInv
    <3> QED
      BY <3>1, <3>2 DEF SetsStatus
  <2>3. Grows
    BY <1>2, <1>a, <1>b, <2>2
       DEF CancelTask, SetStatus, Grows, SetsStatus, Sets, TypeOK, object, ghosts
  <2> QED
    BY <2>1, <2>2, <2>3 DEF Effects
<1>3. ASSUME NEW t \in Tasks, PauseTask(t)
      PROVE  CrashAndBoot \/ Effects
  <2>1. Writes
    BY <1>3 DEF PauseTask, SetStatus, Writes, object, table, saves
  <2>2. SetsStatus
    <3>1. Sets(t, "Waiting") /\ "Waiting" \in Status
      BY <1>3 DEF PauseTask, SetStatus, Sets, Status
    <3>2. t \in Tasks /\ mem[t] # "none"
      BY <1>3, <1>a DEF PauseTask, SetStatus, PlacesInv
    <3> QED
      BY <3>1, <3>2 DEF SetsStatus
  <2>3. Grows
    BY <1>3, <1>a, <1>b, <2>2
       DEF PauseTask, SetStatus, Grows, SetsStatus, Sets, TypeOK, object, ghosts
  <2> QED
    BY <2>1, <2>2, <2>3 DEF Effects
<1>4. ASSUME NEW t \in Tasks, ResumeTask(t)
      PROVE  CrashAndBoot \/ Effects
  <2>1. Writes
    BY <1>4 DEF ResumeTask, SetStatus, Writes, object, table, saves
  <2>2. SetsStatus
    <3>1. Sets(t, "Running") /\ "Running" \in Status
      BY <1>4 DEF ResumeTask, SetStatus, Sets, Status
    <3>2. t \in Tasks /\ mem[t] # "none"
      BY <1>4, <1>a DEF ResumeTask, SetStatus, PlacesInv
    <3> QED
      BY <3>1, <3>2 DEF SetsStatus
  <2>3. Grows
    BY <1>4, <1>a, <1>b, <2>2
       DEF ResumeTask, SetStatus, Grows, SetsStatus, Sets, TypeOK, object, ghosts
  <2> QED
    BY <2>1, <2>2, <2>3 DEF Effects
<1>5. ASSUME NEW t \in Tasks, CallFlushes(t)
      PROVE  CrashAndBoot \/ Effects
  <2>1. Writes
    <3>1. mem[t] # "none" /\ CallSave(t) \in Savers /\ callExp[t] \in Nat
      BY <1>5 DEF CallFlushes, ObjectsInv, InHand, Savers, TypeOK
    <3> QED
      BY <1>5, <3>1 DEF CallFlushes, Writes
  <2>2. SetsStatus
    BY <1>5 DEF CallFlushes, SetsStatus, object
  <2>3. Grows
    BY <1>5, <1>a, <1>b, <2>2 DEF CallFlushes, Grows, SetsStatus, Sets, TypeOK, object, ghosts
  <2> QED
    BY <2>1, <2>2, <2>3 DEF Effects
<1>22. ASSUME NEW t \in Tasks, CallReturns(t)
      PROVE  CrashAndBoot \/ Effects
  <2>1. Writes
    <3>1. CallSave(t) \in Savers
      BY DEF Savers
    <3> QED
      BY <1>22, <3>1, RaiseDrops DEF CallReturns, Writes
  <2>2. SetsStatus
    BY <1>22 DEF CallReturns, SetsStatus, object
  <2>3. Grows
    BY <1>22, <1>a, <1>b, <2>2 DEF CallReturns, Grows, SetsStatus, Sets, TypeOK, object, ghosts
  <2> QED
    BY <2>1, <2>2, <2>3 DEF Effects
<1>6. CASE Dequeue
  <2>1. Writes
    BY <1>6 DEF Dequeue, Writes, object, table, saves
  <2>2. SetsStatus
    BY <1>6, DequeuedIsPending DEF SetsStatus, Sets, Status
  <2>3. Grows
    <3>1. \A t \in Tasks : mem'[t] # "none" => mem[t] # "none"
      BY <1>6, DequeuedIsPending DEF TypeOK
    <3> QED
      BY <1>6, <1>b, <3>1 DEF Dequeue, Grows, ghosts
  <2> QED
    BY <2>1, <2>2, <2>3 DEF Effects
<1>23. CASE LoopFlushes
  <2>1. Writes
    <3>1. loopTask \in Tasks /\ mem[loopTask] # "none" /\ LoopSave \in Savers /\ loopExp \in Nat
      BY <1>23, <1>a DEF LoopFlushes, PlacesInv, Savers, TypeOK
    <3> QED
      BY <1>23, <3>1 DEF LoopFlushes, Writes
  <2>2. SetsStatus
    BY <1>23 DEF LoopFlushes, SetsStatus, object
  <2>3. Grows
    BY <1>23, <1>a, <1>b, <2>2 DEF LoopFlushes, Grows, SetsStatus, Sets, TypeOK, object, ghosts
  <2> QED
    BY <2>1, <2>2, <2>3 DEF Effects
<1>7. CASE ClaimRefused
  <2>1. Writes
    <3>1. LoopSave \in Savers
      BY DEF Savers
    <3> QED
      BY <1>7, <3>1, RaiseDrops DEF ClaimRefused, Writes
  <2>2. SetsStatus
    BY <1>7 DEF ClaimRefused, SetsStatus, object
  <2>3. Grows
    BY <1>7, <1>a, <1>b, <2>2 DEF ClaimRefused, Grows, SetsStatus, Sets, TypeOK, object, ghosts
  <2> QED
    BY <2>1, <2>2, <2>3 DEF Effects
<1>8. CASE ClaimSaved
  <2>1. Writes
    <3>1. LoopSave \in Savers
      BY DEF Savers
    <3> QED
      BY <1>8, <3>1, RaiseDrops DEF ClaimSaved, Writes
  <2>2. SetsStatus
    BY <1>8 DEF ClaimSaved, SetsStatus, object
  <2>3. Grows
    BY <1>8, <1>a, <1>b, <2>2 DEF ClaimSaved, Grows, SetsStatus, Sets, TypeOK, object, ghosts
  <2> QED
    BY <2>1, <2>2, <2>3 DEF Effects
<1>9. CASE NoAgent
  <2>1. Writes
    <3>1. LoopSave \in Savers
      BY DEF Savers
    <3> QED
      BY <1>9, <3>1, RaiseDrops DEF NoAgent, Writes
  <2>2. SetsStatus
    <3>1. Sets(loopTask, "Failed") /\ "Failed" \in Status
      BY <1>9 DEF NoAgent, Sets, Status
    <3>2. loopTask \in Tasks /\ mem[loopTask] # "none"
      BY <1>9, <1>a DEF NoAgent, PlacesInv
    <3> QED
      BY <3>1, <3>2 DEF SetsStatus
  <2>3. Grows
    <3>1. \A t \in Tasks : mem'[t] # "none" => mem[t] # "none"
      BY <1>9, <1>a DEF NoAgent, TypeOK, PlacesInv
    <3> QED
      BY <1>9, <1>b, <3>1 DEF NoAgent, Grows, ghosts
  <2> QED
    BY <2>1, <2>2, <2>3 DEF Effects
<1>10. CASE FailureSaved
  <2>1. Writes
    <3>1. LoopSave \in Savers
      BY DEF Savers
    <3> QED
      BY <1>10, <3>1, RaiseDrops DEF FailureSaved, Writes
  <2>2. SetsStatus
    BY <1>10 DEF FailureSaved, SetsStatus, object
  <2>3. Grows
    BY <1>10, <1>a, <1>b, <2>2 DEF FailureSaved, Grows, SetsStatus, Sets, TypeOK, object, ghosts
  <2> QED
    BY <2>1, <2>2, <2>3 DEF Effects
<1>11. ASSUME NEW s \in Slots, Begin(s)
      PROVE  CrashAndBoot \/ Effects
  <2>1. Writes
    BY <1>11 DEF Begin, SetAndSave, Writes, object, table, saves
  <2>2. SetsStatus
    <3>1. Sets(doing[s], "Running") /\ "Running" \in Status
      BY <1>11 DEF Begin, SetAndSave, Sets, Status
    <3>2. doing[s] \in Tasks /\ mem[doing[s]] # "none"
      BY <1>11, <1>a DEF Begin, SetAndSave, PlacesInv
    <3> QED
      BY <3>1, <3>2 DEF SetsStatus
  <2>3. Grows
    BY <1>11, <1>a, <1>b, <2>2
       DEF Begin, SetAndSave, Grows, SetsStatus, Sets, TypeOK, object, ghosts
  <2> QED
    BY <2>1, <2>2, <2>3 DEF Effects
<1>24. ASSUME NEW s \in Slots, WorkFlushes(s)
      PROVE  CrashAndBoot \/ Effects
  <2>1. Writes
    <3>1. doing[s] \in Tasks /\ mem[doing[s]] # "none" /\ WorkSave(s) \in Savers /\ exp[s] \in Nat
      BY <1>24, <1>a DEF WorkFlushes, PlacesInv, Savers, TypeOK
    <3> QED
      BY <1>24, <3>1 DEF WorkFlushes, Writes
  <2>2. SetsStatus
    BY <1>24 DEF WorkFlushes, SetsStatus, object
  <2>3. Grows
    BY <1>24, <1>a, <1>b, <2>2 DEF WorkFlushes, Grows, SetsStatus, Sets, TypeOK, object, ghosts
  <2> QED
    BY <2>1, <2>2, <2>3 DEF Effects
<1>12. ASSUME NEW s \in Slots, RunningSaved(s)
      PROVE  CrashAndBoot \/ Effects
  <2>1. Writes
    <3>1. WorkSave(s) \in Savers
      BY DEF Savers
    <3> QED
      BY <1>12, <3>1, RaiseDrops DEF RunningSaved, WorkRaises, Writes
  <2>2. SetsStatus
    BY <1>12 DEF RunningSaved, SetsStatus, object
  <2>3. Grows
    BY <1>12, <1>a, <1>b, <2>2 DEF RunningSaved, Grows, SetsStatus, Sets, TypeOK, object, ghosts
  <2> QED
    BY <2>1, <2>2, <2>3 DEF Effects
<1>13. ASSUME NEW s \in Slots, Succeed(s)
      PROVE  CrashAndBoot \/ Effects
  <2>1. Writes
    BY <1>13 DEF Succeed, SetAndSave, Writes, object, table, saves
  <2>2. SetsStatus
    <3>1. Sets(doing[s], "Completed") /\ "Completed" \in Status
      BY <1>13 DEF Succeed, SetAndSave, Sets, Status
    <3>2. doing[s] \in Tasks /\ mem[doing[s]] # "none"
      BY <1>13, <1>a DEF Succeed, SetAndSave, PlacesInv
    <3>3. doing[s] \in succeeded'
      BY <1>13 DEF Succeed
    <3> QED
      BY <3>1, <3>2, <3>3 DEF SetsStatus
  <2>3. Grows
    BY <1>13, <1>a, <1>b, <2>2
       DEF Succeed, SetAndSave, Grows, SetsStatus, Sets, TypeOK, object, ghosts
  <2> QED
    BY <2>1, <2>2, <2>3 DEF Effects
<1>14. ASSUME NEW s \in Slots, Retry(s)
      PROVE  CrashAndBoot \/ Effects
  <2>1. Writes
    BY <1>14 DEF Retry, SetAndSave, Writes, object, table, saves
  <2>2. SetsStatus
    <3>1. Sets(doing[s], "Pending") /\ "Pending" \in Status
      BY <1>14 DEF Retry, SetAndSave, Sets, Status
    <3>2. doing[s] \in Tasks /\ mem[doing[s]] # "none"
      BY <1>14, <1>a DEF Retry, SetAndSave, PlacesInv
    <3> QED
      BY <3>1, <3>2 DEF SetsStatus
  <2>3. Grows
    BY <1>14, <1>a, <1>b, <2>2
       DEF Retry, SetAndSave, Grows, SetsStatus, Sets, TypeOK, object, ghosts
  <2> QED
    BY <2>1, <2>2, <2>3 DEF Effects
<1>15. ASSUME NEW s \in Slots, GiveUp(s)
      PROVE  CrashAndBoot \/ Effects
  <2>1. Writes
    BY <1>15 DEF GiveUp, SetAndSave, Writes, object, table, saves
  <2>2. SetsStatus
    <3>1. Sets(doing[s], "Failed") /\ "Failed" \in Status
      BY <1>15 DEF GiveUp, SetAndSave, Sets, Status
    <3>2. doing[s] \in Tasks /\ mem[doing[s]] # "none"
      BY <1>15, <1>a DEF GiveUp, SetAndSave, PlacesInv
    <3> QED
      BY <3>1, <3>2 DEF SetsStatus
  <2>3. Grows
    BY <1>15, <1>a, <1>b, <2>2
       DEF GiveUp, SetAndSave, Grows, SetsStatus, Sets, TypeOK, object, ghosts
  <2> QED
    BY <2>1, <2>2, <2>3 DEF Effects
<1>16. ASSUME NEW s \in Slots, OutcomeSaved(s)
      PROVE  CrashAndBoot \/ Effects
  <2>1. Writes
    <3>1. WorkSave(s) \in Savers
      BY DEF Savers
    <3> QED
      BY <1>16, <3>1, RaiseDrops DEF OutcomeSaved, WorkRaises, Writes
  <2>2. SetsStatus
    BY <1>16 DEF OutcomeSaved, SetsStatus, object
  <2>3. Grows
    BY <1>16, <1>a, <1>b, <2>2 DEF OutcomeSaved, Grows, SetsStatus, Sets, TypeOK, object, ghosts
  <2> QED
    BY <2>1, <2>2, <2>3 DEF Effects
<1>17. ASSUME NEW s \in Slots, RetrySaved(s)
      PROVE  CrashAndBoot \/ Effects
  <2>1. Writes
    <3>1. WorkSave(s) \in Savers
      BY DEF Savers
    <3> QED
      BY <1>17, <3>1, RaiseDrops DEF RetrySaved, WorkRaises, Writes
  <2>2. SetsStatus
    <3>1. UNCHANGED mem \/ Sets(doing[s], "Pending")
      BY <1>17 DEF RetrySaved, Enqueue, Sets
    <3>2. doing[s] \in Tasks /\ mem[doing[s]] # "none" /\ "Pending" \in Status
      BY <1>17, <1>a DEF RetrySaved, Status
    <3> QED
      BY <3>1, <3>2 DEF SetsStatus
  <2>3. Grows
    <3>1. PICK t \in Tasks : t = doing[s] /\ mem[t] # "none"
      BY <1>17, <1>a DEF RetrySaved
    <3>2. queue' \in Seq(Tasks) /\ Queued \subseteq Queued'
      <4>1. CASE Enqueue(t)
        <5>1. Enqueue(t)
          BY <4>1
        <5>2. queue' \in Seq(Tasks) /\ Queued' = Queued \cup {t}
          BY <1>b, <5>1, EnqueueAdds
        <5> QED
          BY <5>2
      <4>2. CASE ~Enqueue(t)
        BY <1>17, <1>b, <3>1, <4>2 DEF RetrySaved
      <4> QED
        BY <4>1, <4>2
    <3>3. \A u \in Tasks : mem'[u] # "none" => mem[u] # "none"
      BY <1>17, <3>1 DEF RetrySaved, Enqueue, TypeOK
    <3> QED
      BY <1>17, <3>2, <3>3 DEF RetrySaved, Grows, ghosts
  <2> QED
    BY <2>1, <2>2, <2>3 DEF Effects
<1>18. CASE StopWorkerLoop
  <2>1. Writes
    <3>1. {LoopSave} \cup {WorkSave(s) : s \in Slots} \in SUBSET Savers
      BY DEF Savers
    <3> QED
      BY <1>18, <3>1 DEF StopWorkerLoop, Writes, table
  <2>2. SetsStatus
    BY <1>18 DEF StopWorkerLoop, SetsStatus, object
  <2>3. Grows
    BY <1>18, <1>a, <1>b, <2>2
       DEF StopWorkerLoop, Grows, SetsStatus, Sets, TypeOK, object, ghosts
  <2> QED
    BY <2>1, <2>2, <2>3 DEF Effects
<1>19. CASE StartWorkerLoop
  <2>1. Writes
    BY <1>19 DEF StartWorkerLoop, Writes, object, table, saves
  <2>2. SetsStatus
    BY <1>19 DEF StartWorkerLoop, SetsStatus, object
  <2>3. Grows
    BY <1>19, <1>a, <1>b, <2>2
       DEF StartWorkerLoop, Grows, SetsStatus, Sets, TypeOK, object, ghosts
  <2> QED
    BY <2>1, <2>2, <2>3 DEF Effects
<1>20. CASE CrashAndBoot
  BY <1>20
<1>21. CASE UNCHANGED vars
  BY <1>21, <1>b DEF vars, object, table, saves, ghosts, Effects, Writes, SetsStatus, Grows
<1> QED
  BY <1>1, <1>2, <1>3, <1>4, <1>5, <1>6, <1>7, <1>8, <1>9, <1>10, <1>11, <1>12, <1>13,
     <1>14, <1>15, <1>16, <1>17, <1>18, <1>19, <1>20, <1>21,
     <1>22, <1>23, <1>24 DEF Next, LoopStep, WorkStep, CallSaves

\* Rows, versions, statuses and the queue keep their types.
LEMMA EffectTypes ==
    ASSUME TypeOK, PutsInv, Effects
    PROVE  /\ row' \in [Tasks -> Status \cup {"none"}] /\ rowRetry' \in [Tasks -> 0 .. MaxRetry]
           /\ version' \in [Tasks -> Nat] /\ known' \in [Tasks -> Nat]
           /\ put' \in [Savers -> Puts] /\ torn' \subseteq Tasks
           /\ mem' \in [Tasks -> Status \cup {"none"}]
           /\ queue' \in Seq(Tasks)
<1>1. mem' \in [Tasks -> Status \cup {"none"}] /\ queue' \in Seq(Tasks)
  BY DEF Effects, SetsStatus, Sets, Grows, TypeOK
<1>2. /\ row \in [Tasks -> Status \cup {"none"}] /\ rowRetry \in [Tasks -> 0 .. MaxRetry]
      /\ version \in [Tasks -> Nat] /\ known \in [Tasks -> Nat]
      /\ put \in [Savers -> Puts] /\ torn \subseteq Tasks
      /\ mem \in [Tasks -> Status \cup {"none"}] /\ retry \in [Tasks -> 0 .. MaxRetry]
  BY DEF TypeOK
<1>3. NoPut \in Puts
  BY SwarmAssumption DEF NoPut, Puts
<1>4. CASE UNCHANGED <<table, known, put, torn>>
  BY <1>1, <1>2, <1>4 DEF table
<1>5. ASSUME NEW x \in Savers, NEW t \in Tasks, NEW e \in Nat, Flush(x, t, e)
      PROVE  /\ known' \in [Tasks -> Nat] /\ put' \in [Savers -> Puts]
             /\ UNCHANGED <<table, torn>>
  <2>1. NewPut(t) \in Puts
    BY <1>2 DEF NewPut, Puts
  <2> QED
    BY <1>2, <1>5, <2>1 DEF Flush
<1>6. ASSUME NEW x \in Savers, Commit(x)
      PROVE  /\ row' \in [Tasks -> Status \cup {"none"}] /\ rowRetry' \in [Tasks -> 0 .. MaxRetry]
             /\ version' \in [Tasks -> Nat] /\ put' \in [Savers -> Puts]
             /\ torn' \subseteq Tasks /\ UNCHANGED known
  <2>1. /\ put[x].op # "none" /\ put[x].version \in Nat
        /\ put[x].to[1] \in Status \cup {"none"} /\ put[x].to[2] \in 0 .. MaxRetry
    BY <1>2, <1>6 DEF Commit, Puts
  <2>2. put[x].task \in Tasks
    BY <2>1 DEF PutsInv
  <2>3. put' \in [Savers -> Puts] /\ torn' \subseteq Tasks /\ version' \in [Tasks -> Nat] /\ UNCHANGED known
    BY <1>2, <1>3, <1>6, <2>1, <2>2 DEF Commit
  <2>4. row' \in [Tasks -> Status \cup {"none"}]
    BY <1>2, <1>6, <2>1, <2>2 DEF Commit, Changed
  <2>5. rowRetry' \in [Tasks -> 0 .. MaxRetry]
    BY <1>2, <1>6, <2>1, <2>2 DEF Commit, Changed
  <2> QED
    BY <2>3, <2>4, <2>5
<1>7. ASSUME NEW D \in SUBSET Savers, Drop(D), UNCHANGED <<table, known>>
      PROVE  put' \in [Savers -> Puts] /\ torn' \subseteq Tasks
  <2>1. \A x \in D : put[x].op = "update" => put[x].task \in Tasks
    BY DEF PutsInv
  <2> QED
    BY <1>2, <1>3, <1>7, <2>1 DEF Drop
<1> QED
  BY <1>1, <1>2, <1>4, <1>5, <1>6, <1>7 DEF Effects, Writes, table

\* What a status change and a growing history leave as they are.
LEMMA EffectsOnObjects ==
    ASSUME TypeOK, Effects
    PROVE  /\ succeeded \subseteq succeeded' /\ recovered' = recovered
           /\ \A u \in Tasks :
                /\ mem[u] # "none" => mem'[u] # "none"
                /\ mem[u] = "none" /\ mem'[u] # "none" => row[u] = "none"
                /\ mem'[u] = "Completed" => mem[u] = "Completed" \/ u \in succeeded'
<1>1. succeeded \subseteq succeeded' /\ recovered' = recovered
  BY DEF Effects, Grows
<1>2. mem \in [Tasks -> Status \cup {"none"}]
  BY DEF TypeOK
<1> QED
  BY <1>1, <1>2 DEF Effects, SetsStatus, Sets, Status

\* A status change alone disturbs no save.
LEMMA QuietEffect ==
    ASSUME TypeOK, VersionsInv, PutsInv, AheadInv, SuccessInv, Effects,
           UNCHANGED <<table, known, put, torn>>
    PROVE  VersionsInv' /\ PutsInv' /\ AheadInv' /\ SuccessInv'
<1>1. UNCHANGED <<row, version, known, put, torn>>
  BY DEF table
<1>2. \A u \in Tasks : Sound(u)' => Sound(u)
  BY <1>1, EffectsOnObjects DEF Sound
<1>3. VersionsInv'
  BY <1>1, EffectsOnObjects DEF VersionsInv
<1>4. PutsInv'
  BY <1>1, <1>2, EffectsOnObjects DEF PutsInv, Updates
<1>5. AheadInv'
  BY <1>1, <1>2 DEF AheadInv, Updates
<1>6. SuccessInv'
  BY <1>1, EffectsOnObjects DEF SuccessInv, CompletedWasExecuted
<1> QED
  BY <1>3, <1>4, <1>5, <1>6

\* A flush takes the object one version ahead of its row, and an UPDATE with it.
LEMMA FlushEffect ==
    ASSUME TypeOK, VersionsInv, PutsInv, AheadInv, SuccessInv, Effects,
           NEW x \in Savers, NEW t \in Tasks, NEW e \in Nat, mem[t] # "none", Flush(x, t, e)
    PROVE  VersionsInv' /\ PutsInv' /\ AheadInv' /\ SuccessInv'
<1>1. /\ put' = [put EXCEPT ![x] = NewPut(t)]
      /\ known' = [known EXCEPT ![t] = IF row[t] = "none" THEN @ ELSE version[t] + 1]
      /\ UNCHANGED <<row, version, torn>>
      /\ put \in [Savers -> Puts] /\ known \in [Tasks -> Nat] /\ version \in [Tasks -> Nat]
  BY DEF Flush, TypeOK, table
<1>2. /\ put'[x] = NewPut(t) /\ \A y \in Savers \ {x} : put'[y] = put[y]
      /\ known'[t] = IF row[t] = "none" THEN known[t] ELSE version[t] + 1
      /\ \A u \in Tasks \ {t} : known'[u] = known[u]
  BY <1>1
<1>3. \A u \in Tasks : Sound(u)' => Sound(u)
  BY <1>1, EffectsOnObjects DEF Sound
<1>4. VersionsInv'
  BY <1>1, <1>2, EffectsOnObjects DEF VersionsInv
<1>5. \A u \in Tasks : known'[u] >= known[u] \/ ~Sound(u)
  BY <1>1, <1>2 DEF AheadInv, Sound
<1>6. /\ NewPut(t).task = t /\ NewPut(t).to[1] = mem[t] /\ NewPut(t).from[1] = row[t]
      /\ NewPut(t).version = version[t] + 1
      /\ NewPut(t).op = IF row[t] = "none" THEN "insert" ELSE "update"
  BY DEF NewPut
<1>7. PutsInv'
  <2>1. ASSUME NEW y \in Savers \ {x}, put[y].op # "none"
        PROVE  /\ put[y].task \in Tasks /\ mem'[put[y].task] # "none"
               /\ put[y].to[1] = "Completed" => put[y].task \in succeeded'
               /\ \A u \in Tasks : Updates(y, u)' /\ Sound(u)' => put[y].version <= known'[u]
    <3>1. \A u \in Tasks : Updates(y, u)' /\ Sound(u)' => put[y].version <= known'[u]
      <4>1. put[y].version \in Nat
        BY <1>1 DEF Puts
      <4> QED
        BY <1>1, <1>2, <1>3, <1>5, <2>1, <4>1 DEF PutsInv, Updates
    <3> QED
      BY <2>1, <3>1, EffectsOnObjects DEF PutsInv
  <2>2. /\ put'[x].task = t /\ mem'[t] # "none" /\ put'[x].to[1] # "none"
        /\ put'[x].to[1] = "Completed" => t \in succeeded'
        /\ put'[x].op = "insert" => put'[x].version = 1 /\ put'[x].from[1] = "none"
        /\ put'[x].op = "update" => row'[t] # "none"
        /\ \A u \in Tasks : Updates(x, u)' /\ Sound(u)' => put'[x].version <= known'[u]
    BY <1>1, <1>2, <1>6, EffectsOnObjects DEF Updates, SuccessInv, VersionsInv
  <2> QED
    BY <1>1, <1>2, <2>1, <2>2 DEF PutsInv
<1>8. AheadInv'
  <2>1. ASSUME NEW u \in Tasks \ {t}, Sound(u)'
        PROVE  /\ version'[u] <= known'[u] /\ known'[u] <= version'[u] + 1
               /\ \/ known'[u] = version'[u]
                  \/ \E y \in Savers : Updates(y, u)' /\ put'[y].version = known'[u]
    <3>1. \A y \in Savers : Updates(y, u) => y # x \/ put[x].op = "update"
      BY DEF Updates
    <3>2. put[x].op # "update"
      BY DEF Flush, Selected
    <3> QED
      BY <1>1, <1>2, <1>3, <2>1, <3>1, <3>2 DEF AheadInv, Updates
  <2>2. ASSUME Sound(t)'
        PROVE  /\ version'[t] <= known'[t] /\ known'[t] <= version'[t] + 1
               /\ Updates(x, t)' /\ put'[x].version = known'[t]
    BY <1>1, <1>2, <1>6, <2>2 DEF Updates, Sound
  <2> QED
    BY <2>1, <2>2 DEF AheadInv
<1>9. SuccessInv'
  BY <1>1, EffectsOnObjects DEF SuccessInv, CompletedWasExecuted
<1> QED
  BY <1>4, <1>7, <1>8, <1>9

\* A commit brings the row to the version of its UPDATE; when that is not the
\* one the object expects, another UPDATE is under way, or the task is torn.
LEMMA CommitEffect ==
    ASSUME TypeOK, VersionsInv, PutsInv, AheadInv, SuccessInv, Effects,
           NEW x \in Savers, Commit(x), NEW t, t = put[x].task, NEW v, v = put[x].version
    PROVE  VersionsInv' /\ PutsInv' /\ AheadInv' /\ SuccessInv'
<1>1. /\ put \in [Savers -> Puts] /\ known \in [Tasks -> Nat] /\ version \in [Tasks -> Nat]
      /\ row \in [Tasks -> Status \cup {"none"}] /\ torn \subseteq Tasks
  BY DEF TypeOK
<1>2. /\ put[x].op = "update" \/ (put[x].op = "insert" /\ row[t] = "none")
      /\ t \in Tasks /\ mem[t] # "none" /\ v \in Nat /\ put[x].to[1] # "none"
  BY <1>1 DEF Commit, PutsInv, Puts
<1>3. /\ put' = [put EXCEPT ![x] = NoPut] /\ version' = [version EXCEPT ![t] = v]
      /\ row' = [row EXCEPT ![t] = Changed(1, put[x], @)]
      /\ torn' = (IF v < version[t] THEN torn \cup {t} ELSE torn)
      /\ UNCHANGED known
  BY DEF Commit
<1>4. /\ put'[x].op = "none" /\ \A y \in Savers \ {x} : put'[y] = put[y]
      /\ version'[t] = v /\ \A u \in Tasks \ {t} : version'[u] = version[u] /\ row'[u] = row[u]
      /\ torn \subseteq torn'
      /\ t \notin torn' => version[t] <= v
  BY <1>1, <1>2, <1>3 DEF NoPut
<1>5. /\ row'[t] = put[x].to[1] \/ row'[t] = row[t]
      /\ row'[t] # "none"
      /\ put[x].op = "insert" => row[t] = "none" /\ v = 1
  BY <1>1, <1>2, <1>3 DEF Changed, PutsInv
<1>6. \A u \in Tasks \ {t} : Sound(u)' => Sound(u)
  BY <1>4, EffectsOnObjects DEF Sound
<1>7. Sound(t)' /\ row[t] # "none" => Sound(t)
  BY <1>2, <1>4, EffectsOnObjects DEF Sound
<1>8. VersionsInv'
  BY <1>2, <1>3, <1>4, <1>5, EffectsOnObjects DEF VersionsInv
<1>9. PutsInv'
  <2>1. ASSUME NEW y \in Savers \ {x}, put[y].op # "none"
        PROVE  /\ put[y].task \in Tasks /\ mem'[put[y].task] # "none"
               /\ put[y].to[1] = "Completed" => put[y].task \in succeeded'
               /\ put[y].op = "update" => row'[put[y].task] # "none"
               /\ \A u \in Tasks : Updates(y, u)' /\ Sound(u)' => put[y].version <= known'[u]
    <3>1. \A u \in Tasks : Updates(y, u)' /\ Sound(u)' => put[y].version <= known'[u]
      <4>1. ASSUME NEW u \in Tasks, Updates(y, u)', Sound(u)'
            PROVE  Updates(y, u) /\ Sound(u)
        BY <1>4, <1>6, <1>7, <2>1, <4>1 DEF Updates, PutsInv
      <4> QED
        BY <1>3, <2>1, <4>1 DEF PutsInv
    <3>2. put[y].op = "update" => row'[put[y].task] # "none"
      BY <1>4, <1>5, <2>1 DEF PutsInv
    <3> QED
      BY <2>1, <3>1, <3>2, EffectsOnObjects DEF PutsInv
  <2> QED
    BY <1>4, <2>1 DEF PutsInv
<1>10. AheadInv'
  <2>1. ASSUME NEW u \in Tasks \ {t}, Sound(u)'
        PROVE  /\ version'[u] <= known'[u] /\ known'[u] <= version'[u] + 1
               /\ \/ known'[u] = version'[u]
                  \/ \E y \in Savers : Updates(y, u)' /\ put'[y].version = known'[u]
    <3>1. \A y \in Savers : Updates(y, u) => y # x
      BY <2>1 DEF Updates
    <3> QED
      BY <1>3, <1>4, <1>6, <2>1, <3>1 DEF AheadInv, Updates
  <2>2. ASSUME Sound(t)'
        PROVE  /\ version'[t] <= known'[t] /\ known'[t] <= version'[t] + 1
               /\ \/ known'[t] = version'[t]
                  \/ \E y \in Savers : Updates(y, t)' /\ put'[y].version = known'[t]
    <3>1. CASE row[t] = "none"
      <4>1. known[t] = 1 /\ v = 1
        BY <1>2, <1>5, <3>1 DEF VersionsInv, PutsInv
      <4> QED
        BY <1>3, <1>4, <4>1
    <3>2. CASE row[t] # "none"
      <4>1. Sound(t) /\ Updates(x, t) /\ t \notin torn'
        BY <1>2, <1>5, <1>7, <2>2, <3>2 DEF Updates, Sound
      <4>2. /\ version[t] <= known[t] /\ known[t] <= version[t] + 1
            /\ v <= known[t] /\ version[t] <= v
            /\ known[t] \in Nat /\ version[t] \in Nat
        BY <1>1, <1>2, <1>4, <4>1 DEF AheadInv, PutsInv
      <4>3. CASE v = known[t]
        BY <1>3, <1>4, <4>2, <4>3
      <4>4. CASE v # known[t]
        <5>1. v = version[t] /\ known[t] # version[t]
          BY <1>2, <4>2, <4>4
        <5>2. PICK y \in Savers : Updates(y, t) /\ put[y].version = known[t]
          BY <1>2, <4>1, <5>1 DEF AheadInv
        <5>3. y # x
          BY <4>4, <5>2
        <5> QED
          BY <1>3, <1>4, <4>2, <5>1, <5>2, <5>3 DEF Updates
      <4> QED
        BY <4>3, <4>4
    <3> QED
      BY <3>1, <3>2
  <2> QED
    BY <2>1, <2>2 DEF AheadInv
<1>11. SuccessInv'
  <2>1. put[x].to[1] = "Completed" => t \in succeeded
    BY <1>2 DEF PutsInv
  <2> QED
    BY <1>4, <1>5, <2>1, EffectsOnObjects DEF SuccessInv, CompletedWasExecuted
<1> QED
  BY <1>8, <1>9, <1>10, <1>11

\* A lost UPDATE makes its task torn, other tasks keep theirs.
LEMMA DropEffect ==
    ASSUME TypeOK, VersionsInv, PutsInv, AheadInv, SuccessInv, Effects,
           NEW D \in SUBSET Savers, Drop(D), UNCHANGED <<table, known>>
    PROVE  VersionsInv' /\ PutsInv' /\ AheadInv' /\ SuccessInv'
<1>1. /\ put' = [x \in Savers |-> IF x \in D THEN NoPut ELSE put[x]]
      /\ torn' = torn \cup {put[x].task : x \in {y \in D : put[y].op = "update"}}
      /\ UNCHANGED <<row, version, known>>
  BY DEF Drop, table
<1>2. /\ \A x \in Savers : put'[x] = put[x] \/ put'[x].op = "none"
      /\ \A x \in Savers \ D : put'[x] = put[x]
      /\ \A x \in D, u \in Tasks : Updates(x, u) => u \in torn'
      /\ torn \subseteq torn'
  BY <1>1 DEF Updates, NoPut
<1>3. \A u \in Tasks : Sound(u)' => Sound(u)
  BY <1>1, <1>2, EffectsOnObjects DEF Sound
<1>4. VersionsInv'
  BY <1>1, EffectsOnObjects DEF VersionsInv
<1>5. PutsInv'
  BY <1>1, <1>2, <1>3, EffectsOnObjects DEF PutsInv, Updates
<1>6. AheadInv'
  <2>1. ASSUME NEW u \in Tasks, Sound(u)'
        PROVE  \A x \in Savers : Updates(x, u) => put'[x] = put[x]
    BY <1>2, <2>1 DEF Sound
  <2> QED
    BY <1>1, <1>3, <2>1 DEF AheadInv, Updates
<1>7. SuccessInv'
  BY <1>1, EffectsOnObjects DEF SuccessInv, CompletedWasExecuted
<1> QED
  BY <1>4, <1>5, <1>6, <1>7

\* Whatever a step does to saves: versions, puts and successes stay in order.
LEMMA EffectKeeps ==
    ASSUME TypeOK, VersionsInv, PutsInv, AheadInv, SuccessInv, Effects
    PROVE  VersionsInv' /\ PutsInv' /\ AheadInv' /\ SuccessInv'
<1>1. ASSUME NEW x \in Savers, Commit(x)
      PROVE  VersionsInv' /\ PutsInv' /\ AheadInv' /\ SuccessInv'
  <2>1. PICK t, v : t = put[x].task /\ v = put[x].version
    OBVIOUS
  <2> QED
    BY <1>1, <2>1, CommitEffect
<1> QED
  BY <1>1, QuietEffect, FlushEffect, DropEffect DEF Effects, Writes

\* A recovery takes objects, versions and queue from the rows.
LEMMA CrashKeeps ==
    ASSUME TypeOK, ObjectsInv, VersionsInv, SuccessInv, CrashAndBoot
    PROVE  /\ mem' \in [Tasks -> {"none", "Pending"}] /\ retry' \in [Tasks -> 0 .. MaxRetry]
           /\ row' \in [Tasks -> Status \cup {"none"}] /\ rowRetry' \in [Tasks -> 0 .. MaxRetry]
           /\ version' \in [Tasks -> Nat] /\ known' \in [Tasks -> Nat]
           /\ queue' \in Seq(Tasks) /\ recovered' \subseteq Tasks
           /\ \A t \in Tasks : mem'[t] # "none" => t \in Queued'
           /\ put' \in [Savers -> Puts] /\ torn' \subseteq Tasks
           /\ VersionsInv' /\ PutsInv' /\ AheadInv' /\ SuccessInv'
<1>1. PICK stale \in SUBSET Interrupted : Recover(stale)
  BY DEF CrashAndBoot
<1>2. stale \subseteq Tasks /\ PutBack(stale) \subseteq Tasks /\ \A t \in stale : row[t] # "none"
  BY DEF Interrupted, PutBack, Unfinished
<1>3. mem' \in [Tasks -> {"none", "Pending"}] /\ \A t \in Tasks : mem'[t] # "none" <=> t \in PutBack(stale)
  BY <1>1 DEF Recover
<1>4. rowRetry' \in [Tasks -> 0 .. MaxRetry]
  BY <1>1, SwarmAssumption DEF Recover, TypeOK
<1>5. retry' \in [Tasks -> 0 .. MaxRetry]
  BY <1>1, <1>4, SwarmAssumption DEF Recover
<1>6. row' \in [Tasks -> Status \cup {"none"}]
  BY <1>1 DEF Recover, TypeOK, Status
<1>7. version' \in [Tasks -> Nat] /\ known' \in [Tasks -> Nat]
  BY <1>1 DEF Recover, TypeOK
<1>8. queue' \in Seq(Tasks) /\ Queued' = PutBack(stale)
  BY <1>1, RecoverQueues
<1>9. recovered' \subseteq Tasks
  BY <1>1, <1>2 DEF Recover
<1>10. VersionsInv'
  BY <1>1, <1>2 DEF Recover, PutBack, Unfinished, VersionsInv, TypeOK
<1>11. /\ PutsInv' /\ put' \in [Savers -> Puts] /\ torn' \subseteq Tasks
       /\ \A x \in Savers : put'[x].op = "none"
  BY SwarmAssumption DEF CrashAndBoot, PutsInv, NoPut, Puts
<1>13. AheadInv'
  <2>1. ASSUME NEW t \in Tasks, Sound(t)'
        PROVE  known'[t] = version'[t] /\ version'[t] \in Nat
    BY <1>1, <1>2, <1>3, <1>7, <2>1 DEF Recover, Sound
  <2> QED
    BY <2>1 DEF AheadInv
<1>12. SuccessInv'
  BY <1>1, <1>3 DEF Recover, CrashAndBoot, SuccessInv, CompletedWasExecuted, TypeOK
<1> QED
  BY <1>3, <1>4, <1>5, <1>6, <1>7, <1>8, <1>9, <1>10, <1>11, <1>12, <1>13

\* The places of the loop, the workflows and the calls, and the histories.
PointTypes ==
    /\ loopAt \in LoopPoints /\ loopTask \in Tasks \cup {NoTask} /\ loopExp \in Nat
    /\ at \in [Slots -> WorkPoints] /\ doing \in [Slots -> Tasks \cup {NoTask}]
    /\ exp \in [Slots -> Nat] /\ retry \in [Tasks -> 0 .. MaxRetry]
    /\ call \in [Tasks -> CallPoints] /\ callExp \in [Tasks -> Nat]
    /\ succeeded \subseteq Tasks /\ recovered \subseteq Tasks
    /\ events \in 0 .. MaxEvents

\* The places of loop, workflows and calls keep their types.
LEMMA PointsKeepTypes ==
    ASSUME TypeOK, PlacesInv, ObjectsInv, VersionsInv, SuccessInv,
           Effects \/ CrashAndBoot, [Next]_vars
    PROVE  PointTypes'
<1> USE SwarmAssumption
       DEF TypeOK, PlacesInv, PointTypes, LoopPoints, WorkPoints, CallPoints, object,
           table, loop, workflows, api, saves, ghosts
<1>c. \A x : Commit(x) => UNCHANGED events
  BY DEF Commit
<1>r. \A x, t, e : Raise(x, t, e) => events' \in 0 .. MaxEvents
  BY DEF Raise
<1>1. ASSUME NEW t \in Tasks, SpawnTask(t)
      PROVE  PointTypes'
  BY <1>1 DEF SpawnTask
<1>2. ASSUME NEW t \in Tasks, CancelTask(t)
      PROVE  PointTypes'
  BY <1>2 DEF CancelTask, SetStatus
<1>3. ASSUME NEW t \in Tasks, PauseTask(t)
      PROVE  PointTypes'
  BY <1>3 DEF PauseTask, SetStatus
<1>4. ASSUME NEW t \in Tasks, ResumeTask(t)
      PROVE  PointTypes'
  BY <1>4 DEF ResumeTask, SetStatus
<1>5. ASSUME NEW t \in Tasks, CallFlushes(t)
      PROVE  PointTypes'
  BY <1>5 DEF CallFlushes, Flush
<1>6. CASE Dequeue
  <2>1. PICK t \in Tasks : LoopAt("claim", t)
    BY <1>6, DequeuedIsPending
  <2> QED
    BY <1>6, <2>1 DEF Dequeue, LoopAt
<1>7. CASE ClaimRefused
  BY <1>7, <1>r DEF ClaimRefused, LoopAt
<1>8. CASE ClaimSaved
  BY <1>8, <1>c, <1>r DEF ClaimSaved, LoopAt
<1>9. CASE NoAgent
  BY <1>9, <1>c DEF NoAgent, LoopAt
<1>10. CASE FailureSaved
  <2>1. events' \in 0 .. MaxEvents
    BY <1>10, <1>c, <1>r DEF FailureSaved
  <2>2. loopAt' \in LoopPoints /\ loopTask' = NoTask /\ loopExp' = 0
    BY <1>10 DEF FailureSaved, LoopAt
  <2> QED
    BY <1>10, <2>1, <2>2 DEF FailureSaved
<1>11. ASSUME NEW s \in Slots, Begin(s)
      PROVE  PointTypes'
  BY <1>11 DEF Begin, SetAndSave
<1>12. ASSUME NEW s \in Slots, RunningSaved(s)
      PROVE  PointTypes'
  <2>1. CASE Commit(WorkSave(s)) /\ at' = [at EXCEPT ![s] = "executing"] /\ UNCHANGED <<doing, exp>>
    BY <1>12, <1>c, <2>1 DEF RunningSaved
  <2>2. CASE Ends(s)
    <3>1. at' \in [Slots -> WorkPoints]
      BY <1>12, <2>2 DEF RunningSaved, Ends
    <3>2. doing' \in [Slots -> Tasks \cup {NoTask}]
      BY <1>12, <2>2 DEF RunningSaved, Ends
    <3>3. exp' \in [Slots -> Nat]
      <4>1. exp' = [exp EXCEPT ![s] = 0] /\ exp \in [Slots -> Nat]
        BY <1>12, <2>2 DEF RunningSaved, Ends
      <4> QED
        BY <4>1, SMT
    <3> QED
      BY <1>12, <1>c, <1>r, <2>2, <3>1, <3>2, <3>3 DEF RunningSaved, WorkRaises
  <2> QED
    BY <1>12, <2>1, <2>2 DEF RunningSaved
<1>13. ASSUME NEW s \in Slots, Succeed(s)
      PROVE  PointTypes'
  BY <1>13 DEF Succeed, SetAndSave
<1>14. ASSUME NEW s \in Slots, Retry(s)
      PROVE  PointTypes'
  BY <1>14 DEF Retry, SetAndSave
<1>15. ASSUME NEW s \in Slots, GiveUp(s)
      PROVE  PointTypes'
  BY <1>15 DEF GiveUp, SetAndSave
<1>16. ASSUME NEW s \in Slots, OutcomeSaved(s)
      PROVE  PointTypes'
  BY <1>16, <1>c, <1>r DEF OutcomeSaved, WorkRaises, Ends
<1>17. ASSUME NEW s \in Slots, RetrySaved(s)
      PROVE  PointTypes'
  BY <1>17, <1>c, <1>r DEF RetrySaved, WorkRaises, Ends
<1>22. ASSUME NEW t \in Tasks, CallReturns(t)
      PROVE  PointTypes'
  BY <1>22, <1>c, <1>r DEF CallReturns
<1>23. CASE LoopFlushes
  BY <1>23 DEF LoopFlushes, Flush
<1>24. ASSUME NEW s \in Slots, WorkFlushes(s)
      PROVE  PointTypes'
  BY <1>24 DEF WorkFlushes, Flush
<1>18. CASE StopWorkerLoop
  BY <1>18 DEF StopWorkerLoop, LoopAt, NoWorkflows, Drop
<1>19. CASE StartWorkerLoop
  BY <1>19 DEF StartWorkerLoop, LoopAt
<1>20. CASE CrashAndBoot
  <2>1. retry' \in [Tasks -> 0 .. MaxRetry] /\ recovered' \subseteq Tasks
    BY <1>20, CrashKeeps
  <2> QED
    BY <1>20, <2>1 DEF CrashAndBoot, LoopAt, NoWorkflows
<1>21. CASE UNCHANGED vars
  BY <1>21 DEF vars
<1> QED
  BY <1>1, <1>2, <1>3, <1>4, <1>5, <1>6, <1>7, <1>8, <1>9, <1>10, <1>11, <1>12, <1>13,
     <1>14, <1>15, <1>16, <1>17, <1>18, <1>19, <1>20, <1>21,
     <1>22, <1>23, <1>24 DEF Next, LoopStep, WorkStep, CallSaves

\* The loop and the workflows have a task exactly while they work on it.
LEMMA PlacesKept ==
    ASSUME TypeOK, PlacesInv, [Next]_vars
    PROVE  PlacesInv'
<1> USE SwarmAssumption DEF TypeOK, PlacesInv, Free, object, table, loop, workflows, api, saves, ghosts
<1>1. ASSUME NEW t \in Tasks, SpawnTask(t)
      PROVE  PlacesInv'
  BY <1>1 DEF SpawnTask
<1>2. ASSUME NEW t \in Tasks, CancelTask(t)
      PROVE  PlacesInv'
  BY <1>2 DEF CancelTask, SetStatus
<1>3. ASSUME NEW t \in Tasks, PauseTask(t)
      PROVE  PlacesInv'
  BY <1>3 DEF PauseTask, SetStatus
<1>4. ASSUME NEW t \in Tasks, ResumeTask(t)
      PROVE  PlacesInv'
  BY <1>4 DEF ResumeTask, SetStatus
<1>5. ASSUME NEW t \in Tasks, CallFlushes(t)
      PROVE  PlacesInv'
  BY <1>5 DEF CallFlushes, Flush
<1>6. CASE Dequeue
  <2>1. PICK t \in Tasks : Free # {} /\ LoopAt("claim", t)
    BY <1>6, DequeuedIsPending DEF Free
  <2>2. UNCHANGED <<at, doing>>
    BY <1>6 DEF Dequeue
  <2> QED
    BY <2>1, <2>2, SwarmAssumption DEF LoopAt
<1>7. CASE ClaimRefused
  BY <1>7 DEF ClaimRefused, LoopAt
<1>8. CASE ClaimSaved
  BY <1>8 DEF ClaimSaved, LoopAt
<1>9. CASE NoAgent
  BY <1>9 DEF NoAgent, LoopAt
<1>10. CASE FailureSaved
  BY <1>10 DEF FailureSaved, LoopAt
<1>11. ASSUME NEW s \in Slots, Begin(s)
      PROVE  PlacesInv'
  BY <1>11 DEF Begin, SetAndSave
<1>12. ASSUME NEW s \in Slots, RunningSaved(s)
      PROVE  PlacesInv'
  <2>1. CASE Commit(WorkSave(s)) /\ at' = [at EXCEPT ![s] = "executing"] /\ UNCHANGED <<doing, exp>>
    BY <1>12, <2>1 DEF RunningSaved
  <2>2. CASE Ends(s)
    BY <1>12, <2>2 DEF RunningSaved, Ends
  <2> QED
    BY <1>12, <2>1, <2>2 DEF RunningSaved
<1>13. ASSUME NEW s \in Slots, Succeed(s)
      PROVE  PlacesInv'
  BY <1>13 DEF Succeed, SetAndSave
<1>14. ASSUME NEW s \in Slots, Retry(s)
      PROVE  PlacesInv'
  BY <1>14 DEF Retry, SetAndSave
<1>15. ASSUME NEW s \in Slots, GiveUp(s)
      PROVE  PlacesInv'
  BY <1>15 DEF GiveUp, SetAndSave
<1>16. ASSUME NEW s \in Slots, OutcomeSaved(s)
      PROVE  PlacesInv'
  BY <1>16 DEF OutcomeSaved, WorkRaises, Ends
<1>17. ASSUME NEW s \in Slots, RetrySaved(s)
      PROVE  PlacesInv'
  BY <1>17 DEF RetrySaved, WorkRaises, Ends
<1>22. ASSUME NEW t \in Tasks, CallReturns(t)
      PROVE  PlacesInv'
  BY <1>22 DEF CallReturns
<1>23. CASE LoopFlushes
  BY <1>23 DEF LoopFlushes, Flush
<1>24. ASSUME NEW s \in Slots, WorkFlushes(s)
      PROVE  PlacesInv'
  BY <1>24 DEF WorkFlushes, Flush
<1>18. CASE StopWorkerLoop
  BY <1>18 DEF StopWorkerLoop, LoopAt, NoWorkflows, Drop
<1>19. CASE StartWorkerLoop
  BY <1>19 DEF StartWorkerLoop, LoopAt
<1>20. CASE CrashAndBoot
  BY <1>20 DEF CrashAndBoot, LoopAt, NoWorkflows, Recover
<1>21. CASE UNCHANGED vars
  BY <1>21 DEF vars
<1> QED
  BY <1>1, <1>2, <1>3, <1>4, <1>5, <1>6, <1>7, <1>8, <1>9, <1>10, <1>11, <1>12, <1>13,
     <1>14, <1>15, <1>16, <1>17, <1>18, <1>19, <1>20, <1>21,
     <1>22, <1>23, <1>24 DEF Next, LoopStep, WorkStep, CallSaves

\* What a step takes in hand is an object.
LEMMA HandsHoldObjects ==
    ASSUME TypeOK, PlacesInv, ObjectsInv, Effects \/ CrashAndBoot, [Next]_vars
    PROVE  \A u \in Tasks : InHand(u)' => InHand(u) \/ mem'[u] # "none"
<1> USE SwarmAssumption
       DEF TypeOK, PlacesInv, InHand, object, table, loop, workflows, api, saves, ghosts
<1>1. ASSUME NEW t \in Tasks, SpawnTask(t)
      PROVE  \A u \in Tasks : InHand(u)' => InHand(u) \/ mem'[u] # "none"
  <2>1. UNCHANGED <<loopTask, doing>> /\ mem' = [mem EXCEPT ![t] = "Pending"] /\ call' = [call EXCEPT ![t] = "spawning"]
    BY <1>1 DEF SpawnTask, Enqueue
  <2> QED
    BY <2>1
<1>2. ASSUME NEW t \in Tasks, CancelTask(t)
      PROVE  \A u \in Tasks : InHand(u)' => InHand(u) \/ mem'[u] # "none"
  BY <1>2 DEF CancelTask, SetStatus
<1>3. ASSUME NEW t \in Tasks, PauseTask(t)
      PROVE  \A u \in Tasks : InHand(u)' => InHand(u) \/ mem'[u] # "none"
  BY <1>3 DEF PauseTask, SetStatus
<1>4. ASSUME NEW t \in Tasks, ResumeTask(t)
      PROVE  \A u \in Tasks : InHand(u)' => InHand(u) \/ mem'[u] # "none"
  BY <1>4 DEF ResumeTask, SetStatus
<1>5. ASSUME NEW t \in Tasks, CallFlushes(t)
      PROVE  \A u \in Tasks : InHand(u)' => InHand(u) \/ mem'[u] # "none"
  BY <1>5 DEF CallFlushes, Flush
<1>6. CASE Dequeue
  <2>1. PICK t \in Tasks : mem' = [mem EXCEPT ![t] = "Claimed"] /\ LoopAt("claim", t)
    BY <1>6, DequeuedIsPending
  <2>2. UNCHANGED <<doing, call>>
    BY <1>6 DEF Dequeue
  <2> QED
    BY <2>1, <2>2 DEF LoopAt
<1>7. CASE ClaimRefused
  BY <1>7 DEF ClaimRefused, LoopAt
<1>8. CASE ClaimSaved
  BY <1>8 DEF ClaimSaved, LoopAt
<1>9. CASE NoAgent
  BY <1>9 DEF NoAgent, LoopAt
<1>10. CASE FailureSaved
  BY <1>10 DEF FailureSaved, LoopAt
<1>11. ASSUME NEW s \in Slots, Begin(s)
      PROVE  \A u \in Tasks : InHand(u)' => InHand(u) \/ mem'[u] # "none"
  BY <1>11 DEF Begin, SetAndSave
<1>12. ASSUME NEW s \in Slots, RunningSaved(s)
      PROVE  \A u \in Tasks : InHand(u)' => InHand(u) \/ mem'[u] # "none"
  <2>1. CASE Commit(WorkSave(s)) /\ at' = [at EXCEPT ![s] = "executing"] /\ UNCHANGED <<doing, exp>>
    BY <1>12, <2>1 DEF RunningSaved
  <2>2. CASE Ends(s)
    BY <1>12, <2>2 DEF RunningSaved, Ends
  <2> QED
    BY <1>12, <2>1, <2>2 DEF RunningSaved
<1>13. ASSUME NEW s \in Slots, Succeed(s)
      PROVE  \A u \in Tasks : InHand(u)' => InHand(u) \/ mem'[u] # "none"
  BY <1>13 DEF Succeed, SetAndSave
<1>14. ASSUME NEW s \in Slots, Retry(s)
      PROVE  \A u \in Tasks : InHand(u)' => InHand(u) \/ mem'[u] # "none"
  BY <1>14 DEF Retry, SetAndSave
<1>15. ASSUME NEW s \in Slots, GiveUp(s)
      PROVE  \A u \in Tasks : InHand(u)' => InHand(u) \/ mem'[u] # "none"
  BY <1>15 DEF GiveUp, SetAndSave
<1>16. ASSUME NEW s \in Slots, OutcomeSaved(s)
      PROVE  \A u \in Tasks : InHand(u)' => InHand(u) \/ mem'[u] # "none"
  BY <1>16 DEF OutcomeSaved, WorkRaises, Ends
<1>17. ASSUME NEW s \in Slots, RetrySaved(s)
      PROVE  \A u \in Tasks : InHand(u)' => InHand(u) \/ mem'[u] # "none"
  BY <1>17 DEF RetrySaved, WorkRaises, Ends
<1>22. ASSUME NEW t \in Tasks, CallReturns(t)
      PROVE  \A u \in Tasks : InHand(u)' => InHand(u) \/ mem'[u] # "none"
  BY <1>22 DEF CallReturns
<1>23. CASE LoopFlushes
  BY <1>23 DEF LoopFlushes, Flush
<1>24. ASSUME NEW s \in Slots, WorkFlushes(s)
      PROVE  \A u \in Tasks : InHand(u)' => InHand(u) \/ mem'[u] # "none"
  BY <1>24 DEF WorkFlushes, Flush
<1>18. CASE StopWorkerLoop
  BY <1>18 DEF StopWorkerLoop, LoopAt, NoWorkflows, Drop
<1>19. CASE StartWorkerLoop
  BY <1>19 DEF StartWorkerLoop, LoopAt
<1>20. CASE CrashAndBoot
  BY <1>20 DEF CrashAndBoot, LoopAt, NoWorkflows, Recover
<1>21. CASE UNCHANGED vars
  BY <1>21 DEF vars
<1> QED
  BY <1>1, <1>2, <1>3, <1>4, <1>5, <1>6, <1>7, <1>8, <1>9, <1>10, <1>11, <1>12, <1>13,
     <1>14, <1>15, <1>16, <1>17, <1>18, <1>19, <1>20, <1>21,
     <1>22, <1>23, <1>24 DEF Next, LoopStep, WorkStep, CallSaves

\* What is in hand stays an object of the list.
LEMMA ObjectsKept ==
    ASSUME TypeOK, PlacesInv, ObjectsInv, VersionsInv, SuccessInv, [Next]_vars
    PROVE  ObjectsInv'
<1>1. CASE Effects
  <2>1. \A u \in Tasks : mem[u] # "none" => mem'[u] # "none"
    BY <1>1 DEF Effects, SetsStatus, Sets, Status, TypeOK
  <2>2. \A u \in Tasks : mem'[u] # "none" => u \in Queued'
    BY <1>1 DEF Effects, Grows, ObjectsInv
  <2> QED
    BY <1>1, <2>1, <2>2, HandsHoldObjects DEF ObjectsInv
<1>2. CASE CrashAndBoot
  <2>1. \A t \in Tasks : mem'[t] # "none" => t \in Queued'
    BY <1>2, CrashKeeps
  <2>2. \A t \in Tasks : ~InHand(t)'
    BY <1>2, SwarmAssumption DEF CrashAndBoot, LoopAt, NoWorkflows, InHand
  <2> QED
    BY <2>1, <2>2 DEF ObjectsInv
<1> QED
  BY <1>1, <1>2, StepEffects

\* A task that was never retried changes hands, it is never shared.
LEMMA OwnerKept ==
    ASSUME TypeOK, PlacesInv, ObjectsInv, OneOwner, [Next]_vars
    PROVE  OneOwner'
<1> USE SwarmAssumption
       DEF TypeOK, PlacesInv, ObjectsInv, OneOwner, InHand, Free, object, table, loop,
           workflows, api, saves, ghosts
<1>1. ASSUME NEW t \in Tasks, SpawnTask(t)
      PROVE  OneOwner'
  <2>1. mem' = [mem EXCEPT ![t] = "Pending"] /\ mem[t] = "none" /\ UNCHANGED <<retry, loopTask, at, doing>>
    BY <1>1 DEF SpawnTask, Enqueue
  <2>2. loopTask # t /\ \A s \in Slots : doing[s] # t
    BY <2>1
  <2>3. \A u \in Tasks \ {t} : mem'[u] = mem[u]
    BY <2>1
  <2> QED
    BY <2>1, <2>2, <2>3
<1>2. ASSUME NEW t \in Tasks, CancelTask(t)
      PROVE  OneOwner'
  BY <1>2 DEF CancelTask, SetStatus
<1>3. ASSUME NEW t \in Tasks, PauseTask(t)
      PROVE  OneOwner'
  BY <1>3 DEF PauseTask, SetStatus
<1>4. ASSUME NEW t \in Tasks, ResumeTask(t)
      PROVE  OneOwner'
  BY <1>4 DEF ResumeTask, SetStatus
<1>5. ASSUME NEW t \in Tasks, CallFlushes(t)
      PROVE  OneOwner'
  BY <1>5 DEF CallFlushes, Flush
<1>6. CASE Dequeue
  <2>1. PICK t \in Tasks : /\ mem[t] = "Pending"
                           /\ mem' = [mem EXCEPT ![t] = "Claimed"] /\ loopTask' = t
    BY <1>6, DequeuedIsPending DEF LoopAt
  <2>2. UNCHANGED <<retry, at, doing>>
    BY <1>6 DEF Dequeue
  <2>3. \A u \in Tasks : mem'[u] = "Pending" => u # t /\ mem[u] = "Pending"
    BY <2>1
  <2> QED
    BY <2>1, <2>2, <2>3
<1>7. CASE ClaimRefused
  BY <1>7 DEF ClaimRefused, LoopAt
<1>8. CASE ClaimSaved
  BY <1>8 DEF ClaimSaved, LoopAt
<1>9. CASE NoAgent
  BY <1>9 DEF NoAgent, LoopAt
<1>10. CASE FailureSaved
  BY <1>10 DEF FailureSaved, LoopAt
<1>11. ASSUME NEW s \in Slots, Begin(s)
      PROVE  OneOwner'
  BY <1>11 DEF Begin, SetAndSave
<1>12. ASSUME NEW s \in Slots, RunningSaved(s)
      PROVE  OneOwner'
  <2>1. CASE Commit(WorkSave(s)) /\ at' = [at EXCEPT ![s] = "executing"] /\ UNCHANGED <<doing, exp>>
    BY <1>12, <2>1 DEF RunningSaved
  <2>2. CASE Ends(s)
    <3>1. /\ UNCHANGED <<mem, retry, loopTask>> /\ at' = [at EXCEPT ![s] = "free"]
          /\ doing' = [doing EXCEPT ![s] = NoTask]
      BY <1>12, <2>2 DEF RunningSaved, Ends
    <3> QED
      BY <3>1
  <2> QED
    BY <1>12, <2>1, <2>2 DEF RunningSaved
<1>13. ASSUME NEW s \in Slots, Succeed(s)
      PROVE  OneOwner'
  BY <1>13 DEF Succeed, SetAndSave
<1>14. ASSUME NEW s \in Slots, Retry(s)
      PROVE  OneOwner'
  BY <1>14 DEF Retry, SetAndSave
<1>15. ASSUME NEW s \in Slots, GiveUp(s)
      PROVE  OneOwner'
  BY <1>15 DEF GiveUp, SetAndSave
<1>16. ASSUME NEW s \in Slots, OutcomeSaved(s)
      PROVE  OneOwner'
  BY <1>16 DEF OutcomeSaved, WorkRaises, Ends
<1>17. ASSUME NEW s \in Slots, RetrySaved(s)
      PROVE  OneOwner'
  <2>1. doing[s] \in Tasks /\ retry[doing[s]] # MaxRetry
    BY <1>17 DEF RetrySaved
  <2>2. UNCHANGED <<retry, loopTask>> /\ \A u \in Tasks : u # doing[s] => mem'[u] = mem[u]
    BY <1>17 DEF RetrySaved, Enqueue
  <2>3. /\ at' = [at EXCEPT ![s] = "free"] /\ doing' = [doing EXCEPT ![s] = NoTask]
    BY <1>17 DEF RetrySaved, Ends
  <2> QED
    BY <2>1, <2>2, <2>3
<1>22. ASSUME NEW t \in Tasks, CallReturns(t)
      PROVE  OneOwner'
  BY <1>22 DEF CallReturns
<1>23. CASE LoopFlushes
  BY <1>23 DEF LoopFlushes, Flush
<1>24. ASSUME NEW s \in Slots, WorkFlushes(s)
      PROVE  OneOwner'
  BY <1>24 DEF WorkFlushes, Flush
<1>18. CASE StopWorkerLoop
  BY <1>18 DEF StopWorkerLoop, LoopAt, NoWorkflows, Drop
<1>19. CASE StartWorkerLoop
  BY <1>19 DEF StartWorkerLoop, LoopAt
<1>20. CASE CrashAndBoot
  BY <1>20 DEF CrashAndBoot, LoopAt, NoWorkflows, Recover
<1>21. CASE UNCHANGED vars
  BY <1>21 DEF vars
<1> QED
  BY <1>1, <1>2, <1>3, <1>4, <1>5, <1>6, <1>7, <1>8, <1>9, <1>10, <1>11, <1>12, <1>13,
     <1>14, <1>15, <1>16, <1>17, <1>18, <1>19, <1>20, <1>21,
     <1>22, <1>23, <1>24 DEF Next, LoopStep, WorkStep, CallSaves

\* A fresh process and an empty table are in the invariant.
LEMMA SwarmInit == Init => SwarmInv
<1> SUFFICES ASSUME Init PROVE SwarmInv
  OBVIOUS
<1> USE SwarmAssumption DEF Init
<1>1. TypeOK
  BY DEF TypeOK, Status, LoopPoints, WorkPoints, CallPoints, NoPut, Puts
<1>2. PlacesInv /\ ObjectsInv
  BY DEF PlacesInv, ObjectsInv, InHand
<1>3. VersionsInv /\ PutsInv /\ AheadInv /\ SuccessInv
  BY DEF VersionsInv, PutsInv, AheadInv, Sound, NoPut, SuccessInv, CompletedWasExecuted
<1>4. OneOwner
  BY DEF OneOwner
<1> QED
  BY <1>1, <1>2, <1>3, <1>4 DEF SwarmInv

\* Every step keeps the invariant.
LEMMA SwarmNext == SwarmInv /\ [Next]_vars => SwarmInv'
<1> SUFFICES ASSUME SwarmInv, [Next]_vars PROVE SwarmInv'
  OBVIOUS
<1> USE DEF SwarmInv
<1>1. Effects \/ CrashAndBoot
  BY StepEffects
<1>2. TypeOK'
  <2>1. PointTypes'
    BY <1>1, PointsKeepTypes
  <2>2. CASE Effects
    BY <2>1, <2>2, EffectTypes DEF TypeOK, PointTypes
  <2>3. CASE CrashAndBoot
    <3>1. mem' \in [Tasks -> Status \cup {"none"}]
      BY <2>3, CrashKeeps DEF Status
    <3> QED
      BY <2>1, <2>3, <3>1, CrashKeeps DEF TypeOK, PointTypes
  <2> QED
    BY <1>1, <2>2, <2>3
<1>3. PlacesInv' /\ ObjectsInv' /\ OneOwner'
  BY PlacesKept, ObjectsKept, OwnerKept
<1>4. VersionsInv' /\ PutsInv' /\ AheadInv' /\ SuccessInv'
  BY <1>1, EffectKeeps, CrashKeeps
<1> QED
  BY <1>2, <1>3, <1>4

\* One owner is at most one workflow that executes the task.
LEMMA OwnerClaimsOnce == OneOwner => ClaimedOnce
<1> SUFFICES ASSUME OneOwner, NEW t \in Tasks, retry[t] = MaxRetry
             PROVE  Cardinality(Executing(t)) <= 1
  BY DEF ClaimedOnce
<1>1. \A s, u \in Executing(t) : s = u
  BY DEF OneOwner, Executing
<1>2. CASE Executing(t) = {}
  BY <1>2, FS_EmptySet
<1>3. CASE Executing(t) # {}
  <2>1. PICK s : Executing(t) = {s}
    BY <1>1, <1>3
  <2>2. Cardinality(Executing(t)) = 1
    BY <2>1, FS_Singleton, Zenon
  <2> QED
    BY <2>2
<1> QED
  BY <1>2, <1>3

\* The rows, the objects, the queue and the workflows of a swarm agree in every
\* state: Completed is written after a success only, an object expects the
\* version of its row or of an UPDATE under way unless it was recovered or a save
\* of it lost or overtaken, what is Pending is in the queue, and a task that was
\* never retried has one workflow at most.
THEOREM SwarmIsConsistent == Spec => []SwarmConsistent
<1>1. SwarmInv => SwarmConsistent
  <2>1. SwarmInv => PendingIsQueued
    BY DEF SwarmInv, ObjectsInv, PendingIsQueued
  <2>2. SwarmInv => MemoryIsCurrent
    BY DEF SwarmInv, AheadInv, Sound, Updates, MemoryIsCurrent
  <2> QED
    BY <2>1, <2>2, OwnerClaimsOnce DEF SwarmInv, SuccessInv, SwarmConsistent
<1> QED
  BY <1>1, SwarmInit, SwarmNext, PTL DEF Spec
=============================================================================

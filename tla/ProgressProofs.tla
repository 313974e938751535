--------------------------- MODULE ProgressProofs ----------------------------
(***************************************************************************)
(* Proofs about components of MCProgress. DependencyResolver, for every    *)
(* finite set of tasks and all depends_on lists: the algorithm is right    *)
(* because in_degree counts, at the head of the loop, exactly the edges    *)
(* from tasks that are not in a wave yet; a task becomes ready when that   *)
(* set of edges is empty. ToolWaves, for every finite set of tool calls:   *)
(* what a wave reports is what its calls did.                              *)
(***************************************************************************)
EXTENDS DependencyResolver, ToolWaves, FiniteSetTheorems, TLAPS

-----------------------------------------------------------------------------
(* The dependency resolver.                                                *)

\* The edges are the listed entries with a known dependency.
EdgesAreKnown == adj = Known(listed)

\* in_degree counts the edges from tasks that are still to be placed.
DegreeCounts ==
    \A t \in Tasks : inDegree[t] = Cardinality(EdgesFrom(Tasks \ queued, t))

\* ready holds exactly the tasks to be placed that wait for nothing.
ReadyIsFree ==
    /\ ready \subseteq Tasks \ queued
    /\ \A t \in Tasks \ queued : inDegree[t] = 0 => t \in ready
    /\ \A t \in ready : inDegree[t] = 0

\* queued holds exactly the tasks of the waves.
QueuedIsPlaced ==
    \A t \in Tasks : t \in queued <=> \E n \in DOMAIN waves : t \in waves[n]

\* No task of a circle is ever placed.
CirclesWait == \A S \in SUBSET Tasks : WaitInCircle(S) => S \cap queued = {}

\* A task that is ready now was waiting for the last wave.
ReadySinceLastWave ==
    waves # <<>> => \A t \in ready : \E d \in DependsOn(t) : d \in waves[Len(waves)]

IInv ==
    /\ TypeOK
    /\ EdgesAreKnown
    /\ DegreeCounts
    /\ ReadyIsFree
    /\ QueuedIsPlaced
    /\ CirclesWait
    /\ ReadySinceLastWave
    /\ WavesRespectDependencies
    /\ WavesAreEarliest
    /\ CycleIffCyclic

-----------------------------------------------------------------------------
\* The edges from S into t are the entries of t that name a task of S.
LEMMA EdgesAreDependencies ==
    ASSUME TypeOK, EdgesAreKnown, NEW t \in Tasks, NEW S \in SUBSET Tasks
    PROVE  /\ IsFiniteSet(EdgesFrom(S, t))
           /\ Cardinality(EdgesFrom(S, t)) \in Nat
           /\ EdgesFrom(S, t) = {} <=> DependsOn(t) \cap S = {}
           /\ Cardinality(EdgesFrom(S, t)) = 0 <=> DependsOn(t) \cap S = {}
<1>1. IsFiniteSet(EdgesFrom(S, t))
  <2>1. EdgesFrom(S, t) \in SUBSET listed
    BY DEF EdgesFrom, EdgesAreKnown, Known
  <2>2. QED
    BY <2>1, FS_Subset DEF TypeOK
<1>2. Cardinality(EdgesFrom(S, t)) \in Nat
  BY <1>1, FS_CardinalityType
<1>3. EdgesFrom(S, t) = {} <=> DependsOn(t) \cap S = {}
  BY DEF EdgesFrom, EdgesAreKnown, Known, DependsOn
<1>4. QED
  BY <1>1, <1>2, <1>3, FS_EmptySet

\* What placing the ready tasks does to a task's count of edges.
LEMMA PlacingTakesEdgesOff ==
    ASSUME TypeOK, EdgesAreKnown, ReadyIsFree, NEW t \in Tasks
    PROVE  Cardinality(EdgesFrom(Tasks \ (queued \cup ready), t)) =
             Cardinality(EdgesFrom(Tasks \ queued, t)) - Cardinality(EdgesFrom(ready, t))
<1>1. EdgesFrom(Tasks \ (queued \cup ready), t) =
        EdgesFrom(Tasks \ queued, t) \ EdgesFrom(ready, t)
  BY DEF EdgesFrom
<1>2. EdgesFrom(Tasks \ queued, t) \cap EdgesFrom(ready, t) = EdgesFrom(ready, t)
  BY DEF EdgesFrom, ReadyIsFree
<1>3. IsFiniteSet(EdgesFrom(Tasks \ queued, t))
  BY EdgesAreDependencies
<1>4. QED
  BY <1>1, <1>2, <1>3, FS_Difference

\* A ready task depends on placed tasks only.
LEMMA ReadyDependsOnPlaced ==
    ASSUME TypeOK, EdgesAreKnown, DegreeCounts, ReadyIsFree, NEW t \in ready
    PROVE  DependsOn(t) \subseteq queued
<1>1. t \in Tasks /\ inDegree[t] = 0
  BY DEF ReadyIsFree
<1>2. DependsOn(t) \cap (Tasks \ queued) = {}
  BY <1>1, EdgesAreDependencies DEF DegreeCounts
<1>3. QED
  BY <1>2 DEF DependsOn

LEMMA InitIInv == Init => IInv
<1> SUFFICES ASSUME Init PROVE IInv
  OBVIOUS
<1> USE DEF Init
<1>1. EdgesAreKnown
  BY DEF EdgesAreKnown
<1>2. \A t \in Tasks : {e \in adj : e.task = t} = EdgesFrom(Tasks, t)
  BY DEF EdgesFrom, Known
<1>3. \A t \in Tasks : Cardinality(EdgesFrom(Tasks, t)) \in Nat
  <2> SUFFICES ASSUME NEW t \in Tasks PROVE Cardinality(EdgesFrom(Tasks, t)) \in Nat
    OBVIOUS
  <2>1. EdgesFrom(Tasks, t) \in SUBSET listed
    BY DEF EdgesFrom, Known
  <2>2. QED
    BY <2>1, FS_Subset, FS_CardinalityType
<1>4. TypeOK
  <2>1. inDegree \in [Tasks -> Nat]
    BY <1>2, <1>3
  <2>2. adj \subseteq Entries /\ waves \in Seq(SUBSET Tasks)
    BY DEF Known
  <2>3. QED
    BY <2>1, <2>2 DEF TypeOK
<1>5. DegreeCounts
  BY <1>2 DEF DegreeCounts
<1>6. ReadyIsFree
  BY DEF ReadyIsFree
<1>7. QueuedIsPlaced /\ CirclesWait /\ ReadySinceLastWave
  BY DEF QueuedIsPlaced, CirclesWait, ReadySinceLastWave
<1>8. WavesRespectDependencies /\ WavesAreEarliest /\ CycleIffCyclic
  BY DEF WavesRespectDependencies, WavesAreEarliest, CycleIffCyclic
<1>9. QED
  BY <1>1, <1>4, <1>5, <1>6, <1>7, <1>8 DEF IInv

LEMMA AddWaveIInv == IInv /\ AddWave => IInv'
<1> SUFFICES ASSUME IInv, AddWave PROVE IInv'
  OBVIOUS
<1>0. TypeOK /\ EdgesAreKnown /\ DegreeCounts /\ ReadyIsFree
  BY DEF IInv
<1>1. queued' = queued \cup ready /\ adj' = adj /\ listed' = listed /\ outcome' = outcome
  BY DEF AddWave
<1>2. ready \subseteq Tasks /\ queued \subseteq Tasks
  BY <1>0 DEF TypeOK
<1>3. \A t \in Tasks : DependsOn(t)' = DependsOn(t)
  BY <1>1 DEF DependsOn
<1>4. EdgesAreKnown'
  BY <1>0, <1>1 DEF EdgesAreKnown, Known
<1>5. DegreeCounts' /\ \A t \in Tasks : inDegree'[t] \in Nat
  <2> SUFFICES ASSUME NEW t \in Tasks
               PROVE  /\ inDegree'[t] = Cardinality(EdgesFrom(Tasks \ queued, t)')
                      /\ inDegree'[t] \in Nat
    BY DEF DegreeCounts
  <2>1. inDegree'[t] = inDegree[t] - Cardinality(EdgesFrom(ready, t))
    BY DEF AddWave
  <2>2. inDegree[t] = Cardinality(EdgesFrom(Tasks \ queued, t))
    BY <1>0 DEF DegreeCounts
  <2>3. EdgesFrom(Tasks \ queued, t)' = EdgesFrom(Tasks \ (queued \cup ready), t)
    BY <1>1 DEF EdgesFrom
  <2>4. Cardinality(EdgesFrom(Tasks \ (queued \cup ready), t)) \in Nat
    BY <1>0, EdgesAreDependencies
  <2>5. QED
    BY <1>0, <2>1, <2>2, <2>3, <2>4, PlacingTakesEdgesOff
<1>6. TypeOK'
  <2>1. inDegree' \in [Tasks -> Nat]
    BY <1>5 DEF AddWave
  <2>2. waves' \in Seq(SUBSET Tasks)
    BY <1>0, <1>2 DEF AddWave, TypeOK
  <2>3. ready' \subseteq Tasks /\ queued' \subseteq Tasks
    BY <1>1, <1>2 DEF AddWave
  <2>4. QED
    BY <1>0, <1>1, <2>1, <2>2, <2>3 DEF TypeOK
<1>7. ReadyIsFree'
  <2>1. ready' \subseteq Tasks \ queued' /\ \A t \in ready' : inDegree'[t] = 0
    BY DEF AddWave
  <2>2. ASSUME NEW t \in Tasks \ queued', inDegree'[t] = 0
        PROVE  t \in ready'
    <3>1. t \in Tasks \ queued /\ t \notin ready
      BY <1>1
    <3>2. inDegree[t] # 0
      BY <1>0, <3>1 DEF ReadyIsFree
    <3>3. inDegree'[t] = inDegree[t] - Cardinality(EdgesFrom(ready, t))
      BY DEF AddWave
    <3>4. EdgesFrom(ready, t) # {}
      <4>1. inDegree[t] \in Nat
        BY <1>0 DEF TypeOK
      <4>2. Cardinality(EdgesFrom(ready, t)) # 0
        BY <2>2, <3>2, <3>3, <4>1
      <4>3. QED
        BY <4>2, FS_EmptySet
    <3>5. QED
      BY <2>2, <3>4 DEF AddWave
  <2>3. QED
    BY <2>1, <2>2 DEF ReadyIsFree
<1>8. waves \in Seq(SUBSET Tasks) /\ Len(waves) \in Nat
  BY <1>0 DEF TypeOK
<1>9. /\ DOMAIN waves' = 1..(Len(waves) + 1) /\ Len(waves') = Len(waves) + 1
      /\ DOMAIN waves = 1..Len(waves)
      /\ waves'[Len(waves) + 1] = ready
      /\ \A n \in DOMAIN waves : waves'[n] = waves[n]
  BY <1>2, <1>8 DEF AddWave
<1>10. QueuedIsPlaced'
  <2> SUFFICES ASSUME NEW t \in Tasks
               PROVE  t \in queued' <=> \E n \in DOMAIN waves' : t \in waves'[n]
    BY DEF QueuedIsPlaced
  <2>1. t \in queued <=> \E n \in DOMAIN waves : t \in waves[n]
    BY DEF IInv, QueuedIsPlaced
  <2>2. QED
    BY <1>1, <1>8, <1>9, <2>1
<1>11. \A t \in ready : DependsOn(t) \subseteq queued
  BY <1>0, ReadyDependsOnPlaced
<1>12. CirclesWait'
  <2> SUFFICES ASSUME NEW S \in SUBSET Tasks, WaitInCircle(S)'
               PROVE  S \cap queued' = {}
    BY DEF CirclesWait
  <2>1. WaitInCircle(S)
    BY <1>3 DEF WaitInCircle
  <2>2. S \cap queued = {}
    BY <2>1 DEF IInv, CirclesWait
  <2>3. S \cap ready = {}
    BY <1>11, <2>1, <2>2 DEF WaitInCircle
  <2>4. QED
    BY <1>1, <2>2, <2>3
<1>13. ReadySinceLastWave'
  <2> SUFFICES ASSUME NEW t \in ready'
               PROVE  \E d \in DependsOn(t)' : d \in waves'[Len(waves')]
    BY DEF ReadySinceLastWave
  <2>1. t \in Tasks /\ EdgesFrom(ready, t) # {}
    BY DEF AddWave
  <2>2. DependsOn(t) \cap ready # {}
    BY <1>0, <1>2, <2>1, EdgesAreDependencies
  <2>3. QED
    BY <1>3, <1>9, <2>1, <2>2
<1>14. WavesRespectDependencies'
  <2> SUFFICES ASSUME NEW n \in DOMAIN waves', NEW t \in waves'[n], NEW d \in DependsOn(t)'
               PROVE  \E k \in 1..(n - 1) : d \in waves'[k]
    BY DEF WavesRespectDependencies
  <2>1. t \in Tasks
    BY <1>2, <1>8, <1>9
  <2>2. d \in DependsOn(t) /\ d \in Tasks
    BY <1>3, <2>1 DEF DependsOn
  <2>3. CASE n = Len(waves) + 1
    <3>1. d \in queued
      BY <1>9, <1>11, <2>2, <2>3
    <3>2. PICK k \in DOMAIN waves : d \in waves[k]
      BY <2>2, <3>1 DEF IInv, QueuedIsPlaced
    <3>3. QED
      BY <1>8, <1>9, <2>3, <3>2
  <2>4. CASE n # Len(waves) + 1
    <3>1. n \in DOMAIN waves /\ t \in waves[n]
      BY <1>8, <1>9, <2>4
    <3>2. PICK k \in 1..(n - 1) : d \in waves[k]
      BY <2>2, <3>1 DEF IInv, WavesRespectDependencies
    <3>3. QED
      BY <1>8, <1>9, <3>1, <3>2
  <2>5. QED
    BY <2>3, <2>4
<1>15. WavesAreEarliest'
  <2> SUFFICES ASSUME NEW n \in DOMAIN waves', NEW t \in waves'[n], n > 1
               PROVE  \E d \in DependsOn(t)' : d \in waves'[n - 1]
    BY DEF WavesAreEarliest
  <2>1. t \in Tasks
    BY <1>2, <1>8, <1>9
  <2>2. CASE n = Len(waves) + 1
    <3>1. t \in ready /\ waves # <<>> /\ n - 1 = Len(waves) /\ Len(waves) \in DOMAIN waves
      BY <1>8, <1>9, <2>2
    <3>2. \E d \in DependsOn(t) : d \in waves[Len(waves)]
      BY <3>1 DEF IInv, ReadySinceLastWave
    <3>3. QED
      BY <1>3, <1>9, <2>1, <3>1, <3>2
  <2>3. CASE n # Len(waves) + 1
    <3>1. n \in DOMAIN waves /\ n - 1 \in DOMAIN waves /\ t \in waves[n]
      BY <1>8, <1>9, <2>3
    <3>2. \E d \in DependsOn(t) : d \in waves[n - 1]
      BY <3>1 DEF IInv, WavesAreEarliest
    <3>3. QED
      BY <1>3, <1>9, <2>1, <3>1, <3>2
  <2>4. QED
    BY <2>2, <2>3
<1>16. CycleIffCyclic'
  BY DEF AddWave, CycleIffCyclic
<1>17. QED
  BY <1>4, <1>5, <1>6, <1>7, <1>10, <1>12, <1>13, <1>14, <1>15, <1>16 DEF IInv

LEMMA FinishIInv == IInv /\ Finish => IInv'
<1> SUFFICES ASSUME IInv, Finish PROVE IInv'
  OBVIOUS
<1>0. TypeOK /\ EdgesAreKnown /\ DegreeCounts /\ ReadyIsFree
  BY DEF IInv
<1>1. UNCHANGED <<listed, adj, inDegree, ready, queued, waves>> /\ ready = {}
  BY DEF Finish
<1>2. \A t \in Tasks : DependsOn(t)' = DependsOn(t)
  BY <1>1 DEF DependsOn
<1>3. \A S \in SUBSET Tasks : WaitInCircle(S)' <=> WaitInCircle(S)
  BY <1>2 DEF WaitInCircle
<1>4. TypeOK'
  BY <1>0, <1>1 DEF TypeOK, Finish
<1>5. EdgesAreKnown' /\ DegreeCounts' /\ ReadyIsFree' /\ QueuedIsPlaced'
  BY <1>1 DEF IInv, EdgesAreKnown, DegreeCounts, ReadyIsFree, QueuedIsPlaced, Known, EdgesFrom
<1>6. CirclesWait'
  BY <1>1, <1>3 DEF IInv, CirclesWait
<1>7. ReadySinceLastWave' /\ WavesRespectDependencies' /\ WavesAreEarliest'
  BY <1>1 DEF IInv, ReadySinceLastWave, WavesRespectDependencies, WavesAreEarliest, DependsOn
<1>8. CycleIffCyclic'
  <2>1. CASE queued = Tasks
    <3>1. ~Cyclic'
      BY <1>3, <2>1 DEF IInv, CirclesWait, Cyclic
    <3>2. QED
      BY <1>1, <2>1, <3>1 DEF Finish, CycleIffCyclic
  <2>2. CASE queued # Tasks
    <3>1. Tasks \ queued \in (SUBSET Tasks) \ {{}}
      BY <1>0, <2>2 DEF TypeOK
    <3>2. WaitInCircle(Tasks \ queued)
      <4> SUFFICES ASSUME NEW t \in Tasks \ queued
                   PROVE  DependsOn(t) \cap (Tasks \ queued) # {}
        BY DEF WaitInCircle
      <4>1. inDegree[t] # 0
        BY <1>0, <1>1 DEF ReadyIsFree
      <4>2. QED
        BY <1>0, <4>1, EdgesAreDependencies DEF DegreeCounts
    <3>3. Cyclic'
      BY <1>3, <3>1, <3>2 DEF Cyclic
    <3>4. QED
      BY <2>2, <3>3 DEF Finish, CycleIffCyclic
  <2>3. QED
    BY <2>1, <2>2
<1>9. QED
  BY <1>4, <1>5, <1>6, <1>7, <1>8 DEF IInv

\* IInv holds in every state of every run of resolve().
THEOREM Invariance == Spec => []IInv
<1>1. Init => IInv
  BY InitIInv
<1>2. IInv /\ [Next]_vars => IInv'
  <2> SUFFICES ASSUME IInv, [Next]_vars PROVE IInv'
    OBVIOUS
  <2>1. CASE AddWave
    BY <2>1, AddWaveIInv
  <2>2. CASE Finish
    BY <2>2, FinishIInv
  <2>3. CASE UNCHANGED vars
    <3>1. TypeOK' /\ EdgesAreKnown' /\ ReadyIsFree' /\ QueuedIsPlaced'
      BY <2>3 DEF vars, IInv, TypeOK, EdgesAreKnown, ReadyIsFree, QueuedIsPlaced, Known
    <3>2. DegreeCounts'
      BY <2>3 DEF vars, IInv, DegreeCounts, EdgesFrom
    <3>3. \A t \in Tasks : DependsOn(t)' = DependsOn(t)
      BY <2>3 DEF vars, DependsOn
    <3>4. \A S \in SUBSET Tasks : WaitInCircle(S)' <=> WaitInCircle(S)
      BY <3>3 DEF WaitInCircle
    <3>5. CirclesWait' /\ CycleIffCyclic'
      BY <2>3, <3>4 DEF vars, IInv, CirclesWait, CycleIffCyclic, Cyclic
    <3>6. ReadySinceLastWave' /\ WavesRespectDependencies' /\ WavesAreEarliest'
      BY <2>3 DEF vars, IInv, ReadySinceLastWave, WavesRespectDependencies,
         WavesAreEarliest, DependsOn
    <3>7. QED
      BY <3>1, <3>2, <3>5, <3>6 DEF IInv
  <2>4. QED
    BY <2>1, <2>2, <2>3 DEF Next
<1>3. QED
  BY <1>1, <1>2, PTL DEF Spec

\* resolve() keeps the types of its variables; in_degree never goes negative.
THEOREM TypeCorrect == Spec => []TypeOK
<1>1. IInv => TypeOK
  BY DEF IInv
<1>2. QED
  BY <1>1, Invariance, PTL

\* Whatever depends_on lists hold, resolve() places a task after all the tasks
\* it depends on (GoalDependencyResolver.resolve, the ground of MS-1).
THEOREM DependenciesFirst == Spec => []WavesRespectDependencies
<1>1. IInv => WavesRespectDependencies
  BY DEF IInv
<1>2. QED
  BY <1>1, Invariance, PTL

\* resolve() never puts a task into a later wave than it has to.
THEOREM EarliestWave == Spec => []WavesAreEarliest
<1>1. IInv => WavesAreEarliest
  BY DEF IInv
<1>2. QED
  BY <1>1, Invariance, PTL

\* resolve() raises ValueError only for cyclic tasks, and returns only complete
\* waves of tasks that have no cycle.
THEOREM CyclesDetected == Spec => []CycleIffCyclic
<1>1. IInv => CycleIffCyclic
  BY DEF IInv
<1>2. QED
  BY <1>1, Invariance, PTL

\* resolve() as a whole: the four results above in one, for any tasks.
THEOREM ResolverIsCorrect == Spec => []ResolverCorrect
<1>1. IInv => ResolverCorrect
  BY DEF IInv, ResolverCorrect
<1>2. QED
  BY <1>1, Invariance, PTL

-----------------------------------------------------------------------------
(* A wave of tool calls.                                                   *)

\* One wave of tool calls.
ToolSpec == ToolInit /\ [][ToolNext]_toolVars

\* The types, as far as the model's type invariant leaves them open.
WaveTypes ==
    /\ ToolTypeOK
    /\ waits \in [WaveTasks -> SUBSET (WaveTasks \cup {Missing})]
    /\ ran \subseteq WaveTasks
    /\ logged \in [runs : Nat, retries : Nat]

\* The tasks that ended.
Ended == {t \in WaveTasks : stage[t] = "done"}

\* A wave of tasks that know each other: none of them moves before it is valid.
KnownTasks ==
    /\ wave = "PENDING" => \A t \in WaveTasks : stage[t] = "new"
    /\ \A t \in WaveTasks : stage[t] # "new" => \A u \in WaveTasks : waits[u] \subseteq WaveTasks

\* The event of a task is set when it is done and at no other time.
EventIsEnd == \A t \in WaveTasks : result[t] # "none" <=> stage[t] = "done"

\* Past the events of its dependencies, a task knows that they succeeded.
PastEvents ==
    \A t \in WaveTasks :
        stage[t] \in {"queued", "approval", "running", "backoff"} \/ t \in ran =>
            \A d \in waits[t] : result[d] = "SUCCESS"

\* A success left its key behind, so that no task runs after one of the same key.
KeysRemain ==
    /\ \A t \in WaveTasks : result[t] = "SUCCESS" => Key(t) \in processed
    /\ \A t \in SameKey : \A d \in waits[t] \cap SameKey :
           t \notin ran /\ stage[t] \notin {"approval", "running", "backoff"}

\* What ran is still in the semaphore or over, and had its approval.
RanInside ==
    \A t \in ran : stage[t] \in {"approval", "running", "backoff", "done"} /\ (t \in Guarded =>
      Key(t) \in granted)

\* SUCCESS is said when nothing goes on and nothing failed.
SuccessSeen ==
    wave = "SUCCESS" => \A t \in WaveTasks : stage[t] \in {"done", "gone"} /\
      result[t] \in {"none", "SUCCESS"}

\* The inductive invariant, but for the metrics.
StepsInv == WaveTypes /\ KnownTasks /\ EventIsEnd /\ PastEvents /\ KeysRemain /\ RanInside /\
  SuccessSeen

\* Among the tasks of a valid wave there is no dependency on another one.
LEMMA ValidIsKnown ==
    ASSUME IsValid, NEW t \in WaveTasks
    PROVE  waits[t] \subseteq WaveTasks
<1>1. WaveTasks \ {t} \in SUBSET WaveTasks /\ WaveTasks \ {t} # WaveTasks
  OBVIOUS
<1>2. PICK u \in WaveTasks \ (WaveTasks \ {t}) : waits[u] \subseteq WaveTasks \ {t}
  BY <1>1 DEF IsValid
<1> QED
  BY <1>2

\* Every step of the wave keeps its invariant.
LEMMA ToolStepKeeps ==
    ASSUME StepsInv, [ToolNext]_toolVars
    PROVE  StepsInv'
<1> USE ToolWavesAssumption
        DEF StepsInv, WaveTypes, KnownTasks, EventIsEnd, PastEvents, KeysRemain, RanInside,
            SuccessSeen, ToolTypeOK, Outcomes, Key
<1>1. CASE ExecuteWave
  BY <1>1, ValidIsKnown DEF ExecuteWave
<1>2. CASE WaveReturns
  BY <1>2 DEF WaveReturns, Aggregated
<1>3. ASSUME NEW t \in WaveTasks, DependenciesEnd(t)
      PROVE  StepsInv'
  BY <1>3 DEF DependenciesEnd
<1>4. ASSUME NEW t \in WaveTasks, AcquireSlot(t)
      PROVE  StepsInv'
  BY <1>4 DEF AcquireSlot, Attempt, Conclude
<1>5. ASSUME NEW t \in WaveTasks, BackoffEnds(t)
      PROVE  StepsInv'
  BY <1>5 DEF BackoffEnds, Attempt, Conclude
<1>6. ASSUME NEW t \in WaveTasks, Approved(t)
      PROVE  StepsInv'
  BY <1>6 DEF Approved
<1>7. ASSUME NEW t \in WaveTasks, NotApproved(t)
      PROVE  StepsInv'
  BY <1>7 DEF NotApproved, Failed, Conclude
<1>8. ASSUME NEW t \in WaveTasks, ToolEnds(t)
      PROVE  StepsInv'
  BY <1>8 DEF ToolEnds, Failed, Conclude, ExecuteTool, DockerRun, LocalRun
<1>9. ASSUME NEW t \in WaveTasks, CancelTask(t)
      PROVE  StepsInv'
  BY <1>9 DEF CancelTask, Inside, Conclude
<1>10. CASE UNCHANGED toolVars
  BY <1>10 DEF toolVars
<1> QED
  BY <1>1, <1>2, <1>3, <1>4, <1>5, <1>6, <1>7, <1>8, <1>9, <1>10
     DEF ToolNext, ToolStep

\* Task t goes to stage p.
MetricsStep(t, p) ==
    /\ stage' = [stage EXCEPT ![t] = p] /\ ran' \subseteq ran \cup {t}
    /\ p = "done" \/ logged'.runs = logged.runs
    /\ p = "done" => logged'.runs = logged.runs + 1 \/ (t \notin ran' /\ logged'.runs = logged.runs)
    /\ \/ attempt' = attempt /\ logged'.retries = logged.retries
       \/ attempt' = [attempt EXCEPT ![t] = @ + 1] /\ logged'.retries = logged.retries + 1

\* A task that ends in the semaphore is counted, one that goes on is not, and
\* retries are counted with the attempts.
LEMMA MetricsFollow ==
    ASSUME StepsInv, MetricsAddUp, NEW t \in WaveTasks, NEW p,
           stage[t] # "done", MetricsStep(t, p)
    PROVE  MetricsAddUp'
<1> USE DEF StepsInv, WaveTypes, ToolTypeOK, MetricsStep
<1>1. IsFiniteSet(Ended) /\ t \notin Ended /\ Cardinality(Ended) \in Nat
  BY ToolWavesAssumption, FS_Subset, FS_CardinalityType DEF Ended
<1>2. Cardinality(Ended \cup {t}) = Cardinality(Ended) + 1
  BY <1>1, FS_AddElement
<1>3. Ended' = IF p = "done" THEN Ended \cup {t} ELSE Ended
  BY DEF Ended
<1>4. logged.runs \in Nat /\ logged.retries \in Nat /\ logged.runs <= Cardinality(Ended)
  BY DEF MetricsAddUp, Ended
<1>5. logged'.runs <= Cardinality(Ended')
  BY <1>1, <1>2, <1>3, <1>4
<1>6. \A u \in ran' : stage'[u] = "done" => logged'.runs > 0
  BY <1>4 DEF MetricsAddUp
<1>7. logged'.retries > 0 <=> \E u \in WaveTasks : attempt'[u] > 0
  <2>1. CASE attempt' = attempt /\ logged'.retries = logged.retries
    BY <2>1 DEF MetricsAddUp
  <2>2. CASE attempt' = [attempt EXCEPT ![t] = @ + 1] /\ logged'.retries = logged.retries + 1
    <3>1. attempt'[t] > 0
      BY <2>2
    <3> QED
      BY <1>4, <2>2, <3>1
  <2> QED
    BY <2>1, <2>2
<1> QED
  BY <1>5, <1>6, <1>7 DEF MetricsAddUp, Ended

\* The metrics follow every step.
LEMMA MetricsKeep ==
    ASSUME StepsInv, MetricsAddUp, [ToolNext]_toolVars
    PROVE  MetricsAddUp'
<1> USE ToolWavesAssumption
        DEF StepsInv, WaveTypes, EventIsEnd, RanInside, MetricsAddUp, ToolTypeOK, Outcomes
<1>1. CASE ExecuteWave
  <2>1. (\A t \in WaveTasks : stage[t] = "new") /\ ran = {}
    BY <1>1 DEF ExecuteWave, KnownTasks
  <2>2. {t \in WaveTasks : stage[t] = "done"} = {} /\ {t \in WaveTasks : stage'[t] = "done"} = {}
    BY <1>1, <2>1 DEF ExecuteWave
  <2>3. UNCHANGED <<attempt, ran, logged>>
    BY <1>1 DEF ExecuteWave
  <2> QED
    BY <2>1, <2>2, <2>3
<1>2. CASE WaveReturns
  BY <1>2 DEF WaveReturns, Aggregated
<1>3. ASSUME NEW t \in WaveTasks, DependenciesEnd(t)
      PROVE  MetricsAddUp'
  <2>1. t \notin ran
    BY <1>3 DEF DependenciesEnd
  <2>2. MetricsStep(t, "queued") \/ MetricsStep(t, "done")
    BY <1>3, <2>1 DEF DependenciesEnd, MetricsStep
  <2> QED
    BY <1>3, <2>2, MetricsFollow DEF DependenciesEnd
<1>4. ASSUME NEW t \in WaveTasks, AcquireSlot(t)
      PROVE  MetricsAddUp'
  <2>1. stage[t] # "done"
    BY <1>4 DEF AcquireSlot, Inside
  <2>2. MetricsStep(t, "done") \/ MetricsStep(t, "approval") \/ MetricsStep(t, "running")
    BY <1>4 DEF AcquireSlot, Attempt, Conclude, MetricsStep
  <2> QED
    BY <2>1, <2>2, MetricsFollow
<1>5. ASSUME NEW t \in WaveTasks, BackoffEnds(t)
      PROVE  MetricsAddUp'
  <2>1. stage[t] # "done"
    BY <1>5 DEF BackoffEnds, Inside
  <2>2. MetricsStep(t, "done") \/ MetricsStep(t, "approval") \/ MetricsStep(t, "running")
    BY <1>5 DEF BackoffEnds, Attempt, Conclude, MetricsStep
  <2> QED
    BY <2>1, <2>2, MetricsFollow
<1>6. ASSUME NEW t \in WaveTasks, Approved(t)
      PROVE  MetricsAddUp'
  <2>1. MetricsStep(t, "running")
    BY <1>6 DEF Approved, MetricsStep
  <2> QED
    BY <1>6, <2>1, MetricsFollow DEF Approved
<1>7. ASSUME NEW t \in WaveTasks, NotApproved(t)
      PROVE  MetricsAddUp'
  <2>1. stage[t] # "done"
    BY <1>7 DEF NotApproved, Inside
  <2>2. MetricsStep(t, "backoff") \/ MetricsStep(t, "done")
    BY <1>7 DEF NotApproved, Failed, Conclude, MetricsStep
  <2> QED
    BY <2>1, <2>2, MetricsFollow
<1>8. ASSUME NEW t \in WaveTasks, ToolEnds(t)
      PROVE  MetricsAddUp'
  <2>1. stage[t] # "done"
    BY <1>8 DEF ToolEnds, Inside
  <2>2. MetricsStep(t, "backoff") \/ MetricsStep(t, "done")
    BY <1>8 DEF ToolEnds, Failed, Conclude, ExecuteTool, DockerRun, LocalRun, MetricsStep
  <2> QED
    BY <2>1, <2>2, MetricsFollow
<1>9. ASSUME NEW t \in WaveTasks, CancelTask(t)
      PROVE  MetricsAddUp'
  <2>1. stage[t] # "done"
    BY <1>9 DEF CancelTask, Inside
  <2>2. MetricsStep(t, "done") \/ MetricsStep(t, "gone")
    BY <1>9 DEF CancelTask, Inside, Conclude, MetricsStep
  <2> QED
    BY <2>1, <2>2, MetricsFollow
<1>10. CASE UNCHANGED toolVars
  BY <1>10 DEF toolVars
<1> QED
  BY <1>1, <1>2, <1>3, <1>4, <1>5, <1>6, <1>7, <1>8, <1>9, <1>10
     DEF ToolNext, ToolStep

\* What a wave did and says is true in every state, for any tasks and any
\* dependencies, with retries, approvals, keys and cancellations: a tool is started
\* after what it depends on and with its approval, never twice for a key along a
\* dependency, and SUCCESS and the metrics are what happened (wave_executor.py).
THEOREM WavesAreTruthful == ToolSpec => []WaveIsTruthful
<1>1. ToolInit => StepsInv /\ MetricsAddUp
  <2> SUFFICES ASSUME ToolInit PROVE StepsInv /\ MetricsAddUp
    OBVIOUS
  <2> USE ToolWavesAssumption DEF ToolInit
  <2>1. StepsInv
    BY DEF StepsInv, WaveTypes, KnownTasks, EventIsEnd, PastEvents, KeysRemain, RanInside,
           SuccessSeen, ToolTypeOK, Outcomes, Key
  <2>2. {t \in WaveTasks : stage[t] = "done"} = {}
    OBVIOUS
  <2>3. MetricsAddUp
    BY <2>2, FS_EmptySet DEF MetricsAddUp
  <2> QED
    BY <2>1, <2>3
<1>2. StepsInv /\ MetricsAddUp /\ [ToolNext]_toolVars => (StepsInv /\ MetricsAddUp)'
  BY ToolStepKeeps, MetricsKeep
<1>3. StepsInv /\ MetricsAddUp => WaveIsTruthful
  <2> SUFFICES ASSUME StepsInv, MetricsAddUp PROVE StartedInOrder /\ KeyHolds /\ SuccessIsWhole
    BY DEF WaveIsTruthful, StepsInv, WaveTypes
  <2>1. StartedInOrder
    BY DEF StartedInOrder, StepsInv, PastEvents, RanInside, WaveTypes
  <2>2. KeyHolds
    BY ToolWavesAssumption DEF KeyHolds, StepsInv, KeysRemain, KnownTasks, RanInside, WaveTypes
  <2>3. SuccessIsWhole
    BY DEF SuccessIsWhole, StepsInv, SuccessSeen, EventIsEnd
  <2> QED
    BY <2>1, <2>2, <2>3
<1> QED
  BY <1>1, <1>2, <1>3, PTL DEF ToolSpec
=============================================================================

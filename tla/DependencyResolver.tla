------------------------- MODULE DependencyResolver -------------------------
(***************************************************************************)
(* GoalDependencyResolver.resolve of core/mission/mission_scheduler.py:    *)
(* tasks are grouped into waves with Kahn's algorithm. depends_on is a     *)
(* list, so a dependency may be listed more than once; it may also name a  *)
(* task that is not part of the mission.                                   *)
(*                                                                         *)
(* One action is one round of the algorithm's outer loop.                  *)
(***************************************************************************)
EXTENDS Integers, Sequences, FiniteSets

CONSTANTS
    Tasks,      \* the tasks given to resolve()
    Unknown,    \* a dependency id that is not among them
    Copies      \* how often one dependency may be listed

ASSUME ResolverAssumption ==
    IsFiniteSet(Tasks) /\ Unknown \notin Tasks /\ Copies \in Nat \ {0}

VARIABLES
    listed,     \* the entries of all depends_on lists
    adj,        \* the entries that name known tasks, as edges
    inDegree,   \* in_degree
    ready,      \* the ids to go into the next wave
    queued,     \* the ids already in a wave
    waves,      \* the waves, each a set: a wave's order has no meaning
    outcome     \* "running", or how resolve() ended

vars == <<listed, adj, inDegree, ready, queued, waves, outcome>>

-----------------------------------------------------------------------------
\* Entry e says: task e.task depends on e.dep.
Entries == [task : Tasks, dep : Tasks \cup {Unknown}, copy : 1..Copies]

\* Entries with an unknown dependency are skipped with a warning.
Known(E) == {e \in E : e.dep \in Tasks}

\* The edges into t that start at a task of S.
EdgesFrom(S, t) == {e \in adj : e.task = t /\ e.dep \in S}

TypeOK ==
    /\ listed \subseteq Entries /\ IsFiniteSet(listed)
    /\ adj \subseteq Entries
    /\ inDegree \in [Tasks -> Nat]
    /\ ready \subseteq Tasks
    /\ queued \subseteq Tasks
    /\ waves \in Seq(SUBSET Tasks)
    /\ outcome \in {"running", "waves", "cycle"}

\* resolve() up to its loop, for any tasks.
Init ==
    /\ listed \in SUBSET Entries /\ IsFiniteSet(listed)
    /\ adj = Known(listed)
    /\ inDegree = [t \in Tasks |-> Cardinality({e \in adj : e.task = t})]
    /\ ready = {t \in Tasks : inDegree[t] = 0}
    /\ queued = {}
    /\ waves = <<>>
    /\ outcome = "running"

\* Mutant: a task is released by the first of its dependencies.
ReleaseEarly ==
    /\ outcome = "running" /\ ready # {}
    /\ queued' = queued \cup ready
    /\ waves' = Append(waves, ready)
    /\ inDegree' = [t \in Tasks |-> inDegree[t] - Cardinality(EdgesFrom(ready, t))]
    /\ ready' = {t \in Tasks \ queued' : inDegree'[t] < inDegree[t]}
    /\ UNCHANGED <<listed, adj, outcome>>

\* The ready tasks become a wave; each edge out of them is taken off the
\* in-degree of its end, and a task whose in-degree drops to 0 is ready next.
AddWave ==
    /\ outcome = "running" /\ ready # {}
    /\ queued' = queued \cup ready
    /\ waves' = Append(waves, ready)
    /\ inDegree' = [t \in Tasks |-> inDegree[t] - Cardinality(EdgesFrom(ready, t))]
    /\ ready' = {t \in Tasks \ queued' : inDegree'[t] = 0 /\ EdgesFrom(ready, t) # {}}
    /\ UNCHANGED <<listed, adj, outcome>>

\* Mutant: the loop only ends once every task is placed.
FinishWhenAllPlaced ==
    /\ outcome = "running" /\ ready = {} /\ queued = Tasks
    /\ outcome' = "waves"
    /\ UNCHANGED <<listed, adj, inDegree, ready, queued, waves>>

\* Nothing is ready: tasks that are left over form a cycle.
Finish ==
    /\ outcome = "running" /\ ready = {}
    /\ outcome' = IF queued = Tasks THEN "waves" ELSE "cycle"
    /\ UNCHANGED <<listed, adj, inDegree, ready, queued, waves>>

Next == AddWave \/ Finish

Spec == Init /\ [][Next]_vars

\* resolve() is a plain function: it runs until it returns.
FairSpec == Spec /\ WF_vars(Next)

-----------------------------------------------------------------------------
(* Properties.                                                             *)

\* What t depends on, by its list, among the tasks of the mission.
DependsOn(t) == {e.dep : e \in {x \in listed : x.task = t}} \cap Tasks

\* The tasks of S wait for each other: each depends on one of S.
WaitInCircle(S) == \A t \in S : DependsOn(t) \cap S # {}

Cyclic == \E S \in (SUBSET Tasks) \ {{}} : WaitInCircle(S)

\* Every task placed so far comes after all its dependencies, whatever is
\* listed twice or unknown: invariant MS-1 rests on it.
WavesRespectDependencies ==
    \A n \in DOMAIN waves : \A t \in waves[n] : \A d \in DependsOn(t) :
        \E k \in 1..(n - 1) : d \in waves[k]

\* No task waits longer than it must: it is in the first wave, or depends on a
\* task of the wave just before its own.
WavesAreEarliest ==
    \A n \in DOMAIN waves : \A t \in waves[n] :
        n > 1 => \E d \in DependsOn(t) : d \in waves[n - 1]

\* resolve() raises exactly for the missions whose tasks wait for each other,
\* and what it returns otherwise has every task in it.
CycleIffCyclic ==
    /\ outcome = "cycle" => Cyclic
    /\ outcome = "waves" => ~Cyclic /\ queued = Tasks

\* The waves are the earliest order the dependencies allow, and a cycle is
\* found exactly when there is one.
ResolverCorrect == TypeOK /\ WavesRespectDependencies /\ WavesAreEarliest /\ CycleIffCyclic

\* resolve() returns.
Terminates == <>(outcome # "running")
=============================================================================

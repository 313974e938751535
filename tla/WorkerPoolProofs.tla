-------------------------- MODULE WorkerPoolProofs --------------------------
(***************************************************************************)
(* Proofs about WorkerPool, for any workers, waves and callers of route(). *)
(***************************************************************************)
EXTENDS WorkerPool, FiniteSetTheorems, TLAPS

\* TypeOK without the bound on active_tasks, which follows from
\* LoadIsAccounted.
Types ==
    /\ status \in [Workers -> WorkerStatus]
    /\ age \in [Workers -> 0..(Grace + 1)]
    /\ active \in [Workers -> Nat]
    /\ rows \in [Pairs -> RowStates]
    /\ proc \in [Workers -> ProcessStates]
    /\ launches \in 0..MaxLaunches
    /\ signalled \subseteq Workers
    /\ running \subseteq Waves \X Workers
    /\ started \subseteq Waves \X Workers
    /\ miscounted \subseteq Workers
    /\ step \in [Callers -> Steps]
    /\ wave \in [Callers -> Waves \cup {NoWave}]
    /\ chosen \in [Callers -> Workers \cup {Nobody}]

\* A worker only executes waves that were routed to it.
RunningIsRouted == \A p \in running : rows[p] # "NONE"

Load ==
    /\ RunningIsRouted
    /\ RunningIsCounted
    /\ LoadIsAccounted

\* What is executed was started, and only what was routed is started.
StartedIsRouted == running \subseteq started /\ \A p \in started : rows[p] # "NONE"

\* The open waves of worker w whose start was reported.
Begun(w) == {v \in Open(w) : <<v, w>> \in started}

IInv ==
    /\ Types
    /\ StoppedIsOffline
    /\ Load
    /\ StartedIsRouted
    /\ CountIsExact

\* The waves worker w executes and that are still open.
Counted(w) == {v \in Open(w) : <<v, w>> \in running}

-----------------------------------------------------------------------------
(* Types, and shutdown.                                                    *)

\* The initial states are well typed, and no worker has stopped.
LEMMA TypesInit == Init => Types /\ StoppedIsOffline
BY PoolAssumption
   DEF Init, Types, StoppedIsOffline, WorkerStatus, RowStates, ProcessStates, Steps

\* The steps of a worker's process keep the types and its shutdown final.
LEMMA ProcessTypes ==
    ASSUME Types, StoppedIsOffline, NEW w \in Workers,
           \/ Launch(w) \/ Start(w) \/ Heartbeat(w) \/ Signal(w)
           \/ MarkOffline(w) \/ Crash(w)
    PROVE  Types' /\ StoppedIsOffline'
<1> USE PoolAssumption
        DEF Types, StoppedIsOffline, WorkerStatus, ProcessStates, registry, process, routing, history
<1>1. CASE Launch(w)
  BY <1>1 DEF Launch
<1>2. CASE Start(w)
  <2>1. PICK s \in {"ONLINE", "OFFLINE"} : status' = [status EXCEPT ![w] = s]
    BY <1>2 DEF Start
  <2>2. age' \in [Workers -> 0..(Grace + 1)]
    BY <1>2 DEF Start
  <2>3. QED
    BY <1>2, <2>1, <2>2 DEF Start
<1>3. CASE Heartbeat(w)
  BY <1>3 DEF Heartbeat
<1>4. CASE Signal(w)
  BY <1>4 DEF Signal
<1>5. CASE MarkOffline(w)
  BY <1>5 DEF MarkOffline, Dropped
<1>6. CASE Crash(w)
  BY <1>6 DEF Crash, Dropped
<1>7. QED
  BY <1>1, <1>2, <1>3, <1>4, <1>5, <1>6

\* So does the passing of time,
LEMMA TickTypes ==
    ASSUME Types, StoppedIsOffline, Tick
    PROVE  Types' /\ StoppedIsOffline'
BY PoolAssumption DEF Types, StoppedIsOffline, Tick, process, routing, history

\* so do the steps of route(), the sweep of list_active included,
LEMMA RouteTypes ==
    ASSUME Types, StoppedIsOffline, NEW c \in Callers,
           \/ \E v \in Waves : Choose(c, v) \/ FindNobody(c, v)
           \/ Publish(c) \/ Insert(c) \/ RouteFails(c)
    PROVE  Types' /\ StoppedIsOffline'
<1> USE PoolAssumption
        DEF Types, StoppedIsOffline, registry, process, routing, history, Steps
<1>1. ASSUME NEW v \in Waves, Choose(c, v)
      PROVE  Types' /\ StoppedIsOffline'
  <2>1. PICK n \in PickBest(c, Eligible(v)) :
            GoTo(c, "insert", v, n) \/ GoTo(c, "publish", v, n)
    BY <1>1 DEF Choose
  <2>2. n \in Workers
    BY <2>1 DEF PickBest, Eligible, ListActive
  <2>3. status' \in [Workers -> WorkerStatus] /\ StoppedIsOffline'
    BY <1>1 DEF Choose, Sweep, WorkerStatus
  <2>4. QED
    BY <1>1, <2>1, <2>2, <2>3 DEF Choose, GoTo
<1>2. ASSUME NEW v \in Waves, FindNobody(c, v)
      PROVE  Types' /\ StoppedIsOffline'
  BY <1>2 DEF FindNobody, Sweep, WorkerStatus
<1>3. CASE Publish(c)
  BY <1>3 DEF Publish
<1>4. CASE Insert(c)
  BY <1>4 DEF Insert, Return, GoTo, RowStates
<1>5. CASE RouteFails(c)
  BY <1>5 DEF RouteFails, Return, GoTo
<1>6. QED
  BY <1>1, <1>2, <1>3, <1>4, <1>5

\* and so does task accounting.
LEMMA TaskTypes ==
    ASSUME Types, StoppedIsOffline,
           \/ \E p \in Pairs : MarkRoutingComplete(p)
           \/ \E w \in Workers, v \in Waves : StartTask(w, v) \/ CompleteTask(w, v)
    PROVE  Types' /\ StoppedIsOffline'
<1> USE DEF Types, StoppedIsOffline, registry, process, routing, history, RowStates
<1>1. ASSUME NEW p \in Pairs, MarkRoutingComplete(p)
      PROVE  Types' /\ StoppedIsOffline'
  BY <1>1 DEF MarkRoutingComplete
<1>2. ASSUME NEW w \in Workers, NEW v \in Waves, StartTask(w, v)
      PROVE  Types' /\ StoppedIsOffline'
  BY <1>2 DEF StartTask
<1>3. ASSUME NEW w \in Workers, NEW v \in Waves, CompleteTask(w, v)
      PROVE  Types' /\ StoppedIsOffline'
  BY <1>3 DEF CompleteTask
<1>4. QED
  BY <1>1, <1>2, <1>3

-----------------------------------------------------------------------------
(* Task accounting.                                                        *)

\* Sets of waves are finite, and a smaller one has fewer elements.
LEMMA SomeWaves ==
    ASSUME NEW S \in SUBSET Waves
    PROVE  /\ IsFiniteSet(S) /\ Cardinality(S) \in Nat
           /\ \A T \in SUBSET S : Cardinality(T) <= Cardinality(S)
<1>1. IsFiniteSet(S)
  BY PoolAssumption, FS_Subset
<1>2. Cardinality(S) \in Nat
  BY <1>1, FS_CardinalityType
<1>3. \A T \in SUBSET S : Cardinality(T) <= Cardinality(S)
  BY <1>1, FS_Subset
<1>4. QED
  BY <1>1, <1>2, <1>3

\* The open, the retired and the counted waves are disjoint or nested sets of
\* waves.
LEMMA WaveSets ==
    ASSUME NEW w \in Workers
    PROVE  /\ Open(w) \in SUBSET Waves /\ Retired(w) \in SUBSET Waves
           /\ Counted(w) \in SUBSET Open(w) /\ Counted(w) \in SUBSET Waves
           /\ Open(w)' \in SUBSET Waves /\ Retired(w)' \in SUBSET Waves
           /\ Counted(w)' \in SUBSET Open(w)' /\ Counted(w)' \in SUBSET Waves
BY DEF Open, Retired, Counted

\* Steps that leave the counts alone, start no wave and change the log only by
\* adding an open row keep the accounts in order.
LEMMA AddingRowsIsFine ==
    ASSUME Types, Load, active' = active, running' \subseteq running,
           \A p \in Pairs : \/ rows'[p] = rows[p]
                            \/ rows[p] = "NONE" /\ rows'[p] = "OPEN"
    PROVE  Load'
<1>0. running \subseteq Pairs
  BY DEF Types, Pairs
<1>1. RunningIsRouted'
  BY <1>0 DEF Load, RunningIsRouted
<1>2. ASSUME NEW w \in Workers
      PROVE  /\ Cardinality(Counted(w)') <= active'[w]
             /\ active'[w] <= Cardinality(Open(w)') + Cardinality(Retired(w)')
  <2>1. \A v \in Waves : <<v, w>> \in Pairs
    BY DEF Pairs
  <2>2. Counted(w)' \subseteq Counted(w)
    BY <2>1 DEF Counted, Open, Load, RunningIsRouted
  <2>3. Open(w) \subseteq Open(w)'
    BY <2>1 DEF Open
  <2>4. Retired(w)' = Retired(w)
    BY <2>1 DEF Retired
  <2>5. /\ Cardinality(Counted(w)') <= Cardinality(Counted(w))
        /\ Cardinality(Open(w)) <= Cardinality(Open(w)')
    BY <2>2, <2>3, WaveSets, SomeWaves
  <2>6. /\ Cardinality(Counted(w)) <= active[w]
        /\ active[w] <= Cardinality(Open(w)) + Cardinality(Retired(w))
    BY DEF Load, RunningIsCounted, LoadIsAccounted, Counted
  <2>7. /\ active[w] \in Nat
        /\ Cardinality(Counted(w)) \in Nat /\ Cardinality(Counted(w)') \in Nat
        /\ Cardinality(Open(w)) \in Nat /\ Cardinality(Open(w)') \in Nat
        /\ Cardinality(Retired(w)) \in Nat
    BY WaveSets, SomeWaves DEF Types
  <2>8. QED
    BY <2>4, <2>5, <2>6, <2>7
<1>3. QED
  BY <1>1, <1>2 DEF Load, RunningIsCounted, LoadIsAccounted, Counted

\* mark_task_started(): either the count covers every open wave, or it grows
\* by one with the wave that starts.
LEMMA StartTaskCounts ==
    ASSUME Types, Load, NEW w \in Workers, NEW v \in Waves, StartTask(w, v)
    PROVE  Load'
<1> DEFINE p == <<v, w>>
<1>0. active[w] \in Nat /\ Cardinality(Open(w)) \in Nat
  BY WaveSets, SomeWaves DEF Types
<1>1. /\ rows' = rows /\ rows[p] = "OPEN" /\ running' = running \cup {p}
      /\ active' = IF active[w] >= Cardinality(Open(w)) THEN active
                   ELSE [active EXCEPT ![w] = @ + 1]
  BY <1>0 DEF StartTask
<1>2. RunningIsRouted'
  BY <1>1 DEF Load, RunningIsRouted
<1>3. ASSUME NEW u \in Workers
      PROVE  /\ Cardinality(Counted(u)') <= active'[u]
             /\ active'[u] <= Cardinality(Open(u)') + Cardinality(Retired(u)')
  <2>1. Open(u)' = Open(u) /\ Retired(u)' = Retired(u)
    BY <1>1 DEF Open, Retired
  <2>2. /\ Cardinality(Counted(u)) <= active[u]
        /\ active[u] <= Cardinality(Open(u)) + Cardinality(Retired(u))
    BY DEF Load, RunningIsCounted, LoadIsAccounted, Counted
  <2>3. /\ active[u] \in Nat /\ Cardinality(Retired(u)) \in Nat
        /\ Cardinality(Counted(u)) \in Nat /\ Cardinality(Counted(u)') \in Nat
        /\ Cardinality(Open(u)) \in Nat /\ IsFiniteSet(Counted(u))
        /\ Cardinality(Counted(u)') <= Cardinality(Open(u)')
    BY WaveSets, SomeWaves DEF Types
  <2>4. CASE u # w
    <3>1. Counted(u)' = Counted(u)
      BY <1>1, <2>4 DEF Counted, Open
    <3>2. active'[u] = active[u]
      BY <1>1, <2>4 DEF Types
    <3>3. QED
      BY <2>1, <2>2, <3>1, <3>2
  <2>5. CASE u = w /\ active[w] >= Cardinality(Open(w))
    BY <1>1, <2>1, <2>2, <2>3, <2>5
  <2>6. CASE u = w /\ ~(active[w] >= Cardinality(Open(w)))
    <3>1. active'[w] = active[w] + 1
      BY <1>1, <2>6 DEF Types
    <3>2. Counted(w)' = Counted(w) \cup {v}
      BY <1>1 DEF Counted, Open
    <3>3. IsFiniteSet(Counted(w)) /\ Cardinality(Counted(w)) \in Nat
      BY <2>3, <2>6
    <3>4. Cardinality(Counted(w) \cup {v}) =
              IF v \in Counted(w) THEN Cardinality(Counted(w)) ELSE Cardinality(Counted(w)) + 1
      BY <3>3, FS_AddElement
    <3>5. Cardinality(Counted(w)') <= Cardinality(Counted(w)) + 1
      BY <3>2, <3>3, <3>4
    <3>6. QED
      BY <2>1, <2>2, <2>3, <2>6, <3>1, <3>5
  <2>7. QED
    BY <2>4, <2>5, <2>6
<1>4. QED
  BY <1>2, <1>3 DEF Load, RunningIsCounted, LoadIsAccounted, Counted

\* mark_task_completed(): a wave that was executed and open was counted, and
\* it leaves both accounts together.
LEMMA CompleteTaskCounts ==
    ASSUME Types, Load, NEW w \in Workers, NEW v \in Waves, CompleteTask(w, v)
    PROVE  Load'
<1> DEFINE p == <<v, w>>
<1>0. p \in Pairs /\ p \in running /\ running' = running \ {p}
  BY DEF CompleteTask, Pairs
<1>1. CASE rows[p] # "OPEN"
  <2>1. rows' = rows /\ active' = active
    BY <1>1 DEF CompleteTask
  <2>2. QED
    BY <1>0, <2>1, AddingRowsIsFine
<1>2. CASE rows[p] = "OPEN"
  <2>0. /\ rows' = [rows EXCEPT ![p] = "COMPLETED"]
        /\ active' = IF active[w] > 0 THEN [active EXCEPT ![w] = @ - 1] ELSE active
    BY <1>2 DEF CompleteTask
  <2>1. RunningIsRouted'
    BY <1>0, <2>0 DEF Load, RunningIsRouted, Types
  <2>2. ASSUME NEW u \in Workers
        PROVE  /\ Cardinality(Counted(u)') <= active'[u]
               /\ active'[u] <= Cardinality(Open(u)') + Cardinality(Retired(u)')
    <3>0. \A x \in Waves : <<x, u>> \in Pairs
      BY DEF Pairs
    <3>1. /\ Cardinality(Counted(u)) <= active[u]
          /\ active[u] <= Cardinality(Open(u)) + Cardinality(Retired(u))
      BY DEF Load, RunningIsCounted, LoadIsAccounted, Counted
    <3>2. /\ active[u] \in Nat /\ Cardinality(Retired(u)) \in Nat
          /\ Cardinality(Counted(u)) \in Nat /\ Cardinality(Open(u)) \in Nat
          /\ IsFiniteSet(Counted(u)) /\ IsFiniteSet(Open(u))
      BY WaveSets, SomeWaves DEF Types
    <3>3. Retired(u)' = Retired(u)
      BY <1>2, <2>0, <3>0 DEF Retired, Types
    <3>4. CASE u # w
      <4>1. Counted(u)' = Counted(u) /\ Open(u)' = Open(u)
        BY <1>0, <2>0, <3>0, <3>4 DEF Counted, Open, Types
      <4>2. active'[u] = active[u]
        BY <2>0, <3>4 DEF Types
      <4>3. QED
        BY <3>1, <3>3, <4>1, <4>2
    <3>5. CASE u = w
      <4>1. v \in Counted(u) /\ v \in Open(u)
        BY <1>0, <1>2, <3>5 DEF Counted, Open
      <4>2. Open(u)' = Open(u) \ {v}
        BY <2>0, <3>0, <3>5 DEF Open, Types
      <4>3. Counted(u)' = Counted(u) \ {v}
        BY <1>0, <3>5, <4>2 DEF Counted
      <4>4. /\ Cardinality(Open(u)') = Cardinality(Open(u)) - 1
            /\ Cardinality(Counted(u)') = Cardinality(Counted(u)) - 1
        BY <3>2, <4>1, <4>2, <4>3, FS_RemoveElement
      <4>5. Cardinality(Counted(u)) # 0
        BY <3>2, <4>1, FS_EmptySet
      <4>6. active'[u] = active[u] - 1
        BY <2>0, <3>1, <3>2, <3>5, <4>5 DEF Types
      <4>7. QED
        BY <3>1, <3>2, <3>3, <4>4, <4>6
    <3>6. QED
      BY <3>4, <3>5
  <2>3. QED
    BY <2>1, <2>2 DEF Load, RunningIsCounted, LoadIsAccounted, Counted
<1>3. QED
  BY <1>1, <1>2

\* mark_routing_complete(): the wave moves from the open to the retired ones.
LEMMA RetiringCounts ==
    ASSUME Types, Load, NEW p \in Pairs, MarkRoutingComplete(p)
    PROVE  Load'
<1>0. /\ rows[p] = "OPEN" /\ rows' = [rows EXCEPT ![p] = "RETIRED"]
      /\ running' = running /\ active' = active
  BY DEF MarkRoutingComplete, registry
<1>1. RunningIsRouted'
  BY <1>0 DEF Load, RunningIsRouted, Types
<1>2. ASSUME NEW u \in Workers
      PROVE  /\ Cardinality(Counted(u)') <= active'[u]
             /\ active'[u] <= Cardinality(Open(u)') + Cardinality(Retired(u)')
  <2>0. \A x \in Waves : <<x, u>> \in Pairs
    BY DEF Pairs
  <2>1. /\ Cardinality(Counted(u)) <= active[u]
        /\ active[u] <= Cardinality(Open(u)) + Cardinality(Retired(u))
    BY DEF Load, RunningIsCounted, LoadIsAccounted, Counted
  <2>2. /\ active[u] \in Nat /\ Cardinality(Retired(u)) \in Nat
        /\ Cardinality(Counted(u)) \in Nat /\ Cardinality(Open(u)) \in Nat
        /\ Cardinality(Counted(u)') \in Nat
        /\ IsFiniteSet(Retired(u)) /\ IsFiniteSet(Open(u))
    BY WaveSets, SomeWaves DEF Types
  <2>3. Counted(u)' \subseteq Counted(u)
    BY <1>0, <2>0 DEF Counted, Open, Types
  <2>4. Cardinality(Counted(u)') <= Cardinality(Counted(u))
    BY <2>3, WaveSets, SomeWaves
  <2>5. CASE \E v \in Waves : p = <<v, u>>
    <3>1. PICK v \in Waves : p = <<v, u>>
      BY <2>5
    <3>2. Open(u)' = Open(u) \ {v} /\ v \in Open(u)
      BY <1>0, <2>0, <3>1 DEF Open, Types
    <3>3. Retired(u)' = Retired(u) \cup {v} /\ v \notin Retired(u)
      BY <1>0, <2>0, <3>1 DEF Retired, Types
    <3>4. /\ Cardinality(Open(u)') = Cardinality(Open(u)) - 1
          /\ Cardinality(Retired(u)') = Cardinality(Retired(u)) + 1
      BY <2>2, <3>2, <3>3, FS_RemoveElement, FS_AddElement
    <3>5. QED
      BY <1>0, <2>1, <2>2, <2>4, <3>4
  <2>6. CASE ~ \E v \in Waves : p = <<v, u>>
    <3>1. Open(u)' = Open(u) /\ Retired(u)' = Retired(u)
      BY <1>0, <2>0, <2>6 DEF Open, Retired, Types
    <3>2. QED
      BY <1>0, <2>1, <2>2, <2>4, <3>1
  <2>7. QED
    BY <2>5, <2>6
<1>3. QED
  BY <1>1, <1>2 DEF Load, RunningIsCounted, LoadIsAccounted, Counted

\* At first there is nothing to account for.
LEMMA LoadInit == Init => Load
<1> SUFFICES ASSUME Init PROVE Load
  OBVIOUS
<1>1. RunningIsRouted
  BY DEF Init, RunningIsRouted
<1>2. ASSUME NEW w \in Workers
      PROVE  /\ Cardinality(Counted(w)) <= active[w]
             /\ active[w] <= Cardinality(Open(w)) + Cardinality(Retired(w))
  <2>1. Counted(w) = {} /\ active[w] = 0
    BY DEF Init, Counted
  <2>2. Cardinality(Open(w)) \in Nat /\ Cardinality(Retired(w)) \in Nat
    BY WaveSets, SomeWaves
  <2>3. QED
    BY <2>1, <2>2, FS_EmptySet
<1>3. QED
  BY <1>1, <1>2 DEF Load, RunningIsCounted, LoadIsAccounted, Counted

\* What the steps of workers and callers do to the accounts.
LEMMA OtherStepsCount ==
    ASSUME Types, Load,
           \/ \E w \in Workers :
                 Launch(w) \/ Start(w) \/ Heartbeat(w) \/ Signal(w)
                 \/ MarkOffline(w) \/ Crash(w)
           \/ Tick
           \/ \E c \in Callers :
                 \/ \E v \in Waves : Choose(c, v) \/ FindNobody(c, v)
                 \/ Publish(c) \/ RouteFails(c)
    PROVE  Load'
<1> USE DEF registry
<1>1. rows' = rows /\ active' = active /\ running' \subseteq running
  BY DEF Launch, Start, Heartbeat, Signal, MarkOffline, Crash, Dropped, Tick,
         Choose, FindNobody, Publish, RouteFails
<1>2. QED
  BY <1>1, AddingRowsIsFine

\* _insert_routing() adds an open row or nothing.
LEMMA InsertCounts ==
    ASSUME Types, Load, NEW c \in Callers, Insert(c)
    PROVE  Load'
<1>1. /\ active' = active /\ running' = running
      /\ rows' = [rows EXCEPT ![<<wave[c], chosen[c]>>] = IF @ = "NONE" THEN "OPEN" ELSE @]
  BY DEF Insert, registry
<1>2. ASSUME NEW p \in Pairs
      PROVE  rows'[p] = rows[p] \/ (rows[p] = "NONE" /\ rows'[p] = "OPEN")
  <2>1. CASE p = <<wave[c], chosen[c]>>
    <3>1. rows'[p] = IF rows[p] = "NONE" THEN "OPEN" ELSE rows[p]
      BY <1>1, <2>1 DEF Types
    <3>2. QED
      BY <3>1
  <2>2. CASE p # <<wave[c], chosen[c]>>
    BY <1>1, <2>2 DEF Types
  <2>3. QED
    BY <2>1, <2>2
<1>3. QED
  BY <1>1, <1>2, AddingRowsIsFine

-----------------------------------------------------------------------------
(* The exact count.                                                        *)

\* The waves a worker has begun are some of its open ones; a wave more or less
\* changes their number by one.
LEMMA BegunWaves ==
    ASSUME NEW w \in Workers
    PROVE  /\ Begun(w) \in SUBSET Open(w) /\ Begun(w) \in SUBSET Waves
           /\ IsFiniteSet(Begun(w)) /\ IsFiniteSet(Open(w))
           /\ Cardinality(Begun(w)) \in Nat /\ Cardinality(Open(w)) \in Nat
           /\ Cardinality(Begun(w)) = Cardinality(Open(w)) => Begun(w) = Open(w)
           /\ \A v : Cardinality(Begun(w) \cup {v}) = IF v \in Begun(w) THEN Cardinality(Begun(w))
                                                      ELSE Cardinality(Begun(w)) + 1
           /\ \A v \in Begun(w) : Cardinality(Begun(w) \ {v}) = Cardinality(Begun(w)) - 1
<1>1. Begun(w) \in SUBSET Open(w) /\ Begun(w) \in SUBSET Waves /\ Open(w) \in SUBSET Waves
  BY DEF Begun, Open
<1>2. /\ IsFiniteSet(Begun(w)) /\ IsFiniteSet(Open(w))
      /\ Cardinality(Begun(w)) \in Nat /\ Cardinality(Open(w)) \in Nat
  BY <1>1, SomeWaves
<1>3. Cardinality(Begun(w)) = Cardinality(Open(w)) => Begun(w) = Open(w)
  BY <1>1, <1>2, FS_Subset
<1>4. QED
  BY <1>1, <1>2, <1>3, FS_AddElement, FS_RemoveElement

\* Steps that leave counts and reports alone and only add open rows.
LEMMA AddingRowsExact ==
    ASSUME Types, StartedIsRouted, CountIsExact, active' = active, UNCHANGED history,
           running' \subseteq running,
           \A p \in Pairs : \/ rows'[p] = rows[p]
                            \/ rows[p] = "NONE" /\ rows'[p] = "OPEN"
    PROVE  StartedIsRouted' /\ CountIsExact'
<1>0. started \subseteq Pairs /\ started' = started /\ miscounted' = miscounted
  BY DEF Types, Pairs, history
<1>1. StartedIsRouted'
  BY <1>0 DEF StartedIsRouted
<1>2. ASSUME NEW w \in Workers PROVE Begun(w)' = Begun(w)
  <2>1. \A v \in Waves : <<v, w>> \in Pairs
    BY DEF Pairs
  <2>2. QED
    BY <1>0, <2>1 DEF Begun, Open, StartedIsRouted
<1>3. QED
  BY <1>0, <1>1, <1>2 DEF CountIsExact, Begun

\* mark_task_started(): below the number of open waves the count grows, and
\* then the wave is a new one or the worker is miscounted; at that number every
\* open wave was begun, and so was this one.
LEMMA StartTaskExact ==
    ASSUME Types, StartedIsRouted, CountIsExact,
           NEW w \in Workers, NEW v \in Waves, StartTask(w, v)
    PROVE  StartedIsRouted' /\ CountIsExact'
<1> DEFINE p == <<v, w>>
<1>1. /\ rows' = rows /\ rows[p] = "OPEN" /\ running' = running \cup {p}
      /\ started' = started \cup {p} /\ miscounted \subseteq miscounted'
  BY DEF StartTask
<1>2. StartedIsRouted'
  BY <1>1 DEF StartedIsRouted
<1>3. ASSUME NEW u \in Workers \ miscounted'
      PROVE  active'[u] = Cardinality(Begun(u)')
  <2>1. active[u] = Cardinality(Begun(u)) /\ active[u] \in Nat
    BY <1>1 DEF CountIsExact, Begun, Types
  <2>2. Open(u)' = Open(u)
    BY <1>1 DEF Open
  <2>3. CASE u # w
    <3>1. Begun(u)' = Begun(u)
      BY <1>1, <2>2, <2>3 DEF Begun
    <3>2. active'[u] = active[u]
      BY <2>3 DEF StartTask, Types
    <3>3. QED
      BY <2>1, <3>1, <3>2
  <2>4. CASE u = w
    <3>1. Begun(w)' = Begun(w) \cup {v} /\ v \in Open(w)
      BY <1>1, <2>2, <2>4 DEF Begun, Open
    <3>2. CASE active[w] >= Cardinality(Open(w)) /\ UNCHANGED <<active, miscounted>>
      <4>1. Cardinality(Begun(w)) <= Cardinality(Open(w))
        BY BegunWaves, WaveSets, SomeWaves
      <4>2. Cardinality(Begun(w)) = Cardinality(Open(w))
        BY <2>1, <2>4, <3>2, <4>1, BegunWaves
      <4>3. Begun(w)' = Begun(w)
        BY <3>1, <4>2, BegunWaves
      <4>4. QED
        BY <2>1, <2>4, <3>2, <4>3
    <3>3. CASE /\ active' = [active EXCEPT ![w] = @ + 1]
               /\ miscounted' = miscounted \cup {x \in {w} : p \in started}
      <4>1. v \notin Begun(w)
        BY <2>4, <3>3 DEF Begun
      <4>2. Cardinality(Begun(w)') = Cardinality(Begun(w)) + 1
        BY <3>1, <4>1, BegunWaves
      <4>3. active'[w] = active[w] + 1
        BY <3>3 DEF Types
      <4>4. QED
        BY <2>1, <2>4, <4>2, <4>3
    <3>4. QED
      BY <3>2, <3>3 DEF StartTask
  <2>5. QED
    BY <2>3, <2>4
<1>4. QED
  BY <1>2, <1>3 DEF CountIsExact, Begun

\* mark_task_completed(): a wave that was executed and open was begun.
LEMMA CompleteTaskExact ==
    ASSUME Types, StartedIsRouted, CountIsExact,
           NEW w \in Workers, NEW v \in Waves, CompleteTask(w, v)
    PROVE  StartedIsRouted' /\ CountIsExact'
<1> DEFINE p == <<v, w>>
<1>0. /\ p \in Pairs /\ p \in running /\ p \in started
      /\ running' = running \ {p} /\ UNCHANGED history
  BY DEF CompleteTask, Pairs, StartedIsRouted
<1>1. CASE rows[p] # "OPEN"
  <2>1. rows' = rows /\ active' = active
    BY <1>1 DEF CompleteTask
  <2>2. QED
    BY <1>0, <2>1, AddingRowsExact
<1>2. CASE rows[p] = "OPEN"
  <2>0. /\ rows' = [rows EXCEPT ![p] = "COMPLETED"]
        /\ active' = IF active[w] > 0 THEN [active EXCEPT ![w] = @ - 1] ELSE active
        /\ started' = started /\ miscounted' = miscounted
    BY <1>0, <1>2 DEF CompleteTask, history
  <2>1. StartedIsRouted'
    BY <1>0, <2>0 DEF StartedIsRouted, Types
  <2>2. ASSUME NEW u \in Workers \ miscounted
        PROVE  active'[u] = Cardinality(Begun(u)')
    <3>0. \A x \in Waves : <<x, u>> \in Pairs
      BY DEF Pairs
    <3>1. active[u] = Cardinality(Begun(u)) /\ active[u] \in Nat
      BY DEF CountIsExact, Begun, Types
    <3>2. CASE u # w
      <4>1. Begun(u)' = Begun(u)
        BY <2>0, <3>0, <3>2 DEF Begun, Open, Types
      <4>2. active'[u] = active[u]
        BY <2>0, <3>2 DEF Types
      <4>3. QED
        BY <3>1, <4>1, <4>2
    <3>3. CASE u = w
      <4>1. v \in Begun(w)
        BY <1>0, <1>2 DEF Begun, Open
      <4>2. Begun(w)' = Begun(w) \ {v}
        BY <2>0, <3>0, <3>3 DEF Begun, Open, Types
      <4>3. Cardinality(Begun(w)') = Cardinality(Begun(w)) - 1
        BY <4>1, <4>2, BegunWaves
      <4>4. Cardinality(Begun(w)) # 0
        BY <4>1, BegunWaves, FS_EmptySet
      <4>5. active'[w] = active[w] - 1
        BY <2>0, <3>1, <3>3, <4>4 DEF Types
      <4>6. QED
        BY <3>1, <3>3, <4>3, <4>5
    <3>4. QED
      BY <3>2, <3>3
  <2>3. QED
    BY <2>0, <2>1, <2>2 DEF CountIsExact, Begun
<1>3. QED
  BY <1>1, <1>2

\* mark_routing_complete(): a wave that had begun makes its worker miscounted.
LEMMA RetiringExact ==
    ASSUME Types, StartedIsRouted, CountIsExact, NEW p \in Pairs, MarkRoutingComplete(p)
    PROVE  StartedIsRouted' /\ CountIsExact'
<1>0. /\ rows[p] = "OPEN" /\ rows' = [rows EXCEPT ![p] = "RETIRED"]
      /\ running' = running /\ active' = active /\ started' = started
      /\ miscounted' = miscounted \cup {w \in Workers : p \in started /\ p[2] = w}
  BY DEF MarkRoutingComplete, registry
<1>1. StartedIsRouted'
  BY <1>0 DEF StartedIsRouted, Types
<1>2. ASSUME NEW u \in Workers \ miscounted'
      PROVE  Begun(u)' = Begun(u)
  <2>0. \A x \in Waves : <<x, u>> \in Pairs
    BY DEF Pairs
  <2>1. \A x \in Waves : <<x, u>> \in started => <<x, u>> # p
    BY <1>0
  <2>2. QED
    BY <1>0, <2>0, <2>1 DEF Begun, Open, Types
<1>3. miscounted \subseteq miscounted'
  BY <1>0
<1>4. QED
  BY <1>0, <1>1, <1>2, <1>3 DEF CountIsExact, Begun

\* Every other step leaves counts, reports and rows alone, or adds a row.
LEMMA OtherStepsExact ==
    ASSUME Types, StartedIsRouted, CountIsExact,
           \/ \E w \in Workers :
                 Launch(w) \/ Start(w) \/ Heartbeat(w) \/ Signal(w)
                 \/ MarkOffline(w) \/ Crash(w)
           \/ Tick
           \/ \E c \in Callers :
                 \/ \E v \in Waves : Choose(c, v) \/ FindNobody(c, v)
                 \/ Publish(c) \/ RouteFails(c)
    PROVE  StartedIsRouted' /\ CountIsExact'
<1> USE DEF registry
<1>1. rows' = rows /\ active' = active /\ running' \subseteq running /\ UNCHANGED history
  BY DEF Launch, Start, Heartbeat, Signal, MarkOffline, Crash, Dropped, Tick,
         Choose, FindNobody, Publish, RouteFails
<1>2. QED
  BY <1>1, AddingRowsExact

LEMMA InsertExact ==
    ASSUME Types, StartedIsRouted, CountIsExact, NEW c \in Callers, Insert(c)
    PROVE  StartedIsRouted' /\ CountIsExact'
<1>1. /\ active' = active /\ running' = running /\ UNCHANGED history
      /\ rows' = [rows EXCEPT ![<<wave[c], chosen[c]>>] = IF @ = "NONE" THEN "OPEN" ELSE @]
  BY DEF Insert, registry
<1>2. ASSUME NEW p \in Pairs
      PROVE  rows'[p] = rows[p] \/ (rows[p] = "NONE" /\ rows'[p] = "OPEN")
  BY <1>1 DEF Types
<1>3. QED
  BY <1>1, <1>2, AddingRowsExact

\* At first nothing was started.
LEMMA ExactInit == Init => StartedIsRouted /\ CountIsExact
<1> SUFFICES ASSUME Init PROVE StartedIsRouted /\ CountIsExact
  OBVIOUS
<1>1. \A w \in Workers : Begun(w) = {} /\ active[w] = 0
  BY DEF Init, Begun
<1>2. CountIsExact
  BY <1>1, FS_EmptySet DEF CountIsExact, Begun
<1>3. QED
  BY <1>2 DEF Init, StartedIsRouted

-----------------------------------------------------------------------------
(* The theorems.                                                           *)

\* IInv is inductive.
LEMMA Invariance == Spec => []IInv
<1>1. Init => IInv
  BY TypesInit, LoadInit, ExactInit DEF IInv
<1>2. IInv /\ [Next]_vars => IInv'
  <2> SUFFICES ASSUME IInv, [Next]_vars PROVE IInv'
    OBVIOUS
  <2>0. Types /\ StoppedIsOffline /\ Load /\ StartedIsRouted /\ CountIsExact
    BY DEF IInv
  <2>1. CASE Next
    <3>1. Types' /\ StoppedIsOffline'
      BY <2>0, <2>1, ProcessTypes, TickTypes, RouteTypes, TaskTypes DEF Next
    <3>2. Load'
      BY <2>0, <2>1, OtherStepsCount, InsertCounts, RetiringCounts, StartTaskCounts,
         CompleteTaskCounts DEF Next
    <3>3. StartedIsRouted' /\ CountIsExact'
      BY <2>0, <2>1, OtherStepsExact, InsertExact, RetiringExact, StartTaskExact,
         CompleteTaskExact DEF Next
    <3>4. QED
      BY <3>1, <3>2, <3>3 DEF IInv
  <2>2. CASE UNCHANGED vars
    <3>1. Types' /\ StoppedIsOffline'
      BY <2>0, <2>2 DEF vars, Types, StoppedIsOffline
    <3>2. Load'
      BY <2>0, <2>2, AddingRowsIsFine DEF vars
    <3>3. StartedIsRouted' /\ CountIsExact'
      BY <2>0, <2>2, AddingRowsExact DEF vars, history
    <3>4. QED
      BY <3>1, <3>2, <3>3 DEF IInv
  <2>3. QED
    BY <2>1, <2>2
<1>3. QED
  BY <1>1, <1>2, PTL DEF Spec

\* The variables keep their types, and active_tasks of a worker never exceeds
\* the number of waves.
THEOREM TypeCorrect == Spec => []TypeOK
<1>1. IInv => TypeOK
  <2> SUFFICES ASSUME IInv PROVE TypeOK
    OBVIOUS
  <2>1. ASSUME NEW w \in Workers
        PROVE  active[w] \in 0..Cardinality(Waves)
    <3>1. Open(w) \cap Retired(w) = {} /\ Open(w) \cup Retired(w) \in SUBSET Waves
      BY DEF Open, Retired
    <3>2. /\ IsFiniteSet(Open(w)) /\ IsFiniteSet(Retired(w))
          /\ Cardinality(Open(w)) \in Nat /\ Cardinality(Retired(w)) \in Nat
      BY WaveSets, SomeWaves
    <3>3. Cardinality(Open(w) \cup Retired(w)) = Cardinality(Open(w)) + Cardinality(Retired(w))
      <4>1. Cardinality(Open(w) \cup Retired(w)) =
                Cardinality(Open(w)) + Cardinality(Retired(w)) - Cardinality({})
        BY <3>1, <3>2, FS_Union
      <4>2. QED
        BY <3>2, <4>1, FS_EmptySet
    <3>4. /\ Cardinality(Open(w) \cup Retired(w)) <= Cardinality(Waves)
          /\ Cardinality(Waves) \in Nat
      BY <3>1, SomeWaves
    <3>5. active[w] \in Nat /\ active[w] <= Cardinality(Open(w)) + Cardinality(Retired(w))
      BY DEF IInv, Types, Load, LoadIsAccounted
    <3>6. QED
      BY <3>2, <3>3, <3>4, <3>5
  <2>2. active \in [Workers -> 0..Cardinality(Waves)]
    BY <2>1 DEF IInv, Types
  <2>3. QED
    BY <2>2 DEF IInv, Types, TypeOK
<1>2. QED
  BY <1>1, Invariance, PTL

\* A worker that stopped gracefully stays OFFLINE until it is launched again.
THEOREM GracefulStop == Spec => []StoppedIsOffline
<1>1. IInv => StoppedIsOffline
  BY DEF IInv
<1>2. QED
  BY <1>1, Invariance, PTL

\* active_tasks never falls below the open waves a worker executes.
THEOREM NothingUncounted == Spec => []RunningIsCounted
<1>1. IInv => RunningIsCounted
  BY DEF IInv, Load
<1>2. QED
  BY <1>1, Invariance, PTL

\* active_tasks exceeds the open waves at most by those that an operator
\* retired.
THEOREM LoadAccounted == Spec => []LoadIsAccounted
<1>1. IInv => LoadIsAccounted
  BY DEF IInv, Load
<1>2. QED
  BY <1>1, Invariance, PTL

\* Rows of the routing log are neither deleted nor reopened.
THEOREM LogIsAppendOnly == Spec => RowsOnlyAdvance
<1> DEFINE Advance == \A p \in Pairs : rows'[p] # rows[p] =>
          \/ rows[p] = "NONE" /\ rows'[p] = "OPEN"
          \/ rows[p] = "OPEN" /\ rows'[p] \in {"COMPLETED", "RETIRED"}
<1>1. IInv /\ [Next]_vars => [Advance]_vars
  <2> SUFFICES ASSUME IInv, Next PROVE Advance
    OBVIOUS
  <2>0. rows \in [Pairs -> RowStates]
    BY DEF IInv, Types
  <2>1. ASSUME NEW c \in Callers, Insert(c) PROVE Advance
    BY <2>0, <2>1 DEF Insert
  <2>2. ASSUME NEW p \in Pairs, MarkRoutingComplete(p) PROVE Advance
    BY <2>0, <2>2 DEF MarkRoutingComplete
  <2>3. ASSUME NEW w \in Workers, NEW v \in Waves, CompleteTask(w, v) PROVE Advance
    BY <2>0, <2>3 DEF CompleteTask
  <2>4. CASE rows' = rows
    BY <2>4
  <2>5. QED
    BY <2>1, <2>2, <2>3, <2>4
       DEF Next, Launch, Start, Heartbeat, Signal, MarkOffline, Crash, Tick,
           Choose, FindNobody, Publish, RouteFails, StartTask
<1>2. QED
  BY <1>1, Invariance, PTL DEF Spec, RowsOnlyAdvance

\* active_tasks is the number of open waves whose start was reported, over any
\* crashes, repeated reports and overlapping routes, for every worker none of
\* whose begun waves was retired and none of whose reports was counted twice.
THEOREM CountStaysExact == Spec => []CountIsExact
<1>1. IInv => CountIsExact
  BY DEF IInv
<1>2. QED
  BY <1>1, Invariance, PTL

\* For the other workers active_tasks stays between the waves they execute and
\* their open and retired ones (mark_task_started(), mark_task_completed(),
\* mark_routing_complete()).
THEOREM LoadStaysExact == Spec => []LoadIsExact
<1>1. TypeOK /\ CountIsExact /\ RunningIsCounted /\ LoadIsAccounted => LoadIsExact
  BY DEF LoadIsExact
<1>2. QED
  BY <1>1, TypeCorrect, CountStaysExact, NothingUncounted, LoadAccounted, PTL
=============================================================================

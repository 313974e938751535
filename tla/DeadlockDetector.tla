--------------------------- MODULE DeadlockDetector ---------------------------
(***************************************************************************)
(* core/runtime/deadlock_detector.py over the MemoryLock of lock.py:       *)
(* agents take locks and wait for one another; the detector looks for      *)
(* cycles of the wait-for graph and fails a victim of each.                *)
(*                                                                         *)
(* An agent is external: it asks for locks, for several at a time if it    *)
(* likes, until it gets them, and registers the wait when it is refused.   *)
(* What the supervisor does with a victim is in Supervisor.                *)
(***************************************************************************)
EXTENDS Naturals, Sequences, FiniteSets

CONSTANTS
    Members,        \* agents
    Resources,      \* lock keys
    Uses,           \* bound: {agent, key} for the locks an agent asks for
    NoMember,
    MaxEdges        \* bound: edges of the wait-for graph

ASSUME DetectorAssumption == NoMember \notin Members /\ MaxEdges \in Nat

VARIABLES
    owner,          \* MemoryLock._locks
    edges,          \* _wait_for_edges: <<waiter, holder, resource>>
    member          \* "working", "waiting", "over": the agent itself

detectorVars == <<owner, edges, member>>
-----------------------------------------------------------------------------
DetectorTypeOK ==
    /\ owner \in [Resources -> Members \cup {NoMember}]
    /\ edges \in Seq(Members \X Members \X Resources)
    /\ member \in [Members -> {"working", "waiting", "over"}]

DetectorInit ==
    /\ owner = [r \in Resources |-> NoMember] /\ edges = <<>>
    /\ member = [a \in Members |-> "working"]

EdgeSet == {edges[i] : i \in DOMAIN edges}
-----------------------------------------------------------------------------
(* The locks and the wait-for graph.                                       *)

\* acquire() and, on a refusal, register_wait(); on success clear_wait().
Acquire(a, r) ==
    /\ member[a] # "over" /\ {a, r} \in Uses
    /\ IF owner[r] \in {NoMember, a}
         THEN /\ owner' = [owner EXCEPT ![r] = a]
              /\ edges' = SelectSeq(edges, LAMBDA e : ~(e[1] = a /\ e[3] = r))
              /\ member' = [member EXCEPT ![a] =
                              IF \E e \in EdgeSet : e[1] = a /\ e[3] # r THEN @ ELSE "working"]
         ELSE /\ <<a, owner[r], r>> \notin EdgeSet /\ Len(edges) < MaxEdges
              /\ edges' = Append(edges, <<a, owner[r], r>>)
              /\ member' = [member EXCEPT ![a] = "waiting"]
              /\ UNCHANGED owner

Release(a, r) ==
    /\ member[a] = "working" /\ owner[r] = a
    /\ owner' = [owner EXCEPT ![r] = NoMember]
    /\ UNCHANGED <<edges, member>>

\* build_wait_for_graph_from_locks(): holders are brought up to date, except
\* where the lock is free by now.
RebuildGraph ==
    /\ edges' = [i \in DOMAIN edges |->
                   <<edges[i][1],
                     IF owner[edges[i][3]] = NoMember THEN edges[i][2] ELSE owner[edges[i][3]],
                     edges[i][3]>>]
    /\ UNCHANGED <<owner, member>>

\* graph[n]: the holders n waits for, in the order of the edges.
Neighbours(n) ==
    LET mine == SelectSeq(edges, LAMBDA e : e[1] = n)
    IN [i \in DOMAIN mine |-> mine[i][2]]

\* What a search knows: the nodes it visited, the path to the present one and
\* the cycles it found.
Search == [visited : SUBSET Members, path : Seq(Members), cycles : Seq(Seq(Members))]

\* dfs() of the nodes ns in their order: one that is new is visited with its
\* neighbours, one that is on the path closes a cycle.
Dfs[ns \in Seq(Members), s \in Search] ==
    IF ns = <<>> THEN s
    ELSE LET n == Head(ns)
             onPath == {i \in DOMAIN s.path : s.path[i] = n}
             cycle == SubSeq(s.path, CHOOSE i \in onPath : TRUE, Len(s.path))
             known == \E i \in DOMAIN s.cycles : s.cycles[i] = cycle
             inside == Dfs[Neighbours(n),
                           [s EXCEPT !.visited = @ \cup {n}, !.path = Append(@, n)]]
         IN Dfs[Tail(ns),
                IF n \notin s.visited THEN [inside EXCEPT !.path = s.path]
                ELSE IF onPath = {} \/ known THEN s
                ELSE [s EXCEPT !.cycles = Append(@, cycle)]]

\* _find_cycles(): the roots in the order in which they became waiters; nothing
\* is on the path between two of them.
FindCycles ==
    Dfs[[i \in DOMAIN edges |-> edges[i][1]],
        [visited |-> {}, path |-> <<>>, cycles |-> <<>>]].cycles

SelectVictim(cycle) == cycle[Len(cycle)]

Victims == LET cs == FindCycles IN {SelectVictim(cs[i]) : i \in DOMAIN cs}

\* The resources of the cycles v is the victim of; of two edges between the
\* same agents the later one counts.
CycleResources(v) ==
    LET cs == FindCycles
        res(w, h) == LET js == {j \in DOMAIN edges : edges[j][1] = w /\ edges[j][2] = h}
                     IN edges[CHOOSE j \in js : \A k \in js : k <= j][3]
    IN UNION {{res(cs[i][j], cs[i][(j % Len(cs[i])) + 1]) : j \in DOMAIN cs[i]} :
                i \in {i \in DOMAIN cs : SelectVictim(cs[i]) = v}}

\* Mutant: the edges of the victim stay.
ResolveKeepsEdges ==
    /\ Victims # {}
    /\ owner' = [r \in Resources |->
                   IF owner[r] \in Victims /\ r \in CycleResources(owner[r])
                   THEN NoMember ELSE owner[r]]
    /\ member' = [a \in Members |-> IF a \in Victims THEN "over" ELSE member[a]]
    /\ UNCHANGED edges

\* detect_and_resolve(): for every cycle the victim's locks of the cycle are
\* released, its edges are dropped and it is failed.
DetectAndResolve ==
    /\ Victims # {}
    /\ owner' = [r \in Resources |->
                   IF owner[r] \in Victims /\ r \in CycleResources(owner[r])
                   THEN NoMember ELSE owner[r]]
    /\ edges' = SelectSeq(edges, LAMBDA e : e[1] \notin Victims /\ e[2] \notin Victims)
    /\ member' = [a \in Members |-> IF a \in Victims THEN "over" ELSE member[a]]

\* An agent is done; its locks and its edges stay as they are.
MemberLeaves(a) ==
    /\ member[a] \in {"working", "waiting"}
    /\ member' = [member EXCEPT ![a] = "over"]
    /\ UNCHANGED <<owner, edges>>

DetectorNext ==
    \/ \E a \in Members :
         \/ MemberLeaves(a)
         \/ \E r \in Resources : Acquire(a, r) \/ Release(a, r)
    \/ RebuildGraph \/ DetectAndResolve
-----------------------------------------------------------------------------
(* Properties.                                                             *)

WaitsFor(es) == {<<es[i][1], es[i][2]>> : i \in DOMAIN es}

\* The agents on a cycle of relation w.
OnCycle(w) ==
    LET after(A) == {e[2] : e \in {e \in w : e[1] \in A}}
        reach[A \in SUBSET Members] ==
            IF after(A) \subseteq A THEN A ELSE reach[A \cup after(A)]
    IN {a \in Members : a \in reach[after({a})]}

\* After a resolution no cycle is left in the wait-for graph, although the
\* search visits every agent once and reports one cycle for each edge that
\* closes one: the victim is the agent that edge leaves.
NoCycleLeft ==
    [][DetectAndResolve => OnCycle(WaitsFor(edges')) = {}]_detectorVars

\* Every edge names the present owner of its lock.
GraphIsCurrent == \A e \in EdgeSet : owner[e[3]] = e[2]

\* When the graph is up to date, every deadlock that is found costs its victim
\* a lock another agent of a deadlock waits for, so that this one can go on.
DeadlockIsBroken ==
    [][DetectAndResolve /\ GraphIsCurrent =>
         \A v \in Victims :
           \E e \in EdgeSet : /\ e[2] = v /\ e[1] \in OnCycle(WaitsFor(edges)) \ {v}
                            /\ owner[e[3]] = v /\ owner'[e[3]] = NoMember]_detectorVars

\* A resolution leaves no deadlock behind, in the graph or among the agents.
DeadlocksGo == []DetectorTypeOK /\ NoCycleLeft /\ DeadlockIsBroken
=============================================================================

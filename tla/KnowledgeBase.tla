--------------------------- MODULE KnowledgeBase ---------------------------
(***************************************************************************)
(* core/memory/consolidation.py and knowledge_graph.py: a consolidation    *)
(* turns episodes into experiences, facts and a graph, with waits for the  *)
(* model and the database in between. All but the graph's rows is lost     *)
(* with the process.                                                       *)
(***************************************************************************)
EXTENDS Integers, SequencesExt

CONSTANTS
    Episodes,       \* episodes by content: the fingerprint
    Nameless,       \* those without a mission_id
    GoalName,       \* the goal all of them pursued
    Extractable,    \* names the model may find in their text
    Cycles,         \* consolidations under way at most
    MaxRecorded,    \* bound on the recorded episodes
    Limit,          \* limit of consolidate()
    NoNode

ASSUME KnowledgeAssumption ==
    /\ Nameless \subseteq Episodes /\ MaxRecorded \in Nat /\ Limit \in Nat \ {0}
    /\ NoNode \notin {"mission", "goal", "concept"}

VARIABLES
    episodes,       \* EpisodicMemory._episodes
    consolidated,   \* MemoryConsolidation._consolidated
    lessons,        \* of every episode: experiences and facts made of it
    nodes,          \* KnowledgeGraph.nodes: the type under every name
    relations,      \* KnowledgeGraph.relations
    nodeRows,       \* graph_nodes
    edgeRows,       \* graph_edges
    cycle,          \* the consolidations
    lost,           \* history: episodes whose consolidation was cut off
    muddled         \* history: consolidations overlapped or a row was not written

knowledgeVars == <<episodes, consolidated, lessons, nodes, relations, nodeRows,
                   edgeRows, cycle, lost, muddled>>
-----------------------------------------------------------------------------
Entities == Episodes \cup {GoalName} \cup Extractable
NoLessons == [e \in Episodes |-> [experiences |-> 0, facts |-> 0]]
NoCycle == [on |-> FALSE, todo |-> <<>>, at |-> "next", work |-> <<>>, saving |-> FALSE]

Named == {n \in Entities : nodes[n] # NoNode}
Running == {c \in Cycles : cycle[c].on}
CycleAt(c, step) == cycle[c].on /\ cycle[c].at = step
InWork(c) == Head(cycle[c].todo)

KnowledgeInit ==
    /\ episodes = <<>> /\ consolidated = {} /\ lessons = NoLessons
    /\ nodes = [n \in Entities |-> NoNode] /\ relations = {}
    /\ nodeRows = nodes /\ edgeRows = {} /\ lost = {} /\ muddled = FALSE
    /\ cycle = [c \in Cycles |-> NoCycle]

RecordEpisode(e) ==
    /\ Len(episodes) < MaxRecorded /\ episodes' = Append(episodes, e)
    /\ UNCHANGED <<consolidated, lessons, nodes, relations, nodeRows, edgeRows, cycle, lost, muddled>>

GetRecentEpisodes ==
    SubSeq(episodes, IF Len(episodes) > Limit THEN Len(episodes) - Limit + 1 ELSE 1, Len(episodes))

Consolidate(c) ==
    /\ ~cycle[c].on /\ episodes # <<>>
    /\ cycle' = [cycle EXCEPT ![c] = [NoCycle EXCEPT !.on = TRUE, !.todo = GetRecentEpisodes]]
    /\ muddled' = (muddled \/ Running # {})
    /\ UNCHANGED <<episodes, consolidated, lessons, nodes, relations, nodeRows, edgeRows, lost>>

\* A known fingerprint is passed over; a new one is noted before anything waits, and
\* the experience is saved with it.
NextEpisode(c) ==
    /\ CycleAt(c, "next") /\ cycle[c].todo # <<>>
    /\ IF InWork(c) \in consolidated
       THEN cycle' = [cycle EXCEPT ![c].todo = Tail(@)] /\ UNCHANGED <<consolidated, lessons>>
       ELSE /\ consolidated' = consolidated \cup {InWork(c)}
            /\ lessons' = [lessons EXCEPT ![InWork(c)].experiences = @ + 1]
            /\ cycle' = [cycle EXCEPT ![c].at = "distill"]
    /\ UNCHANGED <<episodes, nodes, relations, nodeRows, edgeRows, lost, muddled>>

Node(n, type) == [from |-> n, to |-> n, type |-> type]
Edge(a, b) == [from |-> a, to |-> b, type |-> "edge"]
IsNode(item) == item.type # "edge"

\* The model has answered or failed: the fact is added, mission and goal come next.
DistillFact(c) ==
    /\ CycleAt(c, "distill")
    /\ lessons' = [lessons EXCEPT ![InWork(c)].facts = @ + 1]
    /\ cycle' = [cycle EXCEPT ![c].at = "graph", ![c].work =
         IF InWork(c) \in Nameless THEN <<>>
         ELSE <<Node(InWork(c), "mission"), Node(GoalName, "goal"), Edge(InWork(c), GoalName)>>]
    /\ UNCHANGED <<episodes, consolidated, nodes, relations, nodeRows, edgeRows, lost, muddled>>

\* What the model, or the heuristic, finds in the text; it may be the goal's own name.
ExtractEntities(c, n) ==
    /\ CycleAt(c, "graph") /\ cycle[c].work = <<>>
    /\ cycle' = [cycle EXCEPT ![c].at = "extract", ![c].work =
         IF n = NoNode THEN <<>> ELSE <<Node(n, "concept"), Edge(GoalName, n)>>]
    /\ UNCHANGED <<episodes, consolidated, lessons, nodes, relations, nodeRows, edgeRows, lost, muddled>>

EpisodeDone(c) ==
    /\ CycleAt(c, "extract") /\ cycle[c].work = <<>>
    /\ cycle' = [cycle EXCEPT ![c].at = "next", ![c].todo = Tail(@)]
    /\ UNCHANGED <<episodes, consolidated, lessons, nodes, relations, nodeRows, edgeRows, lost, muddled>>

ConsolidateReturns(c) ==
    /\ CycleAt(c, "next") /\ cycle[c].todo = <<>> /\ cycle' = [cycle EXCEPT ![c] = NoCycle]
    /\ UNCHANGED <<episodes, consolidated, lessons, nodes, relations, nodeRows, edgeRows, lost, muddled>>
-----------------------------------------------------------------------------
\* add_entity(), add_relation(): memory first ...
AddToGraph(c) ==
    /\ cycle[c].work # <<>> /\ ~cycle[c].saving
    /\ LET item == Head(cycle[c].work)
       IN IF IsNode(item)
          THEN nodes' = [nodes EXCEPT ![item.from] = item.type] /\ UNCHANGED relations
          ELSE relations' = relations \cup {<<item.from, item.to>>} /\ UNCHANGED nodes
    /\ cycle' = [cycle EXCEPT ![c].saving = TRUE]
    /\ UNCHANGED <<episodes, consolidated, lessons, nodeRows, edgeRows, lost, muddled>>

Saved(c) == cycle' = [cycle EXCEPT ![c].saving = FALSE, ![c].work = Tail(@)]

\* ... then the row.
Persist(c) ==
    /\ cycle[c].saving /\ Saved(c)
    /\ LET item == Head(cycle[c].work)
       IN IF IsNode(item)
          THEN nodeRows' = [nodeRows EXCEPT ![item.from] = item.type] /\ UNCHANGED edgeRows
          ELSE edgeRows' = edgeRows \cup {<<item.from, item.to>>} /\ UNCHANGED nodeRows
    /\ UNCHANGED <<episodes, consolidated, lessons, nodes, relations, lost, muddled>>

\* An error of the database is logged.
PersistFails(c) ==
    /\ cycle[c].saving /\ Saved(c) /\ muddled' = TRUE
    /\ UNCHANGED <<episodes, consolidated, lessons, nodes, relations, nodeRows, edgeRows, lost>>

InHand(c) == IF cycle[c].on /\ cycle[c].at # "next" THEN {InWork(c)} ELSE {}

\* The caller of consolidate() is cancelled: the episode in hand is not taken up again.
CutOffCycle(c) ==
    /\ cycle[c].on /\ cycle' = [cycle EXCEPT ![c] = NoCycle]
    /\ lost' = lost \cup InHand(c) /\ muddled' = (muddled \/ cycle[c].saving)
    /\ UNCHANGED <<episodes, consolidated, lessons, nodes, relations, nodeRows, edgeRows>>

\* The process starts again. load_from_db() brings back the nodes; it knows no name
\* for the ends of an edge, so the relations stay empty.
RestartAndLoad ==
    /\ episodes' = <<>> /\ consolidated' = {} /\ lessons' = NoLessons
    /\ nodes' = nodeRows /\ relations' = {}
    /\ cycle' = [c \in Cycles |-> NoCycle] /\ lost' = {} /\ muddled' = FALSE
    /\ UNCHANGED <<nodeRows, edgeRows>>

KnowledgeNext ==
    \/ \E e \in Episodes : RecordEpisode(e)
    \/ RestartAndLoad
    \/ \E c \in Cycles :
         \/ Consolidate(c) \/ NextEpisode(c) \/ DistillFact(c)
         \/ \E n \in Extractable \cup {NoNode} : ExtractEntities(c, n)
         \/ EpisodeDone(c) \/ ConsolidateReturns(c)
         \/ AddToGraph(c) \/ Persist(c) \/ PersistFails(c) \/ CutOffCycle(c)
-----------------------------------------------------------------------------
(* Properties.                                                             *)

KnowledgeTypeOK ==
    /\ episodes \in Seq(Episodes) /\ consolidated \subseteq Episodes
    /\ \A n \in Entities : nodes[n] \in {"mission", "goal", "concept", NoNode}
    /\ relations \subseteq Entities \X Entities /\ lost \subseteq consolidated

\* An episode is made into one experience and one fact, however often it was recorded
\* and however many consolidations run at once.
NoEpisodeTwice == \A e \in Episodes : lessons[e].experiences <= 1 /\ lessons[e].facts <= 1

\* A fingerprint that no consolidation holds and none was cut off with stands for
\* finished work: the fact is there, and the mission is joined to its goal.
ConsolidatedIsComplete ==
    \A e \in consolidated \ (lost \cup UNION {InHand(c) : c \in Cycles}) :
        /\ lessons[e].facts = 1
        /\ e \notin Nameless => {e, GoalName} \subseteq Named /\ <<e, GoalName>> \in relations

\* A relation joins entities the graph knows; only the goal of an episode without a
\* mission may be missing.
EdgesHaveNodes ==
    \A r \in relations : r[2] \in Named /\ (r[1] \in Named \/ (r[1] = GoalName /\ consolidated \cap Nameless # {}))

\* What the graph holds in memory is in the database once nothing is under way, unless
\* a write failed or consolidations wrote the same entity side by side.
GraphIsStored ==
    Running = {} /\ ~muddled => nodes = nodeRows /\ relations \subseteq edgeRows

\* What becomes of the episodes.
KnowledgeSafe ==
    KnowledgeTypeOK /\ NoEpisodeTwice /\ ConsolidatedIsComplete /\ EdgesHaveNodes /\ GraphIsStored
=============================================================================

--------------------------- MODULE WorkflowEngine ---------------------------
(***************************************************************************)
(* core/workflow: a graph of nodes runs level by level; the nodes of a     *)
(* level run side by side and are retried; the first failure ends the run  *)
(* while its siblings go on; resume() starts from the checkpoint the run   *)
(* left and skips the nodes it names.                                      *)
(***************************************************************************)
EXTENDS Integers, FiniteSets

CONSTANTS
    WorkNodes,      \* nodes of the graph
    TypesHandled,        \* nodes whose task_type has a handler
    WorkAttempts,   \* max_attempts (3 in the code)
    MaxRuns         \* bound: the run and its resumptions

ASSUME WorkAssumption ==
    /\ TypesHandled \subseteq WorkNodes
    /\ WorkAttempts \in Nat \ {0} /\ MaxRuns \in Nat \ {0}

VARIABLES
    graph,          \* the dependencies of this graph
    runNo,          \* run() is 1, each resume() one more
    runPhase,       \* idle, running, failed, succeeded, invalid
    scheduled,      \* completed of DAGScheduler.schedule(): the levels handed out
    level,          \* pending_wave
    finished,       \* completed of WorkflowExecutor.execute()
    nodeState,      \* each node in each run
    nodeTries,      \* attempts it has made
    outputs,        \* outputs of each run
    skipped,        \* initial_completed
    checkpoint      \* completed_nodes and outputs of the checkpoint, empty before the first

nodeVars == <<nodeState, nodeTries, outputs>>
workVars == <<graph, runNo, runPhase, scheduled, level, finished, nodeVars, skipped, checkpoint>>
-----------------------------------------------------------------------------
RunNos == 1 .. MaxRuns

Edges == {e \in WorkNodes \X WorkNodes : e[1] # e[2]}
Needs(n) == {m \in WorkNodes : <<n, m>> \in graph}

\* validate(): no cycle, i.e. every set of nodes has one that needs no other of it.
ValidGraph ==
    \A s \in SUBSET WorkNodes \ {{}} : \E n \in s : Needs(n) \cap s = {}

WorkInit ==
    /\ graph \in SUBSET Edges
    /\ runNo = 0 /\ runPhase = "idle" /\ scheduled = {} /\ level = {} /\ finished = {}
    /\ nodeState = [r \in RunNos |-> [n \in WorkNodes |-> "no"]]
    /\ nodeTries = [r \in RunNos |-> [n \in WorkNodes |-> 0]]
    /\ outputs = [r \in RunNos |-> {}]
    /\ skipped = {}
    /\ checkpoint = [done |-> {}, out |-> {}, shared |-> FALSE]

Begin(done) ==
    /\ runNo' = runNo + 1 /\ runPhase' = "running"
    /\ scheduled' = {} /\ level' = {} /\ finished' = done /\ skipped' = done
    /\ UNCHANGED <<graph, checkpoint>> /\ UNCHANGED nodeVars

\* run()
RunWorkflow ==
    /\ runNo = 0
    /\ \/ ValidGraph /\ Begin({})
       \/ /\ ~ValidGraph /\ runPhase = "idle" /\ runPhase' = "invalid"
          /\ UNCHANGED <<graph, runNo, scheduled, level, finished, skipped, checkpoint>>
          /\ UNCHANGED nodeVars

\* Mutant: the completed nodes are not passed on.
ResumeFromStart ==
    /\ runPhase \in {"failed", "succeeded"} /\ runNo < MaxRuns
    /\ runNo' = runNo + 1 /\ runPhase' = "running"
    /\ scheduled' = {} /\ level' = {} /\ finished' = {} /\ skipped' = checkpoint.done
    /\ UNCHANGED <<graph, checkpoint>> /\ UNCHANGED nodeVars

\* resume(): only the nodes the checkpoint does not name. Nodes that the failed
\* run left behind may still be at work.
ResumeWorkflow ==
    /\ runPhase \in {"failed", "succeeded"} /\ runNo < MaxRuns
    /\ Begin(checkpoint.done)

\* schedule() yields the next level; nodes completed before are left out.
NextLevel ==
    /\ runPhase = "running" /\ scheduled # WorkNodes
    /\ \A n \in level : nodeState[runNo][n] = "ok"
    /\ LET wave == {n \in WorkNodes \ scheduled : Needs(n) \subseteq scheduled}
           pending == wave \ (finished \cup level)
       IN /\ scheduled' = scheduled \cup wave
          /\ level' = pending
          /\ nodeState' = [nodeState EXCEPT ![runNo] =
                             [n \in WorkNodes |-> IF n \in pending THEN "run" ELSE nodeState[runNo][n]]]
          /\ nodeTries' = [nodeTries EXCEPT ![runNo] =
                             [n \in WorkNodes |-> IF n \in pending THEN 1 ELSE nodeTries[runNo][n]]]
    /\ finished' = finished \cup level
    /\ UNCHANGED <<graph, runNo, runPhase, outputs, skipped, checkpoint>>

UnchangedRun == UNCHANGED <<graph, runNo, runPhase, scheduled, level, finished, skipped, checkpoint>>

\* A node without handler has the output None.
NodeSucceeds(r, n) ==
    /\ nodeState[r][n] = "run"
    /\ nodeState' = [nodeState EXCEPT ![r][n] = "ok"]
    /\ outputs' = [outputs EXCEPT ![r] = @ \cup {n}]
    /\ UNCHANGED nodeTries /\ UnchangedRun

\* execute_with_retry(): another attempt after the backoff,
NodeRetries(r, n) ==
    /\ nodeState[r][n] = "run" /\ n \in TypesHandled /\ nodeTries[r][n] < WorkAttempts
    /\ nodeTries' = [nodeTries EXCEPT ![r][n] = @ + 1]
    /\ UNCHANGED <<nodeState, outputs>> /\ UnchangedRun

\* or, for the last attempt and for an error that is not retryable, failure.
NodeFails(r, n) ==
    /\ nodeState[r][n] = "run" /\ n \in TypesHandled
    /\ nodeState' = [nodeState EXCEPT ![r][n] = "bad"]
    /\ UNCHANGED <<nodeTries, outputs>> /\ UnchangedRun

\* _save_checkpoint(): run() stores the very dictionary its nodes write to,
\* resume() a merged copy.
SaveCheckpoint(done) ==
    checkpoint' = [done |-> done, shared |-> runNo = 1,
                   out |-> IF runNo = 1 THEN {}
                           ELSE checkpoint.out \cup outputs[runNo]
                                \cup (IF checkpoint.shared THEN outputs[1] ELSE {})]

\* gather() raises the first failure; the level counts as not done at all.
RunFails ==
    /\ runPhase = "running" /\ \E n \in level : nodeState[runNo][n] = "bad"
    /\ runPhase' = "failed"
    /\ SaveCheckpoint(finished)
    /\ UNCHANGED <<graph, runNo, scheduled, level, finished, skipped>> /\ UNCHANGED nodeVars

RunSucceeds ==
    /\ runPhase = "running" /\ scheduled = WorkNodes
    /\ \A n \in level : nodeState[runNo][n] = "ok"
    /\ runPhase' = "succeeded" /\ finished' = finished \cup level
    /\ SaveCheckpoint(finished \cup level)
    /\ UNCHANGED <<graph, runNo, scheduled, level, skipped>> /\ UNCHANGED nodeVars

WorkNext ==
    \/ RunWorkflow \/ ResumeWorkflow \/ NextLevel \/ RunFails \/ RunSucceeds
    \/ \E r \in RunNos, n \in WorkNodes :
         NodeSucceeds(r, n) \/ NodeRetries(r, n) \/ NodeFails(r, n)
-----------------------------------------------------------------------------
(* Properties.                                                             *)

WorkTypeOK ==
    /\ graph \subseteq Edges /\ runNo \in 0 .. MaxRuns
    /\ runPhase \in {"idle", "running", "failed", "succeeded", "invalid"}
    /\ scheduled \cup level \cup finished \cup skipped \subseteq WorkNodes
    /\ nodeState \in [RunNos -> [WorkNodes -> {"no", "run", "ok", "bad"}]]
    /\ nodeTries \in [RunNos -> [WorkNodes -> 0 .. WorkAttempts]]

HasSucceeded(n) == \E r \in RunNos : nodeState[r][n] = "ok"
CheckpointOutputs == checkpoint.out \cup (IF checkpoint.shared THEN outputs[1] ELSE {})

\* A node starts only when everything it needs has succeeded, in this run or in
\* one it resumes.
StartsAfterNeeds ==
    \A r \in RunNos, n \in WorkNodes :
        nodeState[r][n] # "no" => \A m \in Needs(n) : HasSucceeded(m)

\* The checkpoint names only nodes that succeeded, with all they need and with
\* their outputs, though nodes of a failed run still write into it.
CheckpointIsTrue ==
    \A n \in checkpoint.done :
        HasSucceeded(n) /\ Needs(n) \subseteq checkpoint.done /\ n \in CheckpointOutputs

\* What a checkpoint names is not executed again.
DoneOnce == \A n \in skipped : nodeState[runNo][n] = "no"

\* A run that succeeded has done every node of the graph.
SuccessIsComplete == runPhase = "succeeded" => finished = WorkNodes

\* The workflow engine.
WorkSafe == WorkTypeOK /\ StartsAfterNeeds /\ CheckpointIsTrue /\ DoneOnce /\ SuccessIsComplete
=============================================================================

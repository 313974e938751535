--------------------------- MODULE MissionManager ---------------------------
(***************************************************************************)
(* core/runtime/mission.py: a durable mission, the API calls that start,   *)
(* pause, resume, cancel and roll it back, and the background loops that   *)
(* execute its plan, with crashes and restarts of the process.             *)
(*                                                                         *)
(* Missions share nothing but the dictionary _running_tasks, which is      *)
(* keyed by mission, so the module follows one. Every database transaction *)
(* is one step; a coroutine is always just before its next transaction, or *)
(* in the orchestrator. Timeline rows are only written, never read: they   *)
(* are left out, and what their failing does is kept.                      *)
(***************************************************************************)
EXTENDS Integers, FiniteSets

CONSTANTS
    Loops,          \* asyncio tasks that run _execute_mission_loop
    NoLoop,         \* no entry in _running_tasks
    Steps,          \* len(plan_data); a wave of the parallel plan is one step
    Plans,          \* what planning can yield: the steps with a destructive word
    Cost,           \* estimated_cost of a step
    Limit,          \* budget_limit
    MaxRestarts,    \* bound: how often the process crashes or stops
    MaxCalls        \* bound: how many API calls are under way at once

ASSUME StepAssumption ==
    /\ Steps \in Nat \ {0} /\ Plans \subseteq SUBSET (0 .. Steps - 1)
    /\ Cost \in Nat /\ Limit \in Nat /\ MaxRestarts \in Nat /\ MaxCalls \in Nat

ASSUME LoopAssumption == NoLoop \notin Loops /\ IsFiniteSet(Loops)

VARIABLES
    status, step, used, checkpoints,    \* the rows of the mission
    planned,        \* plan_data is not empty
    gated,          \* plan_data: the steps with a destructive word
    active,         \* MissionManager._active
    parallel,       \* TRUE: the manager has a parallel_planner
    slot,           \* _running_tasks.get(mission_id)
    loop,           \* where each loop is suspended
    pos,            \* the step or wave each loop has in hand
    call,           \* where the API call of each kind is suspended
    attempted,      \* history: steps given to the orchestrator
    overlapped,     \* history: two API calls were under way at once
                    \* the next two are kept as long as no calls overlapped:
    halted,         \* history: the last call that returned stops the mission
    stranded,       \* history: a failed transaction left the mission without its loop
    restarts        \* how often the process was restarted

db == <<status, step, used, checkpoints, planned, gated>>
vars == <<status, step, used, checkpoints, planned, gated, active, parallel,
          slot, loop, pos, call, attempted, overlapped, halted, stranded, restarts>>
-----------------------------------------------------------------------------
Status == {"NONE", "CREATED", "PLANNING", "RUNNING", "PAUSED",
           "WAITING_APPROVAL", "COMPLETED", "FAILED", "CANCELLED"}

Calls == {"start", "pause", "resume", "cancel", "rollback"}

\* The next thing a loop does: read the row for the first time, read it again,
\* write WAITING_APPROVAL, have a step executed, write its progress or its
\* checkpoint, write COMPLETED, the timeline event of a status it has written,
\* or FAILED; or nothing any more.
Points == {"boot", "fetch", "gate", "exec", "commit", "checkpoint",
           "complete", "note", "fail", "done"}

CallPoints == {"idle", "planning", "spawn", "stopping"}

TypeOK ==
    /\ status \in Status /\ step \in 0 .. Steps /\ used \in Nat
    /\ checkpoints \subseteq 1 .. Steps 
    /\ planned \in BOOLEAN /\ gated \in Plans \cup {{}}
    /\ active \in BOOLEAN /\ parallel \in BOOLEAN
    /\ slot \in Loops \cup {NoLoop}
    /\ loop \in [Loops -> Points] /\ pos \in [Loops -> 0 .. Steps]
    /\ call \in [Calls -> CallPoints]
    /\ attempted \subseteq 0 .. Steps - 1
    /\ overlapped \in BOOLEAN /\ halted \in BOOLEAN /\ stranded \in BOOLEAN
    /\ restarts \in 0 .. MaxRestarts

Init ==
    /\ status = "NONE" /\ step = 0 /\ used = 0 /\ checkpoints = {}
    /\ planned = FALSE /\ gated = {}
    /\ active = TRUE /\ parallel \in BOOLEAN
    /\ slot = NoLoop
    /\ loop = [l \in Loops |-> "done"] /\ pos = [l \in Loops |-> 0]
    /\ call = [k \in Calls |-> "idle"]
    /\ attempted = {} /\ overlapped = FALSE /\ halted = FALSE /\ stranded = FALSE
    /\ restarts = 0

Live(l) == loop[l] # "done"

\* The loop is not yet past its last status.
Executing(l) == loop[l] \notin {"note", "fail", "done"}

Quiet == \A k \in Calls : call[k] = "idle"
-----------------------------------------------------------------------------
(* The API calls.                                                          *)

\* create_mission(), with plan_steps or without.
CreateMission ==
    /\ status = "NONE"
    /\ status' = "CREATED"
    /\ planned' \in BOOLEAN
    /\ IF planned' THEN gated' \in Plans ELSE UNCHANGED gated
    /\ UNCHANGED <<step, used, checkpoints, active, parallel, slot, loop, pos,
                   call, attempted, overlapped, halted, stranded, restarts>>

\* A call of kind k commits its transaction and is suspended before p.
Commits(k, p) ==
    /\ call[k] = "idle" /\ Cardinality({j \in Calls : call[j] # "idle"}) < MaxCalls
    /\ call' = [call EXCEPT ![k] = p]
    /\ overlapped' = (overlapped \/ ~Quiet)
    /\ halted' = FALSE /\ stranded' = FALSE
    /\ UNCHANGED <<used, checkpoints, planned, gated, active, parallel, slot, loop, pos,
                   attempted, restarts>>

StartMission ==
    /\ status = "CREATED"
    /\ status' = "PLANNING"
    /\ Commits("start", "planning")
    /\ UNCHANGED step

\* The plan is the pre-computed one, the model's or the default; the status is
\* set whatever it has become meanwhile.
FinishPlanning ==
    /\ call["start"] = "planning"
    /\ call' = [call EXCEPT !["start"] = "spawn"]
    /\ planned' = TRUE
    /\ IF planned THEN UNCHANGED gated ELSE gated' \in Plans
    /\ status' = "RUNNING"
    /\ UNCHANGED <<step, used, checkpoints, active, parallel, slot, loop, pos,
                   attempted, overlapped, halted, stranded, restarts>>

PauseMission ==
    /\ status \in {"RUNNING", "PLANNING", "WAITING_APPROVAL"}
    /\ status' = "PAUSED"
    /\ Commits("pause", "stopping")
    /\ UNCHANGED step

ResumeMission ==
    /\ status \in {"PAUSED", "WAITING_APPROVAL"}
    /\ status' = "RUNNING"
    /\ Commits("resume", "spawn")
    /\ UNCHANGED step

\* cancel_mission() takes a mission in any state.
CancelMission ==
    /\ status # "NONE"
    /\ status' = "CANCELLED"
    /\ Commits("cancel", "stopping")
    /\ UNCHANGED step

RollbackToCheckpoint ==
    \E c \in checkpoints :
        /\ status' = "PAUSED" /\ step' = c
        /\ Commits("rollback", "stopping")

\* The tasks in ended are gone.
Ended(ended) ==
    /\ loop' = [l \in Loops |-> IF l \in ended THEN "done" ELSE loop[l]]
    /\ pos' = [l \in Loops |-> IF l \in ended THEN 0 ELSE pos[l]]

\* Mutant: the entry of _running_tasks is dropped and the task goes on.
DropWithoutCancel(k) ==
    /\ call[k] = "stopping"
    /\ call' = [call EXCEPT ![k] = "idle"]
    /\ slot' = NoLoop
    /\ halted' = ~overlapped
    /\ UNCHANGED <<db, loop, active, parallel, pos, attempted, overlapped, stranded, restarts>>

\* The end of pause, cancel and rollback: the registered task is cancelled at
\* the await it is suspended in.
StopLoop(k) ==
    /\ call[k] = "stopping"
    /\ call' = [call EXCEPT ![k] = "idle"]
    /\ slot' = NoLoop
    /\ Ended({slot})
    /\ halted' = ~overlapped
    /\ UNCHANGED <<db, active, parallel, attempted, overlapped, stranded, restarts>>

\* create_task(_execute_mission_loop) and its entry in _running_tasks.
Spawn ==
    \E l \in Loops :
        /\ ~Live(l)
        /\ loop' = [loop EXCEPT ![l] = "boot"]
        /\ slot' = l

\* The end of start and resume: a loop is created if the manager is active.
SpawnLoop(k) ==
    /\ call[k] = "spawn"
    /\ call' = [call EXCEPT ![k] = "idle"]
    /\ IF active THEN Spawn ELSE UNCHANGED <<loop, slot>>
    /\ UNCHANGED <<db, active, parallel, pos, attempted, overlapped, halted, stranded, restarts>>

\* The timeline event of start or resume, or the row of the plan, is not
\* written and the call raises: after the status RUNNING was committed, the
\* loop is never created.
CallFails(k) ==
    /\ call[k] \in {"planning", "spawn"}
    /\ call' = [call EXCEPT ![k] = "idle"]
    /\ stranded' = (~overlapped /\ (stranded \/ call[k] = "spawn"))
    /\ UNCHANGED <<db, active, parallel, slot, loop, pos, attempted, overlapped, halted,
                   restarts>>

ApiCall ==
    \/ CreateMission \/ StartMission \/ PauseMission \/ ResumeMission
    \/ CancelMission \/ RollbackToCheckpoint

CallReturns == FinishPlanning \/ \E k \in Calls : StopLoop(k) \/ SpawnLoop(k)
-----------------------------------------------------------------------------
(* _execute_mission_loop: the sequential and the parallel plan.            *)

\* Loop l goes to point p with step i in hand.
Goto(l, p, i) ==
    /\ loop' = [loop EXCEPT ![l] = p]
    /\ pos' = [pos EXCEPT ![l] = i]

Elsewhere == <<active, parallel, slot, call, overlapped, halted, stranded, restarts>>

\* What a loop does about step or wave i of the plan it has read: complete,
\* ask for approval, execute.
Turn(i, refused) ==
    IF ~planned \/ i >= Steps THEN "complete"
    ELSE IF i \in gated \/ refused THEN "gate" ELSE "exec"

\* The approval gate of the parallel plan: there is no budget check.
WaveTurn(i) == Turn(i, FALSE)

\* The first read of the row: without a plan the mission is complete. The
\* parallel plan begins at wave 0 and does not look at the row again.
Boot(l) ==
    /\ loop[l] = "boot"
    /\ \/ status # "RUNNING" /\ Goto(l, "done", 0)
       \/ status = "RUNNING" /\ parallel /\ Goto(l, WaveTurn(0), 0)
       \/ status = "RUNNING" /\ ~parallel /\ Goto(l, "fetch", pos[l])
    /\ UNCHANGED <<db, attempted, Elsewhere>>

\* Mutant: the budget is not looked at.
FetchIgnoresBudget(l) ==
    /\ loop[l] = "fetch"
    /\ IF status = "RUNNING" /\ active
         THEN Goto(l, Turn(step, FALSE), step)
         ELSE Goto(l, "done", 0)
    /\ UNCHANGED <<db, attempted, Elsewhere>>

\* The top of the sequential loop.
Fetch(l) ==
    /\ loop[l] = "fetch"
    /\ IF status = "RUNNING" /\ active
         THEN Goto(l, Turn(step, used + Cost > Limit), step)
         ELSE Goto(l, "done", 0)
    /\ UNCHANGED <<db, attempted, Elsewhere>>

\* WAITING_APPROVAL is written over whatever the status is.
Gate(l) ==
    /\ loop[l] = "gate"
    /\ status' = "WAITING_APPROVAL"
    /\ Goto(l, "note", 0)
    /\ UNCHANGED <<step, used, checkpoints, planned, gated, attempted, Elsewhere>>

\* orchestrator.spawn_task() returns, or raises and the step counts as done
\* all the same.
Execute(l) ==
    /\ loop[l] = "exec" /\ ~parallel
    /\ attempted' = attempted \cup {pos[l]}
    /\ Goto(l, "commit", pos[l])
    /\ UNCHANGED <<db, Elsewhere>>

\* The steps of a wave are spawned together; their outputs are merged and
\* reported as successes whatever spawn_task() gave. The row is not updated.
ExecuteWave(l) ==
    /\ loop[l] = "exec" /\ parallel
    /\ attempted' = attempted \cup {pos[l]}
    /\ Goto(l, "checkpoint", pos[l])
    /\ UNCHANGED <<db, Elsewhere>>

\* current_step and budget_used in one transaction.
CommitProgress(l) ==
    /\ loop[l] = "commit"
    /\ step' = pos[l] + 1
    /\ used' = used + Cost
    /\ Goto(l, "checkpoint", pos[l])
    /\ UNCHANGED <<status, checkpoints, planned, gated, attempted, Elsewhere>>

\* create_checkpoint(); then the next iteration or the next wave.
Checkpoint(l) ==
    /\ loop[l] = "checkpoint"
    /\ checkpoints' = checkpoints \cup {pos[l] + 1}
    /\ IF parallel
         THEN Goto(l, WaveTurn(pos[l] + 1), pos[l] + 1)
         ELSE Goto(l, "fetch", pos[l])
    /\ UNCHANGED <<status, step, used, planned, gated, attempted, Elsewhere>>

\* _mark_mission_completed(), over whatever the status is.
Complete(l) ==
    /\ loop[l] = "complete"
    /\ status' = "COMPLETED"
    /\ Goto(l, "note", 0)
    /\ UNCHANGED <<step, used, checkpoints, planned, gated, attempted, Elsewhere>>

\* The timeline event of the status just written. It is inside the try as
\* well: when it raises, FAILED replaces that status.
Note(l) ==
    /\ loop[l] = "note"
    /\ Goto(l, "done", 0)
    /\ UNCHANGED <<db, attempted, Elsewhere>>

\* A transaction of the loop raises.
LoopRaises(l) ==
    /\ Live(l) /\ loop[l] # "fail"
    /\ Goto(l, "fail", 0)
    /\ UNCHANGED <<db, attempted, Elsewhere>>

\* FAILED is written over whatever the status is.
Fail(l) ==
    /\ loop[l] = "fail"
    /\ status' = "FAILED"
    /\ Goto(l, "done", 0)
    /\ UNCHANGED <<step, used, checkpoints, planned, gated, attempted, Elsewhere>>

\* The write of FAILED raises as well: the task ends and the status stays.
FailNotWritten(l) ==
    /\ loop[l] = "fail"
    /\ Goto(l, "done", 0)
    /\ stranded' = (~overlapped /\ (stranded \/ slot = l))
    /\ UNCHANGED <<db, active, parallel, slot, call, attempted, overlapped, halted, restarts>>

LoopStep(l) ==
    \/ Boot(l) \/ Fetch(l) \/ Gate(l) \/ Execute(l) \/ ExecuteWave(l) \/ CommitProgress(l)
    \/ Checkpoint(l) \/ Complete(l) \/ Note(l) \/ Fail(l)
-----------------------------------------------------------------------------
(* The process.                                                            *)

\* stop(): the registered task is cancelled; other loops notice _active at
\* their next iteration.
Stop ==
    /\ active /\ restarts < MaxRestarts
    /\ active' = FALSE
    /\ slot' = NoLoop
    /\ Ended({slot})
    /\ restarts' = restarts + 1
    /\ UNCHANGED <<db, parallel, call, attempted, overlapped, halted, stranded>>

\* The process dies: every coroutine is gone.
Crash ==
    /\ restarts < MaxRestarts
    /\ active' = FALSE
    /\ slot' = NoLoop
    /\ Ended(Loops)
    /\ call' = [k \in Calls |-> "idle"]
    /\ restarts' = restarts + 1
    /\ UNCHANGED <<db, parallel, attempted, overlapped, halted, stranded>>

\* Mutant: start() recovers nothing.
StartWithoutRecovery ==
    /\ ~active
    /\ active' = TRUE
    /\ UNCHANGED <<db, loop, slot, parallel, pos, call, attempted, overlapped, halted, stranded, restarts>>

\* start() recovers a mission that was RUNNING. It is called while the API
\* is not served.
Start ==
    /\ ~active /\ Quiet
    /\ active' = TRUE /\ stranded' = FALSE
    /\ IF status = "RUNNING" THEN Spawn ELSE UNCHANGED <<loop, slot>>
    /\ UNCHANGED <<db, parallel, pos, call, attempted, overlapped, halted, restarts>>

Next ==
    \/ ApiCall \/ CallReturns \/ \E k \in Calls : CallFails(k)
    \/ \E l \in Loops : LoopStep(l) \/ LoopRaises(l) \/ FailNotWritten(l)
    \/ Stop \/ Crash \/ Start

Spec == Init /\ [][Next]_vars

\* The event loop resumes coroutines, and a process that went down comes back;
\* nothing is assumed of transactions, which may raise every time.
MissionFairness ==
    /\ \A l \in Loops : WF_vars(LoopStep(l))
    /\ WF_vars(CallReturns) /\ WF_vars(Start)

FairSpec == Spec /\ MissionFairness
-----------------------------------------------------------------------------
(* Properties.                                                             *)

\* Every step below current_step, and below any checkpoint a mission can be
\* rolled back to, was given to the orchestrator: whatever is paused, rolled
\* back, crashed or executed by two loops at once, no step is passed over.
NoStepSkipped ==
    /\ ~parallel => 0 .. step - 1 \subseteq attempted
    /\ \A c \in checkpoints : 0 .. c - 1 \subseteq attempted

\* Without overlapping API calls, a mission that has a plan is COMPLETED only
\* after all of its steps were given to the orchestrator.
CompletedMeansAttempted ==
    ~overlapped /\ planned /\ status = "COMPLETED" => attempted = 0 .. Steps - 1

\* A step with a destructive word never gets past the approval gate, on
\* either plan.
GateHolds == attempted \cap gated = {}

\* Without overlapping API calls, the sequential plan never spends more than
\* budget_limit, although the check reads a row that is written later.
BudgetHolds == ~overlapped => used <= Limit

\* When a pause, a cancellation or a rollback has returned and no API calls
\* overlapped, nothing executes the mission any more. (A loop that has written
\* its last status and not yet the timeline event may be left: if that event
\* fails it writes FAILED, over whatever the status is by then.)
StoppedMeansStopped ==
    ~overlapped /\ halted => \A l \in Loops : ~Executing(l)

\* Without overlapping API calls two loops never execute the mission.
OneLoop ==
    ~overlapped => \A l, k \in Loops : Executing(l) /\ Executing(k) => l = k

\* A RUNNING mission of an active manager has a registered loop that will still
\* write its status, or a call that is going to create or stop one; unless the
\* call that was to create the loop, or the loop's write of FAILED, has raised
\* and neither a call nor a restart came after it.
RunningHasLoop ==
    ~overlapped /\ ~stranded /\ status = "RUNNING" /\ active /\ Quiet =>
        slot \in Loops /\ loop[slot] \notin {"note", "done"}

\* What is executed is what the plan, the gate and the budget allow.
Accountable == TypeOK /\ NoStepSkipped /\ CompletedMeansAttempted /\ GateHolds /\ BudgetHolds

\* Executions follow the status: one loop for a running mission and none for a
\* stopped one.
LoopsFollowStatus == OneLoop /\ RunningHasLoop /\ StoppedMeansStopped

\* Without overlapping API calls a RUNNING mission does not stay RUNNING for
\* ever: it completes, fails, waits for approval or is stopped, also when the
\* process goes down in between; only a transaction that raises between the
\* status and the loop, or instead of FAILED, can leave it so, until a call or
\* a restart.
RunningEnds ==
    (status = "RUNNING" /\ ~overlapped) ~> (status # "RUNNING" \/ overlapped \/ stranded)
=============================================================================

---------------------------- MODULE MissionsProofs ----------------------------
(***************************************************************************)
(* Proofs about the two components MCMissions puts side by side: the       *)
(* MissionManager, for any number of steps, loops and calls, and Transport,*)
(* for any readers, keys and holders, whose two transports implement       *)
(* Channel.                                                                *)
(***************************************************************************)
EXTENDS MissionManager, Transport, FiniteSetTheorems, SequenceTheorems, TLAPS

-----------------------------------------------------------------------------
(* What is executed.                                                       *)

\* The steps before i were given to the orchestrator.
Before(i) == 0 .. i - 1 \subseteq attempted

\* Until start_mission() nothing of the mission has run, nor is anything under way.
NotStarted ==
    status \in {"NONE", "CREATED"} =>
        Quiet /\ (\A l \in Loops : ~Live(l)) /\ attempted = {} /\ checkpoints = {}

\* What a loop has in hand is a step of the plan that the gate let through, and
\* all earlier steps were attempted; only the sequential plan reads the row
\* again and writes its progress.
InHand(l) ==
    /\ loop[l] \in {"fetch", "commit"} => ~parallel
    /\ loop[l] \in {"exec", "commit", "checkpoint"} => planned /\ pos[l] < Steps
    /\ loop[l] = "exec" => Before(pos[l]) /\ pos[l] \notin gated
    /\ loop[l] \in {"commit", "checkpoint"} => Before(pos[l] + 1)

\* The rows: nothing is attempted without a plan.
RowsInv ==
    /\ ~planned => attempted = {}
    /\ GateHolds /\ NoStepSkipped

ExecutionInv == TypeOK /\ NotStarted /\ RowsInv /\ \A l \in Loops : InHand(l)
-----------------------------------------------------------------------------
(* Who executes it, without overlapping API calls.                         *)

Busy(k) == call[k] # "idle"

\* One call at a time; what a call is going to stop is not RUNNING, and what it
\* is going to execute is, unless a loop of before writes FAILED meanwhile.
CallsInv ==
    /\ \A k, j \in Calls : Busy(k) /\ Busy(j) => k = j
    /\ \A k \in Calls : call[k] = "stopping" => status # "RUNNING"
    /\ \A k \in Calls : call[k] = "spawn" => status \in {"RUNNING", "FAILED"}
    /\ \A k \in Calls : call[k] = "planning" => k = "start" /\ status # "RUNNING"
    /\ halted => Quiet /\ status # "RUNNING"

\* A loop that executes is the registered one, of an active manager, for a
\* mission that is RUNNING, or FAILED by a loop of before, or that a call is
\* stopping; there is none while a call is going to create one, and none after
\* a call that stops it.
LoopInv(l) ==
    Executing(l) =>
        /\ slot = l /\ active /\ ~halted
        /\ \A k \in Calls : call[k] \in {"idle", "stopping"}
        /\ status \in {"RUNNING", "FAILED"} \/ \E k \in Calls : call[k] = "stopping"

\* What the loop is going to spend is still there, and it completes a mission
\* that has a plan after the last step of it.
OutcomeInv(l) ==
    /\ loop[l] \in {"exec", "commit"} /\ ~parallel => used + Cost <= Limit
    /\ loop[l] = "complete" /\ planned => Before(Steps)

ControlInv ==
    ~overlapped => CallsInv /\ (\A l \in Loops : LoopInv(l)) /\ RunningHasLoop

AccountInv ==
    /\ ~overlapped => \A l \in Loops : OutcomeInv(l)
    /\ BudgetHolds /\ CompletedMeansAttempted

MissionInv == ExecutionInv /\ ControlInv /\ AccountInv

\* A step keeps the types.
LEMMA TypesKept ==
    ASSUME TypeOK, \A l \in Loops : InHand(l), [Next]_vars
    PROVE  TypeOK'
<1> USE StepAssumption, LoopAssumption DEF TypeOK, InHand, Live, Status, Points, CallPoints, db
<1>1. CASE CreateMission
  BY <1>1 DEF CreateMission
<1>2. CASE StartMission
  BY <1>2 DEF StartMission, Commits
<1>3. CASE FinishPlanning
  BY <1>3 DEF FinishPlanning
<1>4. CASE PauseMission
  BY <1>4 DEF PauseMission, Commits
<1>5. CASE ResumeMission
  BY <1>5 DEF ResumeMission, Commits
<1>6. CASE CancelMission
  BY <1>6 DEF CancelMission, Commits
<1>7. CASE RollbackToCheckpoint
  <2>1. PICK c \in checkpoints : step' = c /\ status' = "PAUSED" /\ Commits("rollback", "stopping")
    BY <1>7 DEF RollbackToCheckpoint
  <2>2. call' \in [Calls -> CallPoints] /\ overlapped' \in BOOLEAN /\ halted' \in BOOLEAN /\ stranded' \in BOOLEAN
    BY <2>1 DEF Commits
  <2>3. step' \in 0 .. Steps /\ status' \in Status
    BY <2>1
  <2> QED
    BY <2>1, <2>2, <2>3 DEF Commits
<1>8. ASSUME NEW k \in Calls, StopLoop(k)
      PROVE  TypeOK'
  BY <1>8 DEF StopLoop, Ended
<1>9. ASSUME NEW k \in Calls, SpawnLoop(k)
      PROVE  TypeOK'
  BY <1>9 DEF SpawnLoop, Spawn
<1>10. ASSUME NEW l \in Loops, Boot(l)
      PROVE  TypeOK'
  BY <1>10 DEF Boot, Goto, Turn, WaveTurn, Elsewhere
<1>11. ASSUME NEW l \in Loops, Fetch(l)
      PROVE  TypeOK'
  BY <1>11 DEF Fetch, Goto, Turn, Elsewhere
<1>12. ASSUME NEW l \in Loops, Gate(l)
      PROVE  TypeOK'
  BY <1>12 DEF Gate, Goto, Elsewhere
<1>13. ASSUME NEW l \in Loops, Execute(l)
      PROVE  TypeOK'
  <2>1. pos[l] \in 0 .. Steps - 1
    BY <1>13 DEF Execute
  <2>2. attempted' \subseteq 0 .. Steps - 1
    BY <1>13, <2>1 DEF Execute
  <2>3. loop' \in [Loops -> Points] /\ pos' \in [Loops -> 0 .. Steps]
    BY <1>13 DEF Execute, Goto
  <2> QED
    BY <1>13, <2>2, <2>3 DEF Execute, Elsewhere
<1>14. ASSUME NEW l \in Loops, ExecuteWave(l)
      PROVE  TypeOK'
  <2>1. pos[l] \in 0 .. Steps - 1
    BY <1>14 DEF ExecuteWave
  <2>2. attempted' \subseteq 0 .. Steps - 1
    BY <1>14, <2>1 DEF ExecuteWave
  <2>3. loop' \in [Loops -> Points] /\ pos' \in [Loops -> 0 .. Steps]
    BY <1>14 DEF ExecuteWave, Goto
  <2> QED
    BY <1>14, <2>2, <2>3 DEF ExecuteWave, Elsewhere
<1>15. ASSUME NEW l \in Loops, CommitProgress(l)
      PROVE  TypeOK'
  BY <1>15 DEF CommitProgress, Goto, Elsewhere
<1>16. ASSUME NEW l \in Loops, Checkpoint(l)
      PROVE  TypeOK'
  <2>1. pos[l] \in 0 .. Steps - 1 /\ pos[l] + 1 \in 1 .. Steps
    BY <1>16 DEF Checkpoint
  <2>2. checkpoints' \subseteq 1 .. Steps
    BY <1>16, <2>1 DEF Checkpoint
  <2>3. WaveTurn(pos[l] + 1) \in Points
    BY DEF WaveTurn, Turn
  <2>4. loop' \in [Loops -> Points] /\ pos' \in [Loops -> 0 .. Steps]
    BY <1>16, <2>1, <2>3 DEF Checkpoint, Goto
  <2> QED
    BY <1>16, <2>2, <2>4 DEF Checkpoint, Elsewhere
<1>17. ASSUME NEW l \in Loops, Complete(l)
      PROVE  TypeOK'
  BY <1>17 DEF Complete, Goto, Elsewhere
<1>18. ASSUME NEW l \in Loops, LoopRaises(l)
      PROVE  TypeOK'
  BY <1>18 DEF LoopRaises, Goto, Elsewhere
<1>19. ASSUME NEW l \in Loops, Fail(l)
      PROVE  TypeOK'
  BY <1>19 DEF Fail, Goto, Elsewhere
<1>24. ASSUME NEW k \in Calls, CallFails(k)
      PROVE  TypeOK'
  BY <1>24 DEF CallFails
<1>25. ASSUME NEW l \in Loops, Note(l)
      PROVE  TypeOK'
  BY <1>25 DEF Note, Goto, Elsewhere
<1>26. ASSUME NEW l \in Loops, FailNotWritten(l)
      PROVE  TypeOK'
  BY <1>26 DEF FailNotWritten, Goto
<1>20. CASE Stop
  <2>1. loop' \in [Loops -> Points] /\ pos' \in [Loops -> 0 .. Steps]
    BY <1>20 DEF Stop, Ended
  <2>2. restarts' \in 0 .. MaxRestarts
    BY <1>20 DEF Stop
  <2>3. call' \in [Calls -> CallPoints] /\ active' \in BOOLEAN /\ slot' \in Loops \cup {NoLoop}
    BY <1>20 DEF Stop
  <2> QED
    BY <1>20, <2>1, <2>2, <2>3 DEF Stop
<1>21. CASE Crash
  <2>1. loop' \in [Loops -> Points] /\ pos' \in [Loops -> 0 .. Steps]
    BY <1>21 DEF Crash, Ended
  <2>2. restarts' \in 0 .. MaxRestarts
    BY <1>21 DEF Crash
  <2>3. call' \in [Calls -> CallPoints] /\ active' \in BOOLEAN /\ slot' \in Loops \cup {NoLoop}
    BY <1>21 DEF Crash
  <2> QED
    BY <1>21, <2>1, <2>2, <2>3 DEF Crash
<1>22. CASE Start
  BY <1>22 DEF Start, Spawn
<1>23. CASE UNCHANGED vars
  BY <1>23 DEF vars
<1> QED
  BY <1>1, <1>2, <1>3, <1>4, <1>5, <1>6, <1>7, <1>8, <1>9, <1>10, <1>11, <1>12, <1>13,
     <1>14, <1>15, <1>16, <1>17, <1>18, <1>19, <1>20, <1>21, <1>22, <1>23, <1>24, <1>25,
     <1>26 DEF Next, ApiCall, CallReturns, LoopStep

\* What is executed comes from the plan, in its order, and through the gate.
LEMMA ExecutionStep ==
    ASSUME ExecutionInv, TypeOK', [Next]_vars
    PROVE  NotStarted' /\ RowsInv' /\ \A m \in Loops : InHand(m)'
<1> USE StepAssumption, LoopAssumption
       DEF ExecutionInv, TypeOK, NotStarted, RowsInv, InHand, Before, GateHolds,
           NoStepSkipped, Quiet, Live, Status, Calls, Points, CallPoints, db
<1>1. CASE CreateMission
  BY <1>1 DEF CreateMission
<1>2. CASE StartMission
  BY <1>2 DEF StartMission, Commits
<1>3. CASE FinishPlanning
  BY <1>3 DEF FinishPlanning
<1>4. CASE PauseMission
  BY <1>4 DEF PauseMission, Commits
<1>5. CASE ResumeMission
  BY <1>5 DEF ResumeMission, Commits
<1>6. CASE CancelMission
  BY <1>6 DEF CancelMission, Commits
<1>7. CASE RollbackToCheckpoint
  <2>1. PICK c \in checkpoints : step' = c /\ status' = "PAUSED" /\ Commits("rollback", "stopping")
    BY <1>7 DEF RollbackToCheckpoint
  <2> QED
    BY <2>1 DEF Commits
<1>8. ASSUME NEW k \in Calls, StopLoop(k)
      PROVE  NotStarted' /\ RowsInv' /\ \A m \in Loops : InHand(m)'
  BY <1>8 DEF StopLoop, Ended
<1>9. ASSUME NEW k \in Calls, SpawnLoop(k)
      PROVE  NotStarted' /\ RowsInv' /\ \A m \in Loops : InHand(m)'
  BY <1>9 DEF SpawnLoop, Spawn
<1>10. ASSUME NEW l \in Loops, Boot(l)
      PROVE  NotStarted' /\ RowsInv' /\ \A m \in Loops : InHand(m)'
  BY <1>10 DEF Boot, Goto, Turn, WaveTurn, Elsewhere
<1>11. ASSUME NEW l \in Loops, Fetch(l)
      PROVE  NotStarted' /\ RowsInv' /\ \A m \in Loops : InHand(m)'
  BY <1>11 DEF Fetch, Goto, Turn, Elsewhere
<1>12. ASSUME NEW l \in Loops, Gate(l)
      PROVE  NotStarted' /\ RowsInv' /\ \A m \in Loops : InHand(m)'
  BY <1>12 DEF Gate, Goto, Elsewhere
<1>13. ASSUME NEW l \in Loops, Execute(l)
      PROVE  NotStarted' /\ RowsInv' /\ \A m \in Loops : InHand(m)'
  <2>1. attempted' = attempted \cup {pos[l]} /\ pos' = pos
    BY <1>13 DEF Execute, Goto
  <2>2. planned /\ pos[l] \in 0 .. Steps - 1 /\ Before(pos[l]) /\ pos[l] \notin gated
    BY <1>13 DEF Execute
  <2>3. NotStarted' /\ RowsInv'
    BY <1>13, <2>1, <2>2 DEF Execute, Elsewhere
  <2>4. InHand(l)'
    BY <1>13, <2>1, <2>2 DEF Execute, Goto, Elsewhere
  <2>5. \A k \in Loops \ {l} : InHand(k)'
    BY <1>13, <2>1, <2>2 DEF Execute, Goto, Elsewhere
  <2> QED
    BY <2>3, <2>4, <2>5
<1>14. ASSUME NEW l \in Loops, ExecuteWave(l)
      PROVE  NotStarted' /\ RowsInv' /\ \A m \in Loops : InHand(m)'
  <2>1. attempted' = attempted \cup {pos[l]} /\ pos' = pos
    BY <1>14 DEF ExecuteWave, Goto
  <2>2. planned /\ pos[l] \in 0 .. Steps - 1 /\ Before(pos[l]) /\ pos[l] \notin gated
    BY <1>14 DEF ExecuteWave
  <2>3. NotStarted' /\ RowsInv'
    BY <1>14, <2>1, <2>2 DEF ExecuteWave, Elsewhere
  <2>4. InHand(l)'
    BY <1>14, <2>1, <2>2 DEF ExecuteWave, Goto, Elsewhere
  <2>5. \A k \in Loops \ {l} : InHand(k)'
    BY <1>14, <2>1, <2>2 DEF ExecuteWave, Goto, Elsewhere
  <2> QED
    BY <2>3, <2>4, <2>5
<1>15. ASSUME NEW l \in Loops, CommitProgress(l)
      PROVE  NotStarted' /\ RowsInv' /\ \A m \in Loops : InHand(m)'
  BY <1>15 DEF CommitProgress, Goto, Elsewhere
<1>16. ASSUME NEW l \in Loops, Checkpoint(l)
      PROVE  NotStarted' /\ RowsInv' /\ \A m \in Loops : InHand(m)'
  <2>1. planned /\ pos[l] \in 0 .. Steps - 1 /\ Before(pos[l] + 1)
    BY <1>16 DEF Checkpoint
  <2>2. NotStarted' /\ RowsInv'
    BY <1>16, <2>1 DEF Checkpoint, Elsewhere
  <2>3. InHand(l)'
    <3>1. CASE ~parallel
      BY <1>16, <2>1, <3>1 DEF Checkpoint, Goto, Elsewhere
    <3>2. CASE parallel
      <4>1. /\ loop'[l] = WaveTurn(pos[l] + 1) /\ pos'[l] = pos[l] + 1
            /\ UNCHANGED <<attempted, planned, gated>>
        BY <1>16, <3>2 DEF Checkpoint, Goto
      <4>2. /\ loop'[l] \in {"complete", "gate", "exec"}
            /\ loop'[l] = "exec" => pos'[l] < Steps /\ pos'[l] \notin gated
        BY <4>1 DEF WaveTurn, Turn
      <4> QED
        BY <2>1, <4>1, <4>2
    <3> QED
      BY <3>1, <3>2
  <2>4. \A k \in Loops \ {l} : InHand(k)'
    BY <1>16, <2>1 DEF Checkpoint, Goto, Elsewhere
  <2> QED
    BY <2>2, <2>3, <2>4
<1>17. ASSUME NEW l \in Loops, Complete(l)
      PROVE  NotStarted' /\ RowsInv' /\ \A m \in Loops : InHand(m)'
  BY <1>17 DEF Complete, Goto, Elsewhere
<1>18. ASSUME NEW l \in Loops, LoopRaises(l)
      PROVE  NotStarted' /\ RowsInv' /\ \A m \in Loops : InHand(m)'
  BY <1>18 DEF LoopRaises, Goto, Elsewhere
<1>19. ASSUME NEW l \in Loops, Fail(l)
      PROVE  NotStarted' /\ RowsInv' /\ \A m \in Loops : InHand(m)'
  BY <1>19 DEF Fail, Goto, Elsewhere
<1>24. ASSUME NEW k \in Calls, CallFails(k)
      PROVE  NotStarted' /\ RowsInv' /\ \A m \in Loops : InHand(m)'
  BY <1>24 DEF CallFails
<1>25. ASSUME NEW l \in Loops, Note(l)
      PROVE  NotStarted' /\ RowsInv' /\ \A m \in Loops : InHand(m)'
  BY <1>25 DEF Note, Goto, Elsewhere
<1>26. ASSUME NEW l \in Loops, FailNotWritten(l)
      PROVE  NotStarted' /\ RowsInv' /\ \A m \in Loops : InHand(m)'
  BY <1>26 DEF FailNotWritten, Goto
<1>20. CASE Stop
  <2>1. \A l \in Loops : loop'[l] = "done" \/ (loop'[l] = loop[l] /\ pos'[l] = pos[l])
    BY <1>20 DEF Stop, Ended
  <2>2. NotStarted' /\ RowsInv'
    BY <1>20, <2>1 DEF Stop
  <2>3. \A l \in Loops : InHand(l)'
    BY <1>20, <2>1 DEF Stop
  <2> QED
    BY <2>2, <2>3
<1>21. CASE Crash
  <2>1. \A l \in Loops : loop'[l] = "done" \/ (loop'[l] = loop[l] /\ pos'[l] = pos[l])
    BY <1>21 DEF Crash, Ended
  <2>2. NotStarted' /\ RowsInv'
    BY <1>21, <2>1 DEF Crash
  <2>3. \A l \in Loops : InHand(l)'
    BY <1>21, <2>1 DEF Crash
  <2> QED
    BY <2>2, <2>3
<1>22. CASE Start
  BY <1>22 DEF Start, Spawn
<1>23. CASE UNCHANGED vars
  BY <1>23 DEF vars
<1> QED
  BY <1>1, <1>2, <1>3, <1>4, <1>5, <1>6, <1>7, <1>8, <1>9, <1>10, <1>11, <1>12, <1>13,
     <1>14, <1>15, <1>16, <1>17, <1>18, <1>19, <1>20, <1>21, <1>22, <1>23, <1>24, <1>25,
     <1>26 DEF Next, ApiCall, CallReturns, LoopStep

\* As long as no two API calls overlap, the loop that lives is the one the status
\* asks for.
LEMMA ControlStep ==
    ASSUME TypeOK, NotStarted, ControlInv, [Next]_vars
    PROVE  ControlInv'
<1> USE StepAssumption, LoopAssumption
       DEF TypeOK, NotStarted, ControlInv, CallsInv, LoopInv, RunningHasLoop, Busy, Quiet,
           Live, Executing, Status, Calls, Points, CallPoints, db
<1>1. CASE CreateMission
  BY <1>1 DEF CreateMission
<1>2. CASE StartMission
  BY <1>2 DEF StartMission, Commits
<1>3. CASE FinishPlanning
  BY <1>3 DEF FinishPlanning
<1>4. CASE PauseMission
  BY <1>4 DEF PauseMission, Commits
<1>5. CASE ResumeMission
  BY <1>5 DEF ResumeMission, Commits
<1>6. CASE CancelMission
  BY <1>6 DEF CancelMission, Commits
<1>7. CASE RollbackToCheckpoint
  <2>1. PICK c \in checkpoints : step' = c /\ status' = "PAUSED" /\ Commits("rollback", "stopping")
    BY <1>7 DEF RollbackToCheckpoint
  <2> QED
    BY <2>1 DEF Commits
<1>8. ASSUME NEW k \in Calls, StopLoop(k)
      PROVE  ControlInv'
  BY <1>8 DEF StopLoop, Ended
<1>9. ASSUME NEW k \in Calls, SpawnLoop(k)
      PROVE  ControlInv'
  <2>1. /\ call[k] = "spawn" /\ call' = [call EXCEPT ![k] = "idle"]
        /\ UNCHANGED <<db, active, parallel, pos, attempted, overlapped, halted, stranded, restarts>>
    BY <1>9 DEF SpawnLoop
  <2> SUFFICES ASSUME ~overlapped
               PROVE  CallsInv' /\ (\A l \in Loops : LoopInv(l)') /\ RunningHasLoop'
    BY <2>1
  <2>2. /\ \A l \in Loops : ~Executing(l)
        /\ \A j \in Calls : j # k => call[j] = "idle"
        /\ ~halted /\ status \in {"RUNNING", "FAILED"}
    BY <2>1
  <2>3. CallsInv'
    BY <2>1, <2>2
  <2>4. CASE ~active
    BY <1>9, <2>1, <2>2, <2>4 DEF SpawnLoop
  <2>5. CASE active
    <3>1. PICK l \in Loops : loop' = [loop EXCEPT ![l] = "boot"] /\ slot' = l
      BY <1>9, <2>5 DEF SpawnLoop, Spawn
    <3> QED
      BY <2>1, <2>2, <2>5, <3>1
  <2> QED
    BY <2>3, <2>4, <2>5
<1>10. ASSUME NEW l \in Loops, Boot(l)
      PROVE  ControlInv'
  BY <1>10 DEF Boot, Goto, Turn, WaveTurn, Elsewhere
<1>11. ASSUME NEW l \in Loops, Fetch(l)
      PROVE  ControlInv'
  BY <1>11 DEF Fetch, Goto, Turn, Elsewhere
<1>12. ASSUME NEW l \in Loops, Gate(l)
      PROVE  ControlInv'
  BY <1>12 DEF Gate, Goto, Elsewhere
<1>13. ASSUME NEW l \in Loops, Execute(l)
      PROVE  ControlInv'
  BY <1>13 DEF Execute, Goto, Elsewhere
<1>14. ASSUME NEW l \in Loops, ExecuteWave(l)
      PROVE  ControlInv'
  BY <1>14 DEF ExecuteWave, Goto, Elsewhere
<1>15. ASSUME NEW l \in Loops, CommitProgress(l)
      PROVE  ControlInv'
  BY <1>15 DEF CommitProgress, Goto, Elsewhere
<1>16. ASSUME NEW l \in Loops, Checkpoint(l)
      PROVE  ControlInv'
  BY <1>16 DEF Checkpoint, Goto, Turn, WaveTurn, Elsewhere
<1>17. ASSUME NEW l \in Loops, Complete(l)
      PROVE  ControlInv'
  BY <1>17 DEF Complete, Goto, Elsewhere
<1>18. ASSUME NEW l \in Loops, LoopRaises(l)
      PROVE  ControlInv'
  BY <1>18 DEF LoopRaises, Goto, Elsewhere
<1>19. ASSUME NEW l \in Loops, Fail(l)
      PROVE  ControlInv'
  BY <1>19 DEF Fail, Goto, Elsewhere
<1>24. ASSUME NEW k \in Calls, CallFails(k)
      PROVE  ControlInv'
  <2>1. /\ call[k] \in {"planning", "spawn"} /\ call' = [call EXCEPT ![k] = "idle"]
        /\ UNCHANGED <<status, active, slot, loop, overlapped, halted>>
    BY <1>24 DEF CallFails
  <2> SUFFICES ASSUME ~overlapped
               PROVE  CallsInv' /\ (\A l \in Loops : LoopInv(l)') /\ RunningHasLoop'
    BY <2>1
  <2>2. CallsInv' /\ \A l \in Loops : LoopInv(l)'
    BY <2>1
  <2>3. CASE call[k] = "planning"
    BY <2>1, <2>3
  <2>4. CASE call[k] = "spawn"
    <3>1. stranded'
      BY <1>24, <2>4 DEF CallFails
    <3> QED
      BY <2>2, <3>1
  <2> QED
    BY <2>1, <2>2, <2>3, <2>4
<1>25. ASSUME NEW l \in Loops, Note(l)
      PROVE  ControlInv'
  BY <1>25 DEF Note, Goto, Elsewhere
<1>26. ASSUME NEW l \in Loops, FailNotWritten(l)
      PROVE  ControlInv'
  BY <1>26 DEF FailNotWritten, Goto
<1>20. CASE Stop
  BY <1>20 DEF Stop, Ended
<1>21. CASE Crash
  BY <1>21 DEF Crash, Ended
<1>22. CASE Start
  BY <1>22 DEF Start, Spawn
<1>23. CASE UNCHANGED vars
  BY <1>23 DEF vars
<1> QED
  BY <1>1, <1>2, <1>3, <1>4, <1>5, <1>6, <1>7, <1>8, <1>9, <1>10, <1>11, <1>12, <1>13,
     <1>14, <1>15, <1>16, <1>17, <1>18, <1>19, <1>20, <1>21, <1>22, <1>23, <1>24, <1>25,
     <1>26 DEF Next, ApiCall, CallReturns, LoopStep

\* The budget is spent by what had room in it, and COMPLETED is written after
\* every step was attempted.
LEMMA AccountStep ==
    ASSUME ExecutionInv, ControlInv, AccountInv, [Next]_vars
    PROVE  AccountInv'
<1> USE StepAssumption, LoopAssumption
       DEF ExecutionInv, TypeOK, NotStarted, RowsInv, InHand, Before, NoStepSkipped,
           ControlInv, LoopInv, CallsInv, AccountInv, BudgetHolds,
           CompletedMeansAttempted, OutcomeInv, Quiet, Live, Executing, Calls, db
<1>1. CASE CreateMission
  BY <1>1 DEF CreateMission
<1>2. CASE StartMission
  BY <1>2 DEF StartMission, Commits
<1>3. CASE FinishPlanning
  BY <1>3 DEF FinishPlanning
<1>4. CASE PauseMission
  BY <1>4 DEF PauseMission, Commits
<1>5. CASE ResumeMission
  BY <1>5 DEF ResumeMission, Commits
<1>6. CASE CancelMission
  BY <1>6 DEF CancelMission, Commits
<1>7. CASE RollbackToCheckpoint
  BY <1>7 DEF RollbackToCheckpoint, Commits
<1>8. ASSUME NEW k \in Calls, StopLoop(k)
      PROVE  AccountInv'
  BY <1>8 DEF StopLoop, Ended
<1>9. ASSUME NEW k \in Calls, SpawnLoop(k)
      PROVE  AccountInv'
  BY <1>9 DEF SpawnLoop, Spawn
<1>10. ASSUME NEW l \in Loops, Boot(l)
      PROVE  AccountInv'
  BY <1>10 DEF Boot, Goto, Turn, WaveTurn, Elsewhere
<1>11. ASSUME NEW l \in Loops, Fetch(l)
      PROVE  AccountInv'
  BY <1>11 DEF Fetch, Goto, Turn, Elsewhere
<1>12. ASSUME NEW l \in Loops, Gate(l)
      PROVE  AccountInv'
  BY <1>12 DEF Gate, Goto, Elsewhere
<1>13. ASSUME NEW l \in Loops, Execute(l)
      PROVE  AccountInv'
  BY <1>13 DEF Execute, Goto, Elsewhere
<1>14. ASSUME NEW l \in Loops, ExecuteWave(l)
      PROVE  AccountInv'
  BY <1>14 DEF ExecuteWave, Goto, Elsewhere
<1>15. ASSUME NEW l \in Loops, CommitProgress(l)
      PROVE  AccountInv'
  BY <1>15 DEF CommitProgress, Goto, Elsewhere
<1>16. ASSUME NEW l \in Loops, Checkpoint(l)
      PROVE  AccountInv'
  BY <1>16 DEF Checkpoint, Goto, Turn, WaveTurn, Elsewhere
<1>17. ASSUME NEW l \in Loops, Complete(l)
      PROVE  AccountInv'
  BY <1>17 DEF Complete, Goto, Elsewhere
<1>18. ASSUME NEW l \in Loops, LoopRaises(l)
      PROVE  AccountInv'
  BY <1>18 DEF LoopRaises, Goto, Elsewhere
<1>19. ASSUME NEW l \in Loops, Fail(l)
      PROVE  AccountInv'
  BY <1>19 DEF Fail, Goto, Elsewhere
<1>24. ASSUME NEW k \in Calls, CallFails(k)
      PROVE  AccountInv'
  BY <1>24 DEF CallFails
<1>25. ASSUME NEW l \in Loops, Note(l)
      PROVE  AccountInv'
  BY <1>25 DEF Note, Goto, Elsewhere
<1>26. ASSUME NEW l \in Loops, FailNotWritten(l)
      PROVE  AccountInv'
  BY <1>26 DEF FailNotWritten, Goto
<1>20. CASE Stop
  BY <1>20 DEF Stop, Ended
<1>21. CASE Crash
  BY <1>21 DEF Crash, Ended
<1>22. CASE Start
  BY <1>22 DEF Start, Spawn
<1>23. CASE UNCHANGED vars
  BY <1>23 DEF vars
<1> QED
  BY <1>1, <1>2, <1>3, <1>4, <1>5, <1>6, <1>7, <1>8, <1>9, <1>10, <1>11, <1>12, <1>13,
     <1>14, <1>15, <1>16, <1>17, <1>18, <1>19, <1>20, <1>21, <1>22, <1>23, <1>24, <1>25,
     <1>26 DEF Next, ApiCall, CallReturns, LoopStep

\* A manager starts in the invariant.
LEMMA MissionInit == Init => MissionInv
<1> SUFFICES ASSUME Init
             PROVE  MissionInv
  OBVIOUS
<1> USE StepAssumption, LoopAssumption DEF Init, Live, Quiet
<1>1. TypeOK
  <2>1. loop \in [Loops -> Points] /\ pos \in [Loops -> 0 .. Steps]
    BY DEF Points
  <2>2. call \in [Calls -> CallPoints] /\ restarts \in 0 .. MaxRestarts
    BY DEF CallPoints
  <2>3. checkpoints \subseteq 1 .. Steps /\ attempted \subseteq 0 .. Steps - 1 /\ step \in 0 .. Steps
    OBVIOUS
  <2>4. /\ active \in BOOLEAN /\ parallel \in BOOLEAN /\ planned \in BOOLEAN
        /\ overlapped \in BOOLEAN /\ halted \in BOOLEAN /\ stranded \in BOOLEAN
    OBVIOUS
  <2>5. status \in Status /\ used \in Nat /\ gated \in Plans \cup {{}} /\ slot \in Loops \cup {NoLoop}
    BY DEF Status
  <2> QED
    BY <2>1, <2>2, <2>3, <2>4, <2>5 DEF TypeOK
<1>2. NotStarted /\ RowsInv /\ \A l \in Loops : InHand(l)
  BY DEF NotStarted, RowsInv, InHand, GateHolds, NoStepSkipped
<1>3. ControlInv
  BY DEF ControlInv, CallsInv, LoopInv, RunningHasLoop, Busy, Executing
<1>4. AccountInv
  BY DEF AccountInv, OutcomeInv, BudgetHolds, CompletedMeansAttempted
<1> QED
  BY <1>1, <1>2, <1>3, <1>4 DEF MissionInv, ExecutionInv

\* Every step keeps the invariant.
LEMMA MissionNext == MissionInv /\ [Next]_vars => MissionInv'
<1> SUFFICES ASSUME MissionInv, [Next]_vars
             PROVE  MissionInv'
  OBVIOUS
<1>1. TypeOK'
  BY TypesKept DEF MissionInv, ExecutionInv
<1>2. ExecutionInv'
  BY <1>1, ExecutionStep DEF MissionInv, ExecutionInv
<1>3. ControlInv'
  BY ControlStep DEF MissionInv, ExecutionInv
<1>4. AccountInv'
  BY AccountStep DEF MissionInv
<1> QED
  BY <1>2, <1>3, <1>4 DEF MissionInv

\* Whatever is paused, resumed, rolled back, crashed or executed by two loops
\* at once: no step is passed over and none gets past the gate; without
\* overlapping API calls nothing is spent over the budget and COMPLETED means
\* that every step of the plan was given to the orchestrator (mission.py).
THEOREM MissionsAreAccountable == Spec => []Accountable
<1>1. MissionInv => Accountable
  BY DEF MissionInv, ExecutionInv, RowsInv, AccountInv, Accountable
<1> QED
  BY <1>1, MissionInit, MissionNext, PTL DEF Spec

\* Without overlapping API calls a RUNNING mission has one loop, and one that
\* was stopped none, over crashes and restarts (_running_tasks of mission.py).
THEOREM LoopsFollowTheStatus == Spec => []LoopsFollowStatus
<1>1. MissionInv => LoopsFollowStatus
  BY DEF MissionInv, ControlInv, LoopInv, LoopsFollowStatus, OneLoop, RunningHasLoop,
         StoppedMeansStopped
<1> QED
  BY <1>1, MissionInit, MissionNext, PTL DEF Spec
-----------------------------------------------------------------------------
(* The transports.                                                         *)

TransportSpec == TransportInit /\ [][TransportNext]_transportVars

Markers == {END, ERR}

\* TransportTypeOK without the leases and the bound on the messages.
Types ==
    /\ backend \in {"local", "remote"}
    /\ published \in Seq(Envelopes)
    /\ joined \in [Readers -> Nat]
    /\ given \in [Readers -> Seq(Envelopes \cup {Unsupported})]
    /\ registered \subseteq Readers
    /\ pump \in [Readers -> PumpPoints]
    /\ wire \in [Readers -> Seq(Raw)]
    /\ inbox \in [Readers -> Seq(Raw \cup Markers)]

\* The place in published that the first message in the inbox has, and the first
\* one on the wire.
Next1(r) == joined[r] + Len(given[r])
Next2(r) == Next1(r) + Len(inbox[r])

\* Nothing has reached a reader that has no iterator, or one Redis has not
\* confirmed yet.
Untouched(r) ==
    pump[r] \in {"none", "starting"} =>
        given[r] = <<>> /\ inbox[r] = <<>> /\ wire[r] = <<>> /\ r \notin registered

\* With Redis a reader is in the fan-out as long as its pump polls, in a local
\* transport it has no pump and nothing on the wire.
PumpMatches(r) ==
    /\ remote => (r \in registered <=> pump[r] = "polling")
    /\ local => pump[r] \in {"none", "stopped"} /\ wire[r] = <<>>
    /\ wire[r] # <<>> => r \in registered

\* The inbox holds messages in the order they were published, then markers.
InboxInOrder(r) ==
    \A i \in 1 .. Len(inbox[r]) : inbox[r][i] \notin Markers =>
        /\ Next1(r) + i <= Len(published)
        /\ inbox[r][i] = Pack(published[Next1(r) + i])
        /\ \A j \in 1 .. i : inbox[r][j] \notin Markers

\* The wire goes on where the inbox ends.
WireInOrder(r) ==
    \A i \in 1 .. Len(wire[r]) :
        /\ Next2(r) + i <= Len(published)
        /\ wire[r][i] = Pack(published[Next2(r) + i])

\* A reader in the fan-out has no marker yet and misses nothing.
NothingMissing(r) ==
    r \in registered =>
        /\ \A i \in 1 .. Len(inbox[r]) : inbox[r][i] \notin Markers
        /\ Next2(r) + Len(wire[r]) = Len(published)

ReaderInv(r) ==
    /\ Untouched(r) /\ PumpMatches(r)
    /\ InboxInOrder(r) /\ WireInOrder(r) /\ NothingMissing(r)

TransportInv == Types /\ \A r \in Readers : ReaderInv(r)
-----------------------------------------------------------------------------
(* The codec.                                                              *)

\* A packed envelope is not a marker.
LEMMA PackedIsNoMarker ==
    ASSUME NEW e \in Envelopes
    PROVE  Pack(e) \in Raw /\ Pack(e) \notin Markers
<1>1. Pack(e) \in Raw
  BY DEF Raw
<1>2. Pack(e).version \in {1, 2}
  BY DEF Pack, Envelopes, Versions
<1>3. END.version = 0 /\ ERR.version = 0
  BY DEF END, ERR
<1> QED
  BY <1>1, <1>2, <1>3 DEF Markers

\* Unpacking what was packed gives the envelope, or the error for a version that
\* is not known (the gate of envelope.py).
LEMMA UnpackAfterPack ==
    ASSUME NEW e \in Envelopes
    PROVE  Unpack(Pack(e)) = AsRead(e) /\ AsRead(e) \in Envelopes \cup {Unsupported}
<1>1. Pack(e).version = e.version /\ Pack(e).text[2] = e.key
  BY DEF Pack
<1>2. CASE e.version = 1
  <2>1. Unpack(Pack(e)) = [version |-> 1, key |-> e.key]
    BY <1>1, <1>2 DEF Unpack
  <2>2. e = [version |-> 1, key |-> e.key]
    BY <1>2 DEF Envelopes
  <2> QED
    BY <1>2, <2>1, <2>2 DEF AsRead
<1>3. CASE e.version # 1
  BY <1>1, <1>3 DEF Unpack, AsRead
<1> QED
  BY <1>2, <1>3
-----------------------------------------------------------------------------
(* The invariant.                                                          *)

\* The invariant of a reader nothing happens to.
LEMMA ReaderUntouched ==
    ASSUME TransportInv, NEW r \in Readers,
           UNCHANGED <<backend, published, joined[r], given[r], pump[r], wire[r], inbox[r]>>,
           r \in registered' <=> r \in registered
    PROVE  ReaderInv(r)'
BY DEF TransportInv, ReaderInv, Untouched, PumpMatches, InboxInOrder, WireInOrder,
       NothingMissing, Next1, Next2, local, remote

\* publish() appends to the queue or the wire of every registered reader.
LEMMA PublishKeeps ==
    ASSUME TransportInv, NEW e \in Envelopes, Publish(e)
    PROVE  TransportInv'
<1>1. /\ published' \in Seq(Envelopes) /\ Len(published') = Len(published) + 1
      /\ \A i \in 1 .. Len(published) : published'[i] = published[i]
      /\ published'[Len(published) + 1] = e
  BY DEF Publish, TransportInv, Types
<1>2. UNCHANGED <<backend, joined, given, registered, pump>>
  BY DEF Publish
<1>3. Pack(e) \in Raw /\ Pack(e) \notin Markers
  BY PackedIsNoMarker
<1>4. CASE PublishLocal(e)
  <2>1. local /\ inbox' = Fanned(inbox, e) /\ wire' = wire
    BY <1>4 DEF PublishLocal
  <2>2. inbox' \in [Readers -> Seq(Raw \cup Markers)]
    BY <1>3, <2>1 DEF Fanned, TransportInv, Types
  <2>3. ASSUME NEW r \in Readers
        PROVE  ReaderInv(r)'
    <3>1. CASE r \in registered
      <4>1. /\ Len(inbox'[r]) = Len(inbox[r]) + 1
            /\ \A i \in 1 .. Len(inbox[r]) : inbox'[r][i] = inbox[r][i]
            /\ inbox'[r][Len(inbox[r]) + 1] = Pack(e)
        BY <1>3, <2>1, <3>1 DEF Fanned, TransportInv, Types
      <4>2. wire[r] = <<>> /\ Len(wire[r]) = 0
        BY <2>1 DEF TransportInv, ReaderInv, PumpMatches
      <4>3. Next1(r) \in Nat /\ Len(inbox[r]) \in Nat /\ Len(published) \in Nat /\ Next1(r)' = Next1(r)
        BY <1>2 DEF Next1, TransportInv, Types
      <4>4. Next1(r) + Len(inbox[r]) = Len(published)
        BY <3>1, <4>2, <4>3 DEF TransportInv, ReaderInv, NothingMissing, Next2
      <4>9. \A i \in 1 .. Len(inbox[r]) : inbox[r][i] \notin Markers
        BY <3>1 DEF TransportInv, ReaderInv, NothingMissing
      <4>5. \A i \in 1 .. Len(inbox'[r]) : inbox'[r][i] \notin Markers
        <5> SUFFICES ASSUME NEW i \in 1 .. Len(inbox'[r])
                     PROVE  inbox'[r][i] \notin Markers
          OBVIOUS
        <5>1. CASE i = Len(inbox[r]) + 1
          BY <1>3, <4>1, <5>1
        <5>2. CASE i \in 1 .. Len(inbox[r])
          BY <4>1, <4>9, <5>2
        <5> QED
          BY <4>1, <4>3, <5>1, <5>2
      <4>6. InboxInOrder(r)'
        <5> SUFFICES ASSUME NEW i \in 1 .. Len(inbox'[r])
                     PROVE  /\ Next1(r) + i <= Len(published')
                            /\ inbox'[r][i] = Pack(published'[Next1(r) + i])
          BY <4>3, <4>5 DEF InboxInOrder
        <5>1. CASE i = Len(inbox[r]) + 1
          <6>1. Next1(r) + i = Len(published) + 1
            BY <4>3, <4>4, <5>1
          <6>2. Len(published') = Len(published) + 1 /\ published'[Next1(r) + i] = e
            BY <1>1, <6>1
          <6>3. inbox'[r][i] = Pack(e)
            BY <4>1, <5>1
          <6>4. Next1(r) + i <= Len(published')
            BY <4>3, <6>1, <6>2
          <6>5. inbox'[r][i] = Pack(published'[Next1(r) + i])
            BY <6>2, <6>3
          <6> QED
            BY <6>4, <6>5
        <5>2. CASE i \in 1 .. Len(inbox[r])
          <6>1. Next1(r) + i <= Len(published) /\ inbox[r][i] = Pack(published[Next1(r) + i])
            BY <4>9, <5>2 DEF TransportInv, ReaderInv, InboxInOrder
          <6>2. Next1(r) + i \in 1 .. Len(published) /\ Next1(r) + i <= Len(published) + 1
            BY <4>3, <5>2, <6>1
          <6>3. published'[Next1(r) + i] = published[Next1(r) + i] /\ Next1(r) + i <= Len(published')
            BY <1>1, <6>2
          <6>4. inbox'[r][i] = inbox[r][i]
            BY <4>1, <5>2
          <6> QED
            BY <6>1, <6>3, <6>4
        <5> QED
          BY <4>1, <4>3, <5>1, <5>2
      <4>7. NothingMissing(r)'
        <5>1. Next2(r)' = Next1(r)' + Len(inbox'[r]) /\ Len(wire'[r]) = 0
          BY <2>1, <4>2 DEF Next2
        <5>2. Next1(r)' + Len(inbox'[r]) = Next1(r) + (Len(inbox[r]) + 1)
          BY <4>1, <4>3
        <5>3. Next1(r) + (Len(inbox[r]) + 1) = Len(published) + 1
          BY <4>3, <4>4
        <5>4. Next2(r)' = Len(published')
          BY <1>1, <5>1, <5>2, <5>3
        <5>5. Len(published') \in Nat
          BY <1>1, <4>3
        <5>6. Next2(r)' + Len(wire'[r]) = Len(published')
          BY <5>1, <5>4, <5>5
        <5> QED
          BY <4>5, <5>6 DEF NothingMissing
      <4>8. WireInOrder(r)'
        BY <2>1, <4>2 DEF WireInOrder
      <4> QED
        <5>1. Untouched(r)
          BY DEF TransportInv, ReaderInv
        <5>2. PumpMatches(r)' /\ Untouched(r)'
          BY <1>2, <2>1, <3>1, <4>2, <5>1
             DEF TransportInv, Types, Untouched, PumpMatches, ReaderInv, local, remote
        <5> QED
          BY <4>6, <4>7, <4>8, <5>2 DEF ReaderInv
    <3>2. CASE r \notin registered
      <4>1. inbox'[r] = inbox[r] /\ wire'[r] = wire[r]
        BY <2>1, <3>2 DEF Fanned, TransportInv, Types
      <4>2. Next1(r) \in Nat /\ Next1(r)' = Next1(r) /\ Next2(r) \in Nat /\ Next2(r)' = Next2(r)
        BY <1>2, <4>1 DEF Next1, Next2, TransportInv, Types
      <4>3. Untouched(r)' /\ PumpMatches(r)' /\ NothingMissing(r)'
        BY <1>2, <3>2, <4>1
           DEF TransportInv, ReaderInv, Untouched, PumpMatches, NothingMissing, local, remote
      <4>4. Len(published) \in Nat /\ Len(inbox[r]) \in Nat /\ Len(wire[r]) = 0
        BY <2>1 DEF TransportInv, Types, ReaderInv, PumpMatches
      <4>5. InboxInOrder(r)'
        <5>1. InboxInOrder(r)
          BY DEF TransportInv, ReaderInv
        <5> SUFFICES ASSUME NEW i \in 1 .. Len(inbox[r]), inbox[r][i] \notin Markers
                     PROVE  /\ Next1(r) + i <= Len(published')
                            /\ inbox[r][i] = Pack(published'[Next1(r) + i])
                            /\ \A j \in 1 .. i : inbox[r][j] \notin Markers
          BY <4>1, <4>2 DEF InboxInOrder
        <5>2. /\ Next1(r) + i <= Len(published) /\ inbox[r][i] = Pack(published[Next1(r) + i])
              /\ \A j \in 1 .. i : inbox[r][j] \notin Markers
          BY <5>1 DEF InboxInOrder
        <5>3. Next1(r) + i \in 1 .. Len(published) /\ Next1(r) + i <= Len(published) + 1
          BY <4>2, <4>4, <5>2
        <5>4. published'[Next1(r) + i] = published[Next1(r) + i]
          BY <1>1, <5>3
        <5> QED
          BY <1>1, <5>2, <5>3, <5>4
      <4>6. WireInOrder(r)'
        BY <4>1, <4>4 DEF WireInOrder
      <4> QED
        BY <4>3, <4>5, <4>6 DEF ReaderInv
    <3> QED
      BY <3>1, <3>2
  <2> QED
    BY <1>1, <1>2, <2>1, <2>2, <2>3 DEF TransportInv, Types
<1>5. CASE PublishRemote(e)
  <2>1. remote /\ wire' = Fanned(wire, e) /\ inbox' = inbox
    BY <1>5 DEF PublishRemote
  <2>2. wire' \in [Readers -> Seq(Raw)]
    BY <1>3, <2>1 DEF Fanned, TransportInv, Types
  <2>3. ASSUME NEW r \in Readers
        PROVE  ReaderInv(r)'
    <3>1. /\ Next1(r) \in Nat /\ Next1(r)' = Next1(r)
          /\ Next2(r) \in Nat /\ Next2(r)' = Next2(r)
          /\ Len(inbox[r]) \in Nat /\ Len(wire[r]) \in Nat /\ Len(published) \in Nat
      BY <1>2, <2>1 DEF Next1, Next2, TransportInv, Types
    <3>2. InboxInOrder(r)'
      <4>1. \A i \in 1 .. Len(inbox[r]) : Next1(r) + i <= Len(published) =>
                /\ published'[Next1(r) + i] = published[Next1(r) + i]
                /\ Next1(r) + i <= Len(published')
        BY <1>1, <3>1
      <4> QED
        BY <2>1, <3>1, <4>1 DEF TransportInv, ReaderInv, InboxInOrder
    <3>3. CASE r \in registered
      <4>1. /\ Len(wire'[r]) = Len(wire[r]) + 1
            /\ \A i \in 1 .. Len(wire[r]) : wire'[r][i] = wire[r][i]
            /\ wire'[r][Len(wire[r]) + 1] = Pack(e)
        BY <1>3, <2>1, <3>3 DEF Fanned, TransportInv, Types
      <4>2. Next2(r) + Len(wire[r]) = Len(published)
        BY <3>3 DEF TransportInv, ReaderInv, NothingMissing
      <4>3. WireInOrder(r)'
        <5> SUFFICES ASSUME NEW i \in 1 .. Len(wire'[r])
                     PROVE  /\ Next2(r) + i <= Len(published')
                            /\ wire'[r][i] = Pack(published'[Next2(r) + i])
          BY <3>1 DEF WireInOrder
        <5>1. CASE i = Len(wire[r]) + 1
          BY <1>1, <3>1, <4>1, <4>2, <5>1
        <5>2. CASE i \in 1 .. Len(wire[r])
          <6>1. Next2(r) + i <= Len(published) /\ wire[r][i] = Pack(published[Next2(r) + i])
            BY <5>2 DEF TransportInv, ReaderInv, WireInOrder
          <6> QED
            BY <1>1, <3>1, <4>1, <5>2, <6>1
        <5> QED
          BY <3>1, <4>1, <5>1, <5>2
      <4>4. NothingMissing(r)'
        <5>1. \A i \in 1 .. Len(inbox'[r]) : inbox'[r][i] \notin Markers
          BY <2>1, <3>3 DEF TransportInv, ReaderInv, NothingMissing
        <5>2. Next2(r)' + Len(wire'[r]) = Len(published')
          <6>1. Len(published') = Len(published) + 1 /\ Len(wire'[r]) = Len(wire[r]) + 1
            BY <1>1, <4>1
          <6>2. Next2(r) + (Len(wire[r]) + 1) = Len(published) + 1
            <7>1. Next2(r) \in Nat /\ Len(wire[r]) \in Nat /\ Len(published) \in Nat
              BY <3>1
            <7> QED
              BY <4>2, <7>1
          <6>3. Next2(r)' = Next2(r)
            BY <3>1
          <6> QED
            BY <6>1, <6>2, <6>3
        <5> QED
          BY <5>1, <5>2 DEF NothingMissing
      <4> QED
        BY <1>2, <2>1, <3>2, <3>3, <4>3, <4>4
           DEF TransportInv, ReaderInv, Untouched, PumpMatches, local, remote
    <3>4. CASE r \notin registered
      <4>1. wire'[r] = wire[r]
        BY <2>1, <3>4 DEF Fanned, TransportInv, Types
      <4> QED
        BY <1>1, <1>2, <2>1, <3>1, <3>2, <3>4, <4>1
           DEF TransportInv, ReaderInv, Untouched, PumpMatches, WireInOrder,
               NothingMissing, Types, local, remote
    <3> QED
      BY <3>3, <3>4
  <2> QED
    BY <1>1, <1>2, <2>1, <2>2, <2>3 DEF TransportInv, Types
<1> QED
  BY <1>4, <1>5 DEF Publish

\* A reader joins the fan-out with nothing received, at the end of what has been
\* published.
LEMMA JoinKeeps ==
    ASSUME TransportInv, NEW r \in Readers, given[r] = <<>>, inbox[r] = <<>>, wire[r] = <<>>,
           registered' = registered \cup {r},
           joined' = [joined EXCEPT ![r] = Len(published)],
           UNCHANGED <<backend, published, given, wire, inbox>>,
           \/ local /\ pump' = [pump EXCEPT ![r] = "stopped"]
           \/ remote /\ pump' = [pump EXCEPT ![r] = "polling"]
    PROVE  TransportInv'
<1>1. Types'
  <2>1. Len(published) \in Nat
    BY DEF TransportInv, Types
  <2>2. joined' \in [Readers -> Nat] /\ pump' \in [Readers -> PumpPoints]
    BY <2>1 DEF TransportInv, Types, PumpPoints
  <2> QED
    BY <2>2 DEF TransportInv, Types
<1>2. ReaderInv(r)'
  <2>1. joined'[r] = Len(published) /\ pump'[r] \in {"stopped", "polling"} /\ r \in registered'
    BY DEF TransportInv, Types
  <2>2. Len(inbox'[r]) = 0 /\ Len(wire'[r]) = 0 /\ Len(given'[r]) = 0 /\ Len(published) \in Nat
    BY DEF TransportInv, Types
  <2>3. Next1(r)' = Len(published') /\ Next2(r)' = Len(published')
    BY <2>1, <2>2 DEF Next1, Next2
  <2>4. PumpMatches(r)'
    BY <2>1 DEF PumpMatches, local, remote, TransportInv, Types
  <2> QED
    BY <2>1, <2>2, <2>3, <2>4
       DEF ReaderInv, Untouched, InboxInOrder, WireInOrder, NothingMissing
<1>3. ASSUME NEW q \in Readers, q # r
      PROVE  ReaderInv(q)'
  BY <1>3, ReaderUntouched DEF TransportInv, Types
<1> QED
  BY <1>1, <1>2, <1>3 DEF TransportInv

\* subscribe().
LEMMA SubscribeKeeps ==
    ASSUME TransportInv, NEW r \in Readers, Subscribe(r)
    PROVE  TransportInv'
<1>1. pump[r] = "none" /\ UNCHANGED <<backend, published, given, wire, inbox>>
  BY DEF Subscribe, Subscribed
<1>2. given[r] = <<>> /\ inbox[r] = <<>> /\ wire[r] = <<>> /\ r \notin registered
  BY <1>1 DEF TransportInv, ReaderInv, Untouched
<1>3. CASE SubscribeLocal(r)
  BY <1>1, <1>2, <1>3, JoinKeeps DEF SubscribeLocal
<1>4. CASE SubscribeRemote(r)
  <2>1. remote /\ pump' = [pump EXCEPT ![r] = "starting"] /\ UNCHANGED <<registered, joined>>
    BY <1>4 DEF SubscribeRemote
  <2>2. Types'
    BY <1>1, <2>1 DEF TransportInv, Types, PumpPoints
  <2>3. ReaderInv(r)'
    BY <1>1, <1>2, <2>1
       DEF TransportInv, Types, ReaderInv, Untouched, PumpMatches, InboxInOrder,
           WireInOrder, NothingMissing, local, remote
  <2>4. ASSUME NEW q \in Readers, q # r
        PROVE  ReaderInv(q)'
    BY <1>1, <2>1, <2>4, ReaderUntouched DEF TransportInv, Types
  <2> QED
    BY <2>2, <2>3, <2>4 DEF TransportInv
<1> QED
  BY <1>3, <1>4 DEF Subscribe

\* Redis confirms the subscription.
LEMMA PumpSubscribesKeeps ==
    ASSUME TransportInv, NEW r \in Readers, PumpSubscribes(r)
    PROVE  TransportInv'
<1>1. pump[r] = "starting"
  BY DEF PumpSubscribes
<1>2. remote /\ given[r] = <<>> /\ inbox[r] = <<>> /\ wire[r] = <<>>
  BY <1>1 DEF TransportInv, Types, ReaderInv, Untouched, PumpMatches, local, remote
<1> QED
  BY <1>2, JoinKeeps DEF PumpSubscribes

\* The pump hands a message on from the wire to the inbox.
LEMMA PumpReadsKeeps ==
    ASSUME TransportInv, NEW r \in Readers, PumpReads(r)
    PROVE  TransportInv'
<1> DEFINE m == Head(wire[r])
<1>1. /\ pump[r] = "polling" /\ wire[r] # <<>>
      /\ inbox' = [inbox EXCEPT ![r] = Append(@, m)] /\ wire' = [wire EXCEPT ![r] = Tail(@)]
      /\ UNCHANGED <<backend, published, joined, given, registered, pump>>
  BY DEF PumpReads, Put, channel
<1>2. /\ wire[r] \in Seq(Raw) /\ inbox[r] \in Seq(Raw \cup Markers)
      /\ Next1(r) \in Nat /\ published \in Seq(Envelopes)
  BY DEF TransportInv, Types, Next1
<1>3. /\ m \in Raw /\ m = wire[r][1] /\ Len(wire[r]) \in Nat /\ 1 \in 1 .. Len(wire[r])
      /\ Tail(wire[r]) \in Seq(Raw) /\ Len(Tail(wire[r])) = Len(wire[r]) - 1
      /\ \A i \in 1 .. Len(wire[r]) - 1 : Tail(wire[r])[i] = wire[r][i + 1]
  BY <1>1, <1>2, HeadTailProperties
<1>4. /\ Len(Append(inbox[r], m)) = Len(inbox[r]) + 1 /\ Len(inbox[r]) \in Nat
      /\ \A i \in 1 .. Len(inbox[r]) : Append(inbox[r], m)[i] = inbox[r][i]
      /\ Append(inbox[r], m)[Len(inbox[r]) + 1] = m
      /\ Append(inbox[r], m) \in Seq(Raw \cup Markers)
  BY <1>2, <1>3
<1>5. inbox'[r] = Append(inbox[r], m) /\ wire'[r] = Tail(wire[r])
  BY <1>1 DEF TransportInv, Types
<1>6. Types'
  BY <1>1, <1>3, <1>4 DEF TransportInv, Types
<1>7. /\ r \in registered
      /\ \A i \in 1 .. Len(inbox[r]) : inbox[r][i] \notin Markers
      /\ Next2(r) + Len(wire[r]) = Len(published)
  BY <1>1 DEF TransportInv, ReaderInv, PumpMatches, NothingMissing
<1>8. /\ Next1(r)' = Next1(r) /\ Next2(r) = Next1(r) + Len(inbox[r]) /\ Next2(r) \in Nat
      /\ Next2(r)' = Next2(r) + 1
  BY <1>1, <1>2, <1>4, <1>5 DEF Next1, Next2
<1>9. Next2(r) + 1 <= Len(published) /\ m = Pack(published[Next2(r) + 1]) /\ m \notin Markers
  <2>1. Next2(r) + 1 <= Len(published) /\ m = Pack(published[Next2(r) + 1])
    BY <1>3 DEF TransportInv, ReaderInv, WireInOrder
  <2>2. published[Next2(r) + 1] \in Envelopes
    BY <1>2, <1>4, <1>8, <2>1
  <2> QED
    BY <2>1, <2>2, PackedIsNoMarker
<1> HIDE DEF m
<1>10. InboxInOrder(r)' /\ \A i \in 1 .. Len(inbox'[r]) : inbox'[r][i] \notin Markers
  <2>1. \A i \in 1 .. Len(inbox'[r]) : inbox'[r][i] \notin Markers
    BY <1>4, <1>5, <1>7, <1>9
  <2> SUFFICES ASSUME NEW i \in 1 .. Len(inbox'[r])
               PROVE  /\ Next1(r) + i <= Len(published)
                      /\ inbox'[r][i] = Pack(published[Next1(r) + i])
    BY <1>1, <1>8, <2>1 DEF InboxInOrder
  <2>2. CASE i = Len(inbox[r]) + 1
    <3>1. Next1(r) + i = Next2(r) + 1
      BY <1>2, <1>4, <1>8, <2>2
    <3> QED
      BY <1>4, <1>5, <1>9, <2>2, <3>1
  <2>3. CASE i \in 1 .. Len(inbox[r])
    <3>1. Next1(r) + i <= Len(published) /\ inbox[r][i] = Pack(published[Next1(r) + i])
      BY <1>7, <2>3 DEF TransportInv, ReaderInv, InboxInOrder
    <3> QED
      BY <1>4, <1>5, <2>3, <3>1
  <2> QED
    BY <1>4, <1>5, <2>2, <2>3
<1>11. WireInOrder(r)'
  <2> SUFFICES ASSUME NEW i \in 1 .. Len(wire'[r])
               PROVE  /\ Next2(r) + 1 + i <= Len(published)
                      /\ wire'[r][i] = Pack(published[Next2(r) + 1 + i])
    BY <1>1, <1>8 DEF WireInOrder
  <2>1. i + 1 \in 1 .. Len(wire[r]) /\ wire'[r][i] = wire[r][i + 1]
    BY <1>3, <1>5
  <2>2. Next2(r) + (i + 1) <= Len(published) /\ wire[r][i + 1] = Pack(published[Next2(r) + (i + 1)])
    BY <2>1 DEF TransportInv, ReaderInv, WireInOrder
  <2>3. Next2(r) + (i + 1) = Next2(r) + 1 + i
    BY <1>8
  <2> QED
    BY <2>1, <2>2, <2>3
<1>12. NothingMissing(r)'
  <2>1. Len(wire'[r]) = Len(wire[r]) - 1 /\ Len(published') = Len(published)
    BY <1>1, <1>3, <1>5
  <2>2. Next2(r)' + Len(wire'[r]) = Len(published')
    BY <1>3, <1>7, <1>8, <2>1
  <2> QED
    BY <1>10, <2>2 DEF NothingMissing
<1>13. ReaderInv(r)'
  BY <1>1, <1>7, <1>10, <1>11, <1>12
     DEF TransportInv, ReaderInv, Untouched, PumpMatches, local, remote
<1>14. ASSUME NEW q \in Readers, q # r
       PROVE  ReaderInv(q)'
  BY <1>1, <1>14, ReaderUntouched DEF TransportInv, Types
<1> QED
  BY <1>6, <1>13, <1>14 DEF TransportInv

\* Nothing is put in a reader's inbox any more once the pump has failed.
LEMMA MarkersAppended ==
    ASSUME TransportInv, NEW r \in Readers, NEW ms \in Seq(Markers),
           inbox'[r] = inbox[r] \o ms,
           UNCHANGED <<published, joined, given>>
    PROVE  InboxInOrder(r)' /\ inbox'[r] \in Seq(Raw \cup Markers)
<1>1. inbox[r] \in Seq(Raw \cup Markers) /\ ms \in Seq(Raw \cup Markers)
  BY SeqMonotonic DEF TransportInv, Types
<1>2. /\ inbox[r] \o ms \in Seq(Raw \cup Markers)
      /\ Len(inbox[r] \o ms) = Len(inbox[r]) + Len(ms)
      /\ Len(inbox[r]) \in Nat /\ Len(ms) \in Nat
      /\ \A i \in 1 .. Len(inbox[r]) + Len(ms) :
           (inbox[r] \o ms)[i] = IF i <= Len(inbox[r]) THEN inbox[r][i] ELSE ms[i - Len(inbox[r])]
  BY <1>1, ConcatProperties
<1>3. inbox'[r] = inbox[r] \o ms /\ inbox'[r] \in Seq(Raw \cup Markers)
  BY <1>2
<1>4. ASSUME NEW i \in 1 .. Len(inbox'[r]), inbox'[r][i] \notin Markers
      PROVE  i <= Len(inbox[r])
  <2> SUFFICES ASSUME i > Len(inbox[r])
               PROVE  FALSE
    BY <1>2
  <2>1. i - Len(inbox[r]) \in 1 .. Len(ms) /\ inbox'[r][i] = ms[i - Len(inbox[r])]
    BY <1>2, <1>3
  <2>2. ms[i - Len(inbox[r])] \in Markers
    BY <2>1, ElementOfSeq
  <2> QED
    BY <1>4, <2>1, <2>2
<1>5. ASSUME NEW i \in 1 .. Len(inbox'[r]), i <= Len(inbox[r])
      PROVE  inbox'[r][i] = inbox[r][i] /\ i \in 1 .. Len(inbox[r])
  BY <1>2, <1>3, <1>5
<1>6. Next1(r)' = Next1(r)
  BY DEF Next1
<1>7. InboxInOrder(r)'
  <2> SUFFICES ASSUME NEW i \in 1 .. Len(inbox'[r]), inbox'[r][i] \notin Markers
               PROVE  /\ Next1(r) + i <= Len(published)
                      /\ inbox'[r][i] = Pack(published[Next1(r) + i])
                      /\ \A j \in 1 .. i : inbox'[r][j] \notin Markers
    BY <1>6 DEF InboxInOrder
  <2>1. i \in 1 .. Len(inbox[r]) /\ inbox'[r][i] = inbox[r][i]
    BY <1>4, <1>5
  <2>2. /\ Next1(r) + i <= Len(published) /\ inbox[r][i] = Pack(published[Next1(r) + i])
        /\ \A j \in 1 .. i : inbox[r][j] \notin Markers
    BY <2>1 DEF TransportInv, ReaderInv, InboxInOrder
  <2>3. ASSUME NEW j \in 1 .. i
        PROVE  inbox'[r][j] \notin Markers
    <3>1. j \in 1 .. Len(inbox'[r]) /\ j <= Len(inbox[r])
      BY <1>2, <1>3, <2>1
    <3>2. inbox'[r][j] = inbox[r][j]
      BY <1>5, <3>1
    <3> QED
      BY <2>2, <3>2
  <2> QED
    BY <2>1, <2>2, <2>3
<1> QED
  BY <1>3, <1>7

\* A reader that leaves the fan-out, with what was on its wire dropped and only
\* markers put in its inbox.
LEMMA LeaveKeeps ==
    ASSUME TransportInv, NEW r \in Readers, NEW ms \in Seq(Markers), pump[r] # "none",
           inbox' = [inbox EXCEPT ![r] = @ \o ms],
           wire' = [wire EXCEPT ![r] = <<>>],
           registered' = registered \ {r},
           UNCHANGED <<backend, published, joined, given>>,
           \/ pump' = [pump EXCEPT ![r] = "stopped"]
           \/ local /\ pump' = pump
    PROVE  TransportInv'
<1>1. InboxInOrder(r)' /\ inbox' \in [Readers -> Seq(Raw \cup Markers)]
  <2>1. inbox'[r] = inbox[r] \o ms
    BY DEF TransportInv, Types
  <2>2. InboxInOrder(r)' /\ inbox'[r] \in Seq(Raw \cup Markers)
    BY <2>1, MarkersAppended
  <2> QED
    BY <2>1, <2>2 DEF TransportInv, Types
<1>2. Types'
  <2>1. pump' \in [Readers -> PumpPoints] /\ wire' \in [Readers -> Seq(Raw)]
    <3>1. <<>> \in Seq(Raw) /\ "stopped" \in PumpPoints
      BY DEF PumpPoints
    <3> QED
      BY <3>1 DEF TransportInv, Types
  <2> QED
    BY <1>1, <2>1 DEF TransportInv, Types
<1>3. pump'[r] = "stopped" /\ wire'[r] = <<>> /\ r \notin registered'
  BY DEF TransportInv, Types, ReaderInv, PumpMatches
<1>4. ReaderInv(r)'
  BY <1>1, <1>3
     DEF ReaderInv, Untouched, PumpMatches, WireInOrder, NothingMissing, local, remote
<1>5. ASSUME NEW q \in Readers, q # r
      PROVE  ReaderInv(q)'
  BY <1>5, ReaderUntouched DEF TransportInv, Types
<1> QED
  BY <1>2, <1>4, <1>5 DEF TransportInv

\* The pump fails: the error and the end are put in the inbox.
LEMMA PumpFailsKeeps ==
    ASSUME TransportInv, NEW r \in Readers, PumpFails(r)
    PROVE  TransportInv'
<1>1. <<ERR, END>> \in Seq(Markers)
  BY DEF Markers
<1> QED
  BY <1>1, LeaveKeeps DEF PumpFails, channel

\* aclose().
LEMMA AcloseKeeps ==
    ASSUME TransportInv, NEW r \in Readers, Aclose(r)
    PROVE  TransportInv'
<1>1. /\ pump[r] # "none" /\ registered' = registered \ {r}
      /\ UNCHANGED <<backend, published, joined, given>>
  BY DEF Aclose, Subscribed, channel
<1>2. <<>> \in Seq(Markers) /\ <<END>> \in Seq(Markers)
  BY DEF Markers
<1>3. inbox = [inbox EXCEPT ![r] = @ \o <<>>]
  <2>1. inbox[r] \o <<>> = inbox[r]
    BY ConcatEmptySeq DEF TransportInv, Types
  <2> QED
    BY <2>1 DEF TransportInv, Types
<1>4. CASE AcloseLocal(r)
  <2>1. local /\ UNCHANGED <<pump, wire, inbox>>
    BY <1>4 DEF AcloseLocal
  <2>2. wire = [wire EXCEPT ![r] = <<>>]
    BY <2>1 DEF TransportInv, Types, ReaderInv, PumpMatches
  <2> QED
    BY <1>1, <1>2, <1>3, <2>1, <2>2, LeaveKeeps
<1>5. CASE AcloseRemote(r)
  <2>1. pump' = [pump EXCEPT ![r] = "stopped"] /\ wire' = [wire EXCEPT ![r] = <<>>]
    BY <1>5 DEF AcloseRemote
  <2>2. CASE inbox' = [inbox EXCEPT ![r] = Append(@, END)]
    <3>1. Append(inbox[r], END) = inbox[r] \o <<END>>
      BY DEF TransportInv, Types, Markers
    <3> QED
      BY <1>1, <1>2, <2>1, <2>2, <3>1, LeaveKeeps
  <2>3. CASE inbox' = inbox
    BY <1>1, <1>2, <1>3, <2>1, <2>3, LeaveKeeps
  <2> QED
    BY <1>5, <2>2, <2>3 DEF AcloseRemote, Put
<1> QED
  BY <1>4, <1>5 DEF Aclose

\* Steps that touch no reader's messages.
LEMMA NothingReadKeeps ==
    ASSUME TransportInv,
           UNCHANGED <<backend, published, joined, given, registered, pump, wire, inbox>>
    PROVE  TransportInv'
<1>1. Types'
  BY DEF TransportInv, Types
<1>2. ASSUME NEW r \in Readers
      PROVE  ReaderInv(r)'
  BY ReaderUntouched
<1> QED
  BY <1>1, <1>2 DEF TransportInv

\* What __anext__ takes from the inbox: a message, which is the next envelope, or
\* a marker after which nothing comes.
LEMMA FirstInInbox ==
    ASSUME TransportInv, NEW r \in Readers, inbox[r] # <<>>, Head(inbox[r]) \notin Markers
    PROVE  /\ Next1(r) + 1 <= Len(published)
           /\ published[Next1(r) + 1] \in Envelopes
           /\ Head(inbox[r]) = Pack(published[Next1(r) + 1])
<1>1. inbox[r] \in Seq(Raw \cup Markers) /\ published \in Seq(Envelopes) /\ Next1(r) \in Nat
  BY DEF TransportInv, Types, Next1
<1>2. Head(inbox[r]) = inbox[r][1] /\ 1 \in 1 .. Len(inbox[r])
  BY <1>1, HeadTailProperties
<1>3. Next1(r) + 1 <= Len(published) /\ inbox[r][1] = Pack(published[Next1(r) + 1])
  BY <1>2 DEF TransportInv, ReaderInv, InboxInOrder
<1>4. Next1(r) + 1 \in 1 .. Len(published)
  <2>1. Len(published) \in Nat
    BY <1>1
  <2> QED
    BY <1>1, <1>3, <2>1
<1>5. published[Next1(r) + 1] \in Envelopes
  BY <1>1, <1>4, ElementOfSeq
<1> QED
  BY <1>2, <1>3, <1>5

\* A reader that is given a message, the end or an error.
LEMMA NextReturnsKeeps ==
    ASSUME TransportInv, NEW r \in Readers, NextReturns(r)
    PROVE  TransportInv'
<1> DEFINE m == Head(inbox[r])
<1>1. /\ inbox[r] # <<>> /\ inbox' = [inbox EXCEPT ![r] = Tail(@)]
      /\ UNCHANGED <<backend, published, joined, registered, pump, wire>>
  BY DEF NextReturns
<1>2. /\ inbox[r] \in Seq(Raw \cup Markers) /\ given[r] \in Seq(Envelopes \cup {Unsupported})
      /\ Next1(r) \in Nat /\ joined[r] \in Nat
  BY DEF TransportInv, Types, Next1
<1>3. /\ m = inbox[r][1] /\ Len(inbox[r]) \in Nat /\ 1 \in 1 .. Len(inbox[r])
      /\ Tail(inbox[r]) \in Seq(Raw \cup Markers) /\ Len(Tail(inbox[r])) = Len(inbox[r]) - 1
      /\ \A i \in 1 .. Len(inbox[r]) - 1 : Tail(inbox[r])[i] = inbox[r][i + 1]
  BY <1>1, <1>2, HeadTailProperties
<1>4. inbox'[r] = Tail(inbox[r]) /\ inbox' \in [Readers -> Seq(Raw \cup Markers)]
  BY <1>1, <1>3 DEF TransportInv, Types
<1>5. pump[r] \notin {"none", "starting"} /\ InboxInOrder(r) /\ PumpMatches(r)
  BY <1>1 DEF TransportInv, ReaderInv, Untouched
<1>6. Untouched(r)' /\ PumpMatches(r)'
  BY <1>1, <1>5 DEF Untouched, PumpMatches, local, remote
<1>7. CASE m \in Markers
  <2>1. given' = given
    BY <1>7 DEF NextReturns, Markers
  <2>2. r \notin registered /\ wire[r] = <<>>
    BY <1>3, <1>7 DEF TransportInv, ReaderInv, NothingMissing, PumpMatches
  <2>3. ASSUME NEW i \in 1 .. Len(inbox'[r])
        PROVE  inbox'[r][i] \in Markers
    <3>1. i + 1 \in 1 .. Len(inbox[r]) /\ 1 \in 1 .. i + 1 /\ inbox'[r][i] = inbox[r][i + 1]
      BY <1>3, <1>4
    <3> QED
      BY <1>3, <1>5, <1>7, <3>1 DEF InboxInOrder
  <2>4. Types'
    BY <1>1, <1>4, <2>1 DEF TransportInv, Types
  <2>5. ReaderInv(r)'
    BY <1>1, <1>6, <2>2, <2>3 DEF ReaderInv, InboxInOrder, WireInOrder, NothingMissing
  <2>6. ASSUME NEW q \in Readers, q # r
        PROVE  ReaderInv(q)'
    BY <1>1, <2>1, <2>6, ReaderUntouched DEF TransportInv, Types
  <2> QED
    BY <2>4, <2>5, <2>6 DEF TransportInv
<1>8. CASE m \notin Markers
  <2>1. given' = [given EXCEPT ![r] = Append(@, Unpack(m))]
    BY <1>8 DEF NextReturns, Markers
  <2>2. Unpack(m) \in Envelopes \cup {Unsupported}
    BY <1>1, <1>8, FirstInInbox, UnpackAfterPack
  <2>3. /\ Append(given[r], Unpack(m)) \in Seq(Envelopes \cup {Unsupported})
        /\ Len(Append(given[r], Unpack(m))) = Len(given[r]) + 1 /\ Len(given[r]) \in Nat
    BY <1>2, <2>2
  <2>4. Types'
    BY <1>1, <1>4, <2>1, <2>3 DEF TransportInv, Types
  <2>5. given'[r] = Append(given[r], Unpack(m))
    BY <2>1 DEF TransportInv, Types
  <2>6. Next1(r)' = Next1(r) + 1
    <3>1. Next1(r)' = joined[r] + Len(given'[r]) /\ Next1(r) = joined[r] + Len(given[r])
      BY <1>1 DEF Next1
    <3>2. Len(given'[r]) = Len(given[r]) + 1
      BY <2>3, <2>5
    <3> QED
      BY <1>2, <2>3, <3>1, <3>2
  <2>7. Next2(r)' = Next2(r)
    <3>1. Next2(r)' = Next1(r)' + Len(inbox'[r]) /\ Next2(r) = Next1(r) + Len(inbox[r])
      BY DEF Next2
    <3>2. Len(inbox'[r]) = Len(inbox[r]) - 1
      BY <1>3, <1>4
    <3>3. (Next1(r) + 1) + (Len(inbox[r]) - 1) = Next1(r) + Len(inbox[r])
      BY <1>2, <1>3
    <3> QED
      BY <2>6, <3>1, <3>2, <3>3
  <2>8. InboxInOrder(r)'
    <3> SUFFICES ASSUME NEW i \in 1 .. Len(inbox'[r]), inbox'[r][i] \notin Markers
                 PROVE  /\ Next1(r) + 1 + i <= Len(published)
                        /\ inbox'[r][i] = Pack(published[Next1(r) + 1 + i])
                        /\ \A j \in 1 .. i : inbox'[r][j] \notin Markers
      BY <1>1, <2>6 DEF InboxInOrder
    <3>1. i + 1 \in 1 .. Len(inbox[r]) /\ inbox'[r][i] = inbox[r][i + 1]
      BY <1>3, <1>4
    <3>2. /\ Next1(r) + (i + 1) <= Len(published)
          /\ inbox[r][i + 1] = Pack(published[Next1(r) + (i + 1)])
          /\ \A j \in 1 .. i + 1 : inbox[r][j] \notin Markers
      BY <1>5, <3>1 DEF InboxInOrder
    <3>3. Next1(r) + (i + 1) = Next1(r) + 1 + i
      BY <1>2
    <3>4. ASSUME NEW j \in 1 .. i
          PROVE  inbox'[r][j] \notin Markers
      <4>1. j \in 1 .. Len(inbox[r]) - 1 /\ j + 1 \in 1 .. i + 1
        BY <1>3, <3>1
      <4>2. inbox'[r][j] = inbox[r][j + 1]
        BY <1>3, <1>4, <4>1
      <4> QED
        BY <3>2, <4>1, <4>2
    <3> QED
      BY <3>1, <3>2, <3>3, <3>4
  <2>9. WireInOrder(r)'
    BY <1>1, <2>7 DEF TransportInv, ReaderInv, WireInOrder
  <2>10. NothingMissing(r)'
    <3> SUFFICES ASSUME r \in registered
                 PROVE  /\ \A i \in 1 .. Len(inbox'[r]) : inbox'[r][i] \notin Markers
                        /\ Next2(r) + Len(wire[r]) = Len(published)
      BY <1>1, <2>7 DEF NothingMissing
    <3>1. /\ \A i \in 1 .. Len(inbox[r]) : inbox[r][i] \notin Markers
          /\ Next2(r) + Len(wire[r]) = Len(published)
      BY DEF TransportInv, ReaderInv, NothingMissing
    <3>2. ASSUME NEW i \in 1 .. Len(inbox'[r])
          PROVE  inbox'[r][i] \notin Markers
      <4>1. i + 1 \in 1 .. Len(inbox[r]) /\ inbox'[r][i] = inbox[r][i + 1]
        BY <1>3, <1>4
      <4> QED
        BY <3>1, <4>1
    <3> QED
      BY <3>1, <3>2
  <2>11. ASSUME NEW q \in Readers, q # r
         PROVE  ReaderInv(q)'
    BY <1>1, <2>1, <2>11, ReaderUntouched DEF TransportInv, Types
  <2> QED
    BY <1>6, <2>4, <2>8, <2>9, <2>10, <2>11 DEF TransportInv, ReaderInv
<1> QED
  BY <1>7, <1>8

\* close(): the end is put in every queue of a local transport.
LEMMA CloseKeeps ==
    ASSUME TransportInv, Close
    PROVE  TransportInv'
<1>1. UNCHANGED <<backend, published, joined, given, pump, wire>>
  BY DEF Close, channel
<1>2. CASE CloseRemote
  BY <1>1, <1>2, NothingReadKeeps DEF CloseRemote
<1>3. CASE CloseLocal
  <2>1. /\ local /\ registered' = {}
        /\ inbox' = [r \in Readers |-> IF r \in registered THEN Append(inbox[r], END) ELSE inbox[r]]
    BY <1>3 DEF CloseLocal
  <2>2. ASSUME NEW r \in Readers
        PROVE  inbox'[r] \in Seq(Raw \cup Markers)
    <3>1. inbox[r] \in Seq(Raw \cup Markers) /\ END \in Markers
      BY DEF TransportInv, Types, Markers
    <3> QED
      BY <2>1, <3>1
  <2>3. Types'
    BY <1>1, <2>1, <2>2 DEF TransportInv, Types
  <2>4. ASSUME NEW r \in Readers
        PROVE  ReaderInv(r)'
    <3>1. Untouched(r)' /\ PumpMatches(r)' /\ WireInOrder(r)' /\ NothingMissing(r)'
      BY <1>1, <2>1
         DEF TransportInv, ReaderInv, Untouched, PumpMatches, WireInOrder, NothingMissing,
             local, remote
    <3>2. InboxInOrder(r)'
      <4>1. CASE r \in registered
        <5>1. inbox'[r] = inbox[r] \o <<END>>
          <6>1. inbox[r] \in Seq(Raw \cup Markers) /\ END \in Raw \cup Markers
            BY DEF TransportInv, Types, Markers
          <6>2. Append(inbox[r], END) = inbox[r] \o <<END>>
            BY <6>1
          <6> QED
            BY <2>1, <4>1, <6>2
        <5>2. <<END>> \in Seq(Markers)
          BY DEF Markers
        <5> QED
          BY <1>1, <5>1, <5>2, MarkersAppended
      <4>2. CASE r \notin registered
        BY <1>1, <2>1, <4>2 DEF TransportInv, ReaderInv, InboxInOrder, Next1
      <4> QED
        BY <4>1, <4>2
    <3> QED
      BY <3>1, <3>2 DEF ReaderInv
  <2> QED
    BY <2>3, <2>4 DEF TransportInv
<1> QED
  BY <1>2, <1>3 DEF Close

\* No message, no reader: the invariant holds.
LEMMA TransportInvInit ==
    TransportInit => TransportInv
<1> SUFFICES ASSUME TransportInit
             PROVE  TransportInv
  OBVIOUS
<1>1. Types
  <2>1. <<>> \in Seq(Envelopes) /\ <<>> \in Seq(Raw) /\ <<>> \in Seq(Raw \cup Markers)
        /\ <<>> \in Seq(Envelopes \cup {Unsupported}) /\ "none" \in PumpPoints
    BY DEF PumpPoints
  <2> QED
    BY <2>1 DEF TransportInit, Types
<1>2. ASSUME NEW r \in Readers
      PROVE  ReaderInv(r)
  <2>1. /\ registered = {} /\ pump[r] = "none" /\ given[r] = <<>>
        /\ wire[r] = <<>> /\ inbox[r] = <<>>
    BY DEF TransportInit
  <2> QED
    BY <2>1
       DEF ReaderInv, Untouched, PumpMatches, InboxInOrder, WireInOrder, NothingMissing,
           local, remote
<1> QED
  BY <1>1, <1>2 DEF TransportInv

\* Every step of a transport keeps the invariant.
LEMMA TransportInvNext ==
    TransportInv /\ [TransportNext]_transportVars => TransportInv'
<1> SUFFICES ASSUME TransportInv, [TransportNext]_transportVars
             PROVE  TransportInv'
  OBVIOUS
<1>1. ASSUME NEW e \in Envelopes, Publish(e)
      PROVE  TransportInv'
  BY <1>1, PublishKeeps
<1>2. ASSUME NEW r \in Readers, Subscribe(r)
      PROVE  TransportInv'
  BY <1>2, SubscribeKeeps
<1>3. ASSUME NEW r \in Readers, PumpSubscribes(r)
      PROVE  TransportInv'
  BY <1>3, PumpSubscribesKeeps
<1>4. ASSUME NEW r \in Readers, PumpReads(r)
      PROVE  TransportInv'
  BY <1>4, PumpReadsKeeps
<1>5. ASSUME NEW r \in Readers, PumpFails(r)
      PROVE  TransportInv'
  BY <1>5, PumpFailsKeeps
<1>6. ASSUME NEW r \in Readers, Aclose(r)
      PROVE  TransportInv'
  BY <1>6, AcloseKeeps
<1>7. ASSUME NEW r \in Readers, CallNext(r)
      PROVE  TransportInv'
  BY <1>7, NothingReadKeeps DEF CallNext, channel
<1>8. ASSUME NEW r \in Readers, NextReturns(r)
      PROVE  TransportInv'
  BY <1>8, NextReturnsKeeps
<1>9. CASE Close
  BY <1>9, CloseKeeps
<1>10. ASSUME NEW h \in Holders, LeaseStep(h)
       PROVE  TransportInv'
  BY <1>10, NothingReadKeeps DEF LeaseStep, Lease, RenewLease, ReleaseLease, channel, readers
<1>11. CASE TimePasses
  BY <1>11, NothingReadKeeps DEF TimePasses, channel, readers
<1>12. CASE UNCHANGED transportVars
  BY <1>12, NothingReadKeeps DEF transportVars
<1> QED
  BY <1>1, <1>2, <1>3, <1>4, <1>5, <1>6, <1>7, <1>8, <1>9, <1>10, <1>11, <1>12
     DEF TransportNext, ReaderStep, CloseGoesOn

\* What readers find in their inboxes and on the wire is what was published, in
\* order, from where they joined; with any pumps failing and anybody closing.
THEOREM MessagesInPlace == TransportSpec => []TransportInv
<1>1. TransportInit => TransportInv
  BY TransportInvInit
<1>2. TransportInv /\ [TransportNext]_transportVars => TransportInv'
  BY TransportInvNext
<1> QED
  BY <1>1, <1>2, PTL DEF TransportSpec
-----------------------------------------------------------------------------
(* Channel is implemented.                                                 *)

\* The log of Channel, as ImplementsChannel instantiates it.
Log == [i \in DOMAIN published |-> AsRead(published[i])]

\* The log is as long as what was published.
LEMMA LogIsSequence ==
    ASSUME TransportInv
    PROVE  /\ Log \in Seq(Envelopes \cup {Unsupported}) /\ Len(Log) = Len(published)
           /\ \A i \in 1 .. Len(published) : Log[i] = AsRead(published[i])
<1>1. published \in Seq(Envelopes) /\ DOMAIN published = 1 .. Len(published) /\ Len(published) \in Nat
  BY DEF TransportInv, Types
<1>2. ASSUME NEW i \in 1 .. Len(published)
      PROVE  AsRead(published[i]) \in Envelopes \cup {Unsupported}
  BY <1>1, UnpackAfterPack
<1>3. Log = [i \in 1 .. Len(published) |-> AsRead(published[i])]
  BY <1>1 DEF Log
<1>4. Log \in Seq(Envelopes \cup {Unsupported})
  BY <1>1, <1>2, <1>3
<1>5. Len(Log) = Len(published)
  BY <1>1, <1>3
<1> QED
  BY <1>3, <1>4, <1>5

\* publish() appends what a reader will make of the envelope.
LEMMA PublishAppends ==
    ASSUME TransportInv, TransportInv', NEW e \in Envelopes, published' = Append(published, e)
    PROVE  Log' = Append(Log, AsRead(e))
<1>1. /\ published \in Seq(Envelopes) /\ Len(published) \in Nat
      /\ Len(published') = Len(published) + 1
      /\ \A i \in 1 .. Len(published) : published'[i] = published[i]
      /\ published'[Len(published) + 1] = e
  BY DEF TransportInv, Types
<1>2. /\ Log \in Seq(Envelopes \cup {Unsupported}) /\ Len(Log) = Len(published)
      /\ \A i \in 1 .. Len(published) : Log[i] = AsRead(published[i])
  BY LogIsSequence
<1>3. /\ Log' \in Seq(Envelopes \cup {Unsupported}) /\ Len(Log') = Len(published')
      /\ \A i \in 1 .. Len(published') : Log'[i] = AsRead(published'[i])
  <2>1. DOMAIN published' = 1 .. Len(published')
    BY DEF TransportInv, Types
  <2>2. \A i \in 1 .. Len(published') : AsRead(published'[i]) \in Envelopes \cup {Unsupported}
    <3>1. published' \in Seq(Envelopes)
      BY DEF TransportInv, Types
    <3> QED
      BY <3>1, UnpackAfterPack
  <2>3. Log' = [i \in 1 .. Len(published') |-> AsRead(published'[i])]
    BY <2>1 DEF Log
  <2>4. Len(published') \in Nat
    BY <1>1
  <2> QED
    BY <2>2, <2>3, <2>4
<1>4. AsRead(e) \in Envelopes \cup {Unsupported}
  BY UnpackAfterPack
<1>5. /\ Append(Log, AsRead(e)) \in Seq(Envelopes \cup {Unsupported})
      /\ Len(Append(Log, AsRead(e))) = Len(Log) + 1
      /\ \A i \in 1 .. Len(Log) : Append(Log, AsRead(e))[i] = Log[i]
      /\ Append(Log, AsRead(e))[Len(Log) + 1] = AsRead(e)
  BY <1>2, <1>4
<1>6. ASSUME NEW i \in 1 .. Len(Log')
      PROVE  Log'[i] = Append(Log, AsRead(e))[i]
  <2>1. CASE i \in 1 .. Len(published)
    BY <1>1, <1>2, <1>3, <1>5, <2>1
  <2>2. CASE i = Len(published) + 1
    BY <1>1, <1>2, <1>3, <1>5, <2>2
  <2>3. Len(published) \in Nat /\ i \in 1 .. Len(published) + 1
    <3>1. Len(Log') = Len(published) + 1
      BY <1>1, <1>3
    <3> QED
      BY <1>1, <3>1
  <2>4. i \in 1 .. Len(published) \/ i = Len(published) + 1
    BY <2>3
  <2> QED
    BY <2>1, <2>2, <2>4
<1> QED
  BY <1>1, <1>2, <1>3, <1>5, <1>6, SeqEqual

\* A reader that joins was given nothing.
LEMMA JoinIsJoin ==
    ASSUME TransportInv, NEW r \in Readers, pump[r] \in {"none", "starting"},
           joined' = [joined EXCEPT ![r] = Len(published)],
           UNCHANGED <<published, given>>
    PROVE  Promise!Join(r)
<1>1. given[r] = <<>>
  BY DEF TransportInv, ReaderInv, Untouched
<1>2. Len(Log) = Len(published)
  BY LogIsSequence
<1> QED
  BY <1>1, <1>2 DEF Promise!Join, Log

\* A message that __anext__ returns is the next of the log.
LEMMA ReturnIsGive ==
    ASSUME TransportInv, NEW r \in Readers, NextReturns(r), given' # given
    PROVE  Promise!Give(r)
<1> DEFINE m == Head(inbox[r])
<1>1. /\ inbox[r] # <<>> /\ m \notin Markers
      /\ given' = [given EXCEPT ![r] = Append(@, Unpack(m))]
      /\ UNCHANGED <<published, joined>>
  BY DEF NextReturns, Markers
<1>2. /\ Next1(r) + 1 <= Len(published) /\ published[Next1(r) + 1] \in Envelopes
      /\ m = Pack(published[Next1(r) + 1])
  BY <1>1, FirstInInbox
<1>3. Next1(r) \in Nat /\ Len(published) \in Nat /\ Next1(r) = joined[r] + Len(given[r])
  BY DEF Next1, TransportInv, Types
<1>4. Unpack(m) = AsRead(published[Next1(r) + 1])
  BY <1>2, UnpackAfterPack
<1>5. Next1(r) + 1 \in 1 .. Len(published) /\ Next1(r) < Len(published)
  BY <1>2, <1>3
<1>6. Log[Next1(r) + 1] = Unpack(m) /\ Len(Log) = Len(published)
  BY <1>4, <1>5, LogIsSequence
<1>7. joined[r] + Len(given[r]) < Len(Log)
  BY <1>3, <1>5, <1>6
<1>8. given' = [given EXCEPT ![r] = Append(@, Log[joined[r] + Len(@) + 1])]
  BY <1>1, <1>3, <1>6
<1>9. Log' = Log
  BY <1>1 DEF Log
<1> QED
  BY <1>1, <1>7, <1>8, <1>9 DEF Promise!Give, Log

\* Every step of a transport is one of the channel, or a stutter.
LEMMA StepsImplementChannel ==
    TransportInv /\ TransportInv' /\ [TransportNext]_transportVars
      => [Promise!ChannelNext]_<<Log, joined, given>>
<1> SUFFICES ASSUME TransportInv, TransportInv', [TransportNext]_transportVars
             PROVE  Promise!ChannelNext \/ UNCHANGED <<Log, joined, given>>
  OBVIOUS
<1>1. ASSUME UNCHANGED <<published, joined, given>>
      PROVE  UNCHANGED <<Log, joined, given>>
  BY <1>1 DEF Log
<1>2. ASSUME NEW e \in Envelopes, Publish(e)
      PROVE  Promise!ChannelNext
  <2>1. Log' = Append(Log, AsRead(e)) /\ UNCHANGED <<joined, given>>
    BY <1>2, PublishAppends DEF Publish
  <2>2. AsRead(e) \in Envelopes \cup {Unsupported}
    BY UnpackAfterPack
  <2>3. Promise!Append1(AsRead(e))
    BY <2>1 DEF Promise!Append1, Log
  <2> QED
    BY <2>2, <2>3 DEF Promise!ChannelNext
<1>3. ASSUME NEW r \in Readers, Subscribe(r)
      PROVE  Promise!ChannelNext \/ UNCHANGED <<Log, joined, given>>
  <2>1. CASE SubscribeLocal(r)
    <3>1. Promise!Join(r)
      BY <1>3, <2>1, JoinIsJoin DEF Subscribe, Subscribed, SubscribeLocal
    <3> QED
      BY <3>1 DEF Promise!ChannelNext
  <2>2. CASE SubscribeRemote(r)
    BY <1>1, <1>3, <2>2 DEF Subscribe, SubscribeRemote
  <2> QED
    BY <1>3, <2>1, <2>2 DEF Subscribe
<1>4. ASSUME NEW r \in Readers, PumpSubscribes(r)
      PROVE  Promise!ChannelNext
  <2>1. Promise!Join(r)
    BY <1>4, JoinIsJoin DEF PumpSubscribes
  <2> QED
    BY <2>1 DEF Promise!ChannelNext
<1>5. ASSUME NEW r \in Readers, NextReturns(r)
      PROVE  Promise!ChannelNext \/ UNCHANGED <<Log, joined, given>>
  <2>1. CASE given' = given
    BY <1>1, <1>5, <2>1 DEF NextReturns
  <2>2. CASE given' # given
    <3>1. Promise!Give(r)
      BY <1>5, <2>2, ReturnIsGive
    <3> QED
      BY <3>1 DEF Promise!ChannelNext
  <2> QED
    BY <2>1, <2>2
<1>6. ASSUME NEW r \in Readers, PumpReads(r) \/ PumpFails(r) \/ CallNext(r) \/ Aclose(r)
      PROVE  UNCHANGED <<Log, joined, given>>
  BY <1>1, <1>6 DEF PumpReads, PumpFails, CallNext, Aclose, channel
<1>7. ASSUME NEW h \in Holders, LeaseStep(h)
      PROVE  UNCHANGED <<Log, joined, given>>
  BY <1>1, <1>7 DEF LeaseStep, Lease, RenewLease, ReleaseLease, channel
<1>8. CASE Close \/ TimePasses \/ UNCHANGED transportVars
  BY <1>1, <1>8 DEF Close, TimePasses, channel, transportVars
<1> QED
  BY <1>2, <1>3, <1>4, <1>5, <1>6, <1>7, <1>8 DEF TransportNext, ReaderStep, CloseGoesOn

\* Both transports implement the channel that MissionTransport promises
\* (transports/base.py): in order, once, without a gap, for any number of readers.
THEOREM TransportImplementsChannel == TransportSpec => ImplementsChannel
<1>1. TransportInit => Promise!ChannelInit
  <2> SUFFICES ASSUME TransportInit
               PROVE  Promise!ChannelInit
    OBVIOUS
  <2>1. published = <<>> /\ DOMAIN published = {}
    BY DEF TransportInit
  <2>2. [i \in DOMAIN published |-> AsRead(published[i])] = <<>>
    BY <2>1
  <2> QED
    BY <2>2 DEF TransportInit, Promise!ChannelInit
<1>2. TransportSpec => []TransportInv
  BY MessagesInPlace
<1>3. TransportInv /\ TransportInv' /\ [TransportNext]_transportVars
        => [Promise!ChannelNext]_<<[i \in DOMAIN published |-> AsRead(published[i])], joined, given>>
  BY StepsImplementChannel DEF Log
<1> QED
  BY <1>1, <1>2, <1>3, PTL DEF TransportSpec, ImplementsChannel, Promise!ChannelSpec
=============================================================================

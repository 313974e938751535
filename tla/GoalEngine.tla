----------------------------- MODULE GoalEngine -----------------------------
(***************************************************************************)
(* ReasoningExecutionEngine: goals that run side by side over one cost     *)
(* governor. execute_goal() plans, runs its waves, reflects on a failed    *)
(* wave and repairs the plan; execute_goal_new() plans by itself and runs  *)
(* its waves without reflection, and there the planner and every task of a *)
(* wave ask the model over the same governor (tool_selector.py, LlmRuntime *)
(* and dispatcher.py).                                                     *)
(*                                                                         *)
(* Costs are counted in units of the estimate of one call; a call may cost *)
(* up to MaxCallCost of them. What a wave does is ToolWaves' matter: here  *)
(* it ends in any way.                                                     *)
(***************************************************************************)
EXTENDS Integers, FiniteSets

CONSTANTS
    Goals,
    PlanWaves,        \* waves in a plan
    DailyBudget,      \* daily_budget of the governor
    SessionBudget,    \* budget of one goal
    MaxCallCost,
    GoalTasks,        \* tasks of a wave, which run in asyncio.gather()
    MaxAsked          \* bound: calls to the model while a new path plans, or in a wave

ASSUME GoalEngineAssumption ==
    /\ PlanWaves \in Nat \ {0} /\ DailyBudget \in Nat /\ SessionBudget \in Nat
    /\ MaxCallCost \in Nat \ {0} /\ GoalTasks \in Nat \ {0} /\ MaxAsked \in Nat

VARIABLES
    path,        \* which method runs the goal
    phase,       \* where it is
    current,     \* wave_idx + 1
    lastResult,  \* how the last run of each wave ended
    runs,        \* how often each wave ran
    reflections, \* session.reflection_count
    version,     \* plan_version
    keys,        \* the plan version in which each wave got its idempotency keys
    sessionCost, \* session.total_cost
    spent,       \* spending the governor knows of, the same for all goals
    failure,     \* failure_type of a failed goal
    calls,       \* new path: calls to the model that passed the check and are not over
    asked        \* calls since the plan or the wave began

asking == <<calls, asked>>
goalVars == <<path, phase, current, lastResult, runs, reflections, version, keys, sessionCost, spent, failure, asking>>

MAXREFLECTIONS == 3
GoalEnded(g) == phase[g] \in {"COMPLETED", "FAILED"}

GoalInit ==
    /\ path \in [Goals -> {"old", "new"}]
    /\ phase = [g \in Goals |-> "idle"]
    /\ current = [g \in Goals |-> 1]
    /\ lastResult = [g \in Goals |-> [w \in 1 .. PlanWaves |-> "none"]]
    /\ runs = [g \in Goals |-> [w \in 1 .. PlanWaves |-> 0]]
    /\ reflections = [g \in Goals |-> 0]
    /\ version = [g \in Goals |-> 0]
    /\ keys = [g \in Goals |-> [w \in 1 .. PlanWaves |-> 0]]
    /\ sessionCost = [g \in Goals |-> 0]
    /\ spent = 0
    /\ failure = [g \in Goals |-> "none"]
    /\ calls = [g \in Goals |-> 0] /\ asked = [g \in Goals |-> 0]
-----------------------------------------------------------------------------
\* check_budget_limits(): the spending is compared, nothing is set aside.
WithinBudget(cost, now) == now + cost <= DailyBudget

\* abort_execution().
Abort(g, why) ==
    /\ phase' = [phase EXCEPT ![g] = "FAILED"]
    /\ failure' = [failure EXCEPT ![g] = why]

\* Behind the loop.
Complete(g) == phase' = [phase EXCEPT ![g] = "COMPLETED"] /\ UNCHANGED <<failure, runs>>

\* The head of the loop over the waves: budget checkpoint 2, or the end.
EnterWave(g, w, now) ==
    /\ current' = [current EXCEPT ![g] = w]
    /\ IF w > PlanWaves
         THEN Complete(g)
         ELSE IF WithinBudget(0, now)
                THEN /\ phase' = [phase EXCEPT ![g] = "EXECUTING"]
                     /\ runs' = [runs EXCEPT ![g][w] = @ + 1] /\ UNCHANGED failure
                ELSE Abort(g, "BudgetFailure") /\ UNCHANGED runs

\* generate_initial_plan() and repair_plan() up to the provider: route, estimate
\* and check the estimate.
BeginCall(g, waiting) ==
    IF WithinBudget(1, spent)
      THEN phase' = [phase EXCEPT ![g] = waiting] /\ UNCHANGED failure
      ELSE Abort(g, "PlannerFailure")

\* Checkpoint 1, then planning.
StartGoal(g) ==
    /\ phase[g] = "idle" /\ path[g] = "old"
    /\ IF ~WithinBudget(0, spent) THEN Abort(g, "BudgetFailure")
       ELSE BeginCall(g, "PLANNING")
    /\ UNCHANGED <<path, current, lastResult, runs, reflections, version, keys, sessionCost, spent, asking>>

\* execute_goal_new() recalls memories and analyses the goal, whatever fails
\* there, and checks the budget once.
StartGoalNew(g) ==
    /\ phase[g] = "idle" /\ path[g] = "new"
    /\ IF WithinBudget(0, spent)
         THEN phase' = [phase EXCEPT ![g] = "PLANNING"] /\ UNCHANGED failure
         ELSE Abort(g, "BudgetFailure")
    /\ UNCHANGED <<path, current, lastResult, runs, reflections, version, keys, sessionCost, spent, asking>>

\* log_usage(): the governor learns of a call when it is over.
LogUsage(g, c) ==
    /\ spent' = spent + c
    /\ sessionCost' = [sessionCost EXCEPT ![g] = @ + c]

\* A plan: the waves that already ran are taken over as they are, whatever their
\* result, the others get new tasks and new keys. The version manager's numbers
\* are the plan's own.
CreateVersion(g, v) ==
    /\ version' = [version EXCEPT ![g] = v]
    /\ keys' = [keys EXCEPT ![g] = [w \in 1 .. PlanWaves |-> IF lastResult[g][w] = "none" THEN v ELSE @[w]]]

\* There is no plan: the planning call failed, or its answer is invalid.
PlanFails(g) ==
    /\ Abort(g, "PlannerFailure")
    /\ UNCHANGED <<path, current, lastResult, runs, reflections, version, keys, sessionCost, spent>>

\* The model answered: usage is logged, the version registered, the loop entered.
PlanReturns(g) ==
    /\ phase[g] = "PLANNING" /\ path[g] = "old"
    /\ \/ \E c \in 0 .. MaxCallCost :
             /\ LogUsage(g, c) /\ CreateVersion(g, 1)
             /\ EnterWave(g, 1, spent') /\ UNCHANGED <<path, lastResult, reflections>>
       \/ PlanFails(g)
    /\ UNCHANGED asking

\* Who may ask the model on the new path: the planner, which decomposes the goal
\* and then selects a tool for each task; the tasks of the wave; those that
\* asyncio.gather() leaves running when one of them raises.
Asking(g) ==
    CASE phase[g] = "PLANNING" -> 1
      [] phase[g] = "EXECUTING" -> GoalTasks
      [] lastResult[g][current[g]] = "RAISED" -> GoalTasks - 1
      [] OTHER -> 0

\* LlmRuntime.generate() up to the provider; a call that does not pass the check
\* is answered with BUDGET_EXCEEDED, and its caller goes on without.
AskModel(g) ==
    /\ path[g] = "new" /\ current[g] <= PlanWaves
    /\ calls[g] < Asking(g) /\ asked[g] < MaxAsked
    /\ WithinBudget(1, spent)
    /\ calls' = [calls EXCEPT ![g] = @ + 1] /\ asked' = [asked EXCEPT ![g] = @ + 1]
    /\ UNCHANGED <<path, phase, current, lastResult, runs, reflections, version, keys, sessionCost, spent, failure>>

\* The provider answers, and generate() logs the usage, not in the session; or it
\* fails (0).
ModelAnswers(g) ==
    /\ calls[g] > 0
    /\ calls' = [calls EXCEPT ![g] = @ - 1]
    /\ \E c \in 0 .. MaxCallCost : spent' = spent + c
    /\ UNCHANGED <<path, phase, current, lastResult, runs, reflections, version, keys, sessionCost, failure, asked>>

\* A valid graph and plan, or the end of the goal.
NewPlanReturns(g) ==
    /\ phase[g] = "PLANNING" /\ path[g] = "new" /\ calls[g] = 0
    /\ \/ CreateVersion(g, 1) /\ EnterWave(g, 1, spent)
          /\ UNCHANGED <<path, lastResult, reflections, sessionCost, spent>>
       \/ PlanFails(g)
    /\ asked' = [asked EXCEPT ![g] = 0] /\ UNCHANGED calls

\* RETRY: checkpoints 4 and 5, then repair_plan() up to its call of the provider.
BeginRepair(g) ==
    /\ IF ~WithinBudget(0, spent) THEN Abort(g, "BudgetFailure")
       ELSE BeginCall(g, "REPAIRING")
    /\ UNCHANGED <<current, runs>>

\* Mutant: reflection never gives up.
ReflectForever(g) ==
    /\ reflections' = [reflections EXCEPT ![g] = @ + 1]
    /\ BeginRepair(g)

\* reflect_and_correct() with base confidence 0.60, 0.15 more per reflection and
\* target 0.90: the first failure of a goal is retried, the second counts as
\* resolved, the third ends the goal.
Reflect(g) ==
    LET count == reflections[g] + 1
    IN IF sessionCost[g] >= SessionBudget
         THEN Abort(g, "ReflectionFailure") /\ UNCHANGED <<reflections, current, runs>>
         ELSE /\ reflections' = [reflections EXCEPT ![g] = count]
              /\ \/ count >= MAXREFLECTIONS /\ Abort(g, "ReflectionFailure") /\ UNCHANGED <<current, runs>>
                 \/ count = 2 /\ EnterWave(g, current[g] + 1, spent)
                 \/ count = 1 /\ BeginRepair(g)

\* Checkpoint 3 comes before reflection.
FailedWave(g) ==
    IF WithinBudget(0, spent)
      THEN Reflect(g)
      ELSE Abort(g, "BudgetFailure") /\ UNCHANGED <<reflections, current, runs>>

\* execute_wave() returned or raised.
WaveReturnsWith(g, res) ==
    /\ phase[g] = "EXECUTING" /\ path[g] = "old"
    /\ lastResult' = [lastResult EXCEPT ![g][current[g]] = res]
    /\ CASE res = "RAISED" -> Abort(g, "ToolFailure") /\ UNCHANGED <<current, runs, reflections>>
         [] res = "SUCCESS" -> EnterWave(g, current[g] + 1, spent) /\ UNCHANGED reflections
         [] OTHER -> FailedWave(g)
    /\ UNCHANGED <<path, version, keys, sessionCost, spent, asking>>

\* execute_task_step_new(): a task is dispatched up to three times, until it succeeds.
StepSucceeds(answers) == \E i \in DOMAIN answers : answers[i]

\* execute_wave_new() adds up how its tasks ended.
NewWaveStatus(succeeded) ==
    IF FALSE \notin succeeded THEN "SUCCESS"
    ELSE IF TRUE \in succeeded THEN "PARTIAL_FAILURE" ELSE "FAILURE"
NewWaveResults ==
    {"RAISED"} \cup
    {NewWaveStatus({StepSucceeds(answers) : answers \in tasks}) : tasks \in SUBSET [1 .. 3 -> BOOLEAN]}

\* execute_wave_new() returned or raised: no reflection, and a partial failure
\* does not stop the goal. It returns when all tasks are over, it raises as soon
\* as one of them does. What tasks cost is in the session's report only.
NewWaveReturnsWith(g, res) ==
    /\ phase[g] = "EXECUTING" /\ path[g] = "new"
    /\ calls[g] = 0 \/ (res = "RAISED" /\ calls[g] < GoalTasks)
    /\ lastResult' = [lastResult EXCEPT ![g][current[g]] = res]
    /\ IF res \in {"RAISED", "FAILURE"}
         THEN Abort(g, "ToolFailure") /\ UNCHANGED <<current, runs, asked>>
         ELSE EnterWave(g, current[g] + 1, spent) /\ asked' = [asked EXCEPT ![g] = 0]
    /\ UNCHANGED <<path, reflections, version, keys, sessionCost, spent, calls>>

\* repair_plan(): the wave that failed is not rebuilt, as its status is neither
\* PENDING nor RUNNING any more; it runs again with the tasks and keys it had.
Repaired(g) ==
    \E c \in 0 .. MaxCallCost :
        /\ LogUsage(g, c) /\ CreateVersion(g, version[g] + 1)
        /\ EnterWave(g, current[g], spent') /\ UNCHANGED <<path, lastResult, reflections>>

RepairReturns(g) ==
    /\ phase[g] = "REPAIRING"
    /\ (Repaired(g) \/ PlanFails(g))
    /\ UNCHANGED asking

GoalStep(g) ==
    \/ StartGoal(g) \/ StartGoalNew(g) \/ PlanReturns(g) \/ NewPlanReturns(g) \/ RepairReturns(g)
    \/ AskModel(g) \/ ModelAnswers(g)
    \/ \E res \in {"SUCCESS", "PARTIAL_FAILURE", "FAILURE", "RAISED"} : WaveReturnsWith(g, res)
    \/ \E res \in NewWaveResults : NewWaveReturnsWith(g, res)

GoalNext == \E g \in Goals : GoalStep(g)

\* Providers and tools answer or time out.
GoalFairness == \A g \in Goals : WF_goalVars(phase[g] # "idle" /\ GoalStep(g))
-----------------------------------------------------------------------------
(* Properties.                                                             *)

GoalTypeOK ==
    /\ phase \in [Goals -> {"idle", "PLANNING", "EXECUTING", "REPAIRING", "COMPLETED", "FAILED"}]
    /\ current \in [Goals -> 1 .. PlanWaves + 1]
    /\ spent \in Nat /\ calls \in [Goals -> 0 .. GoalTasks] /\ asked \in [Goals -> 0 .. MaxAsked]

Behind(g) == {w \in 1 .. PlanWaves : w < current[g]}

\* Of the waves before the current one, on the old path all but one succeeded (the
\* one that reflection let pass), on the new path none failed as a whole; no later
\* wave was run, and a goal is completed only behind its last wave.
WavesInOrder ==
    \A g \in Goals :
        /\ path[g] = "old" => Cardinality({w \in Behind(g) : lastResult[g][w] # "SUCCESS"}) <= 1
        /\ path[g] = "new" => \A w \in Behind(g) : lastResult[g][w] \in {"SUCCESS", "PARTIAL_FAILURE"}
        /\ \A w \in 1 .. PlanWaves : w > current[g] => runs[g][w] = 0
        /\ phase[g] = "COMPLETED" => current[g] = PlanWaves + 1

\* Repairs end: no goal reflects more than three times, has more than two plans
\* or runs a wave more than twice.
RepairsAreBounded ==
    \A g \in Goals :
        /\ reflections[g] <= MAXREFLECTIONS /\ version[g] <= 2
        /\ \A w \in 1 .. PlanWaves : runs[g][w] <= 2

On(p) == Cardinality({g \in Goals : path[g] = p})

\* The checks of calls that are under way together do not see each other: the
\* budget is passed by at most one call of a goal on the old path, and of every
\* task of a wave on the new one, whose tasks ask the model side by side.
OverspendIsBounded ==
    spent <= DailyBudget + (On("old") + On("new") * GoalTasks) * MaxCallCost

\* A wave that runs again finds the results of its tasks that succeeded: its
\* idempotency keys are the ones of its first run.
KeysAreKept ==
    [][\A g \in Goals, w \in 1 .. PlanWaves : runs[g][w] > 0 => keys'[g][w] = keys[g][w]]_goalVars

\* Every goal that was started is completed or fails, within its retries.
GoalsEnd == \A g \in Goals : phase[g] = "PLANNING" ~> GoalEnded(g)

\* The reasoning engine.
GoalsSafe ==
    /\ [](GoalTypeOK /\ WavesInOrder /\ RepairsAreBounded /\ OverspendIsBounded)
    /\ KeysAreKept /\ GoalsEnd
=============================================================================

----------------------------- MODULE ToolWaves -----------------------------
(***************************************************************************)
(* A wave of tool calls: WaveExecutor runs the tasks of a wave as asyncio  *)
(* tasks that wait for each other through events, bounded by a semaphore   *)
(* and wrapped by RetryManager; ExecutionOrchestrator checks idempotency   *)
(* keys and human approvals, starts the tool and cancels tasks.            *)
(*                                                                         *)
(* An event is set exactly when the result of its task is stored. Tools    *)
(* end in any way: the sandbox, its timeout and the human are arbitrary.   *)
(***************************************************************************)
EXTENDS Naturals, FiniteSets

CONSTANTS
    WaveTasks,      \* the tasks of the wave
    Missing,        \* an id that is not in the wave
    SameKey,        \* tasks that share one idempotency key and one tool
    Guarded,        \* tasks whose tool has an L2 or L3 permission
    Slots,          \* concurrency_limit
    MaxToolRetries  \* max_retries of the tasks' RetryPolicy

ASSUME ToolWavesAssumption ==
    /\ SameKey \subseteq WaveTasks /\ Guarded \subseteq WaveTasks /\ Missing \notin WaveTasks
    /\ IsFiniteSet(WaveTasks) /\ Slots \in Nat \ {0} /\ MaxToolRetries \in Nat

VARIABLES
    waits,      \* dependencies of each task
    stage,      \* where its coroutine is
    result,     \* task_results; "none" also means that its event is not set
    attempt,    \* retries so far
    processed,  \* processed_idempotency_keys
    granted,    \* granted_permissions, by tool
    ran,        \* tasks whose tool was started
    logged,     \* total_runs and retry_runs of the metrics collector
    wave        \* status of the wave

toolVars == <<waits, stage, result, attempt, processed, granted, ran, logged, wave>>

Key(t) == IF t \in SameKey THEN Missing ELSE t
Outcomes == {"SUCCESS", "FAILURE", "TIMEOUT", "ERROR", "CANCELLED"}

ToolInit ==
    /\ waits \in [WaveTasks -> SUBSET (WaveTasks \cup {Missing})]
    /\ stage = [t \in WaveTasks |-> "new"]
    /\ result = [t \in WaveTasks |-> "none"]
    /\ attempt = [t \in WaveTasks |-> 0]
    /\ processed = {} /\ granted = {} /\ ran = {}
    /\ logged = [runs |-> 0, retries |-> 0]
    /\ wave = "PENDING"
-----------------------------------------------------------------------------
(* execute_wave().                                                         *)

\* resolve_execution_layers(): whatever is resolved so far, some other task has
\* all its dependencies among it, until none is left.
IsValid ==
    \A done \in SUBSET WaveTasks : done # WaveTasks =>
        \E t \in WaveTasks \ done : waits[t] \subseteq done

\* The dependencies are checked and all tasks created and registered; with a
\* cycle or a missing task the wave fails at once.
ExecuteWave ==
    /\ wave = "PENDING"
    /\ IF IsValid
         THEN wave' = "RUNNING" /\ stage' = [t \in WaveTasks |-> "waiting"]
         ELSE wave' = "FAILURE" /\ UNCHANGED stage
    /\ UNCHANGED <<waits, result, attempt, processed, granted, ran, logged>>

\* Mutant: a dependency that failed is not noticed.
WaitsForSuccess(t) ==
    /\ stage[t] = "waiting" /\ \A d \in waits[t] : result[d] = "SUCCESS"
    /\ stage' = [stage EXCEPT ![t] = "queued"]
    /\ UNCHANGED <<waits, result, attempt, processed, granted, ran, logged, wave>>

\* All events the task waits for are set: it fails if a dependency did not
\* succeed, else it goes to the semaphore.
DependenciesEnd(t) ==
    /\ stage[t] = "waiting" /\ \A d \in waits[t] : result[d] # "none"
    /\ IF \A d \in waits[t] : result[d] = "SUCCESS"
         THEN stage' = [stage EXCEPT ![t] = "queued"] /\ UNCHANGED result
         ELSE stage' = [stage EXCEPT ![t] = "done"] /\ result' = [result EXCEPT ![t] = "FAILURE"]
    /\ UNCHANGED <<waits, attempt, processed, granted, ran, logged, wave>>

Inside == {t \in WaveTasks : stage[t] \in {"approval", "running", "backoff"}}

\* The result is stored, logged and announced; the semaphore is released.
Conclude(t, res) ==
    /\ stage' = [stage EXCEPT ![t] = "done"]
    /\ result' = [result EXCEPT ![t] = res]
    /\ logged' = [logged EXCEPT !.runs = @ + 1]

\* aggregate_results(): tasks without a result do not count.
Aggregated ==
    LET bad == {t \in WaveTasks : result[t] \notin {"none", "SUCCESS"}}
        good == {t \in WaveTasks : result[t] = "SUCCESS"}
    IN IF bad = {} THEN "SUCCESS" ELSE IF good = {} THEN "FAILURE" ELSE "PARTIAL_FAILURE"

\* gather() returns when every task is over.
WaveReturns ==
    /\ wave = "RUNNING" /\ \A t \in WaveTasks : stage[t] \in {"done", "gone"}
    /\ wave' = Aggregated
    /\ UNCHANGED <<waits, stage, result, attempt, processed, granted, ran, logged>>
-----------------------------------------------------------------------------
(* One attempt: execute_task_step_internal() under execute_with_retry().   *)

\* Mutant: the key is not looked up.
AttemptWithoutKey(t) ==
    /\ IF t \in Guarded /\ Key(t) \notin granted
         THEN stage' = [stage EXCEPT ![t] = "approval"] /\ UNCHANGED ran
         ELSE stage' = [stage EXCEPT ![t] = "running"] /\ ran' = ran \cup {t}
    /\ UNCHANGED <<result, logged>>

\* A processed key answers from the cache; a guarded tool needs approval first.
Attempt(t) ==
    IF Key(t) \in processed
      THEN Conclude(t, "SUCCESS") /\ UNCHANGED ran
      ELSE /\ IF t \in Guarded /\ Key(t) \notin granted
                THEN stage' = [stage EXCEPT ![t] = "approval"] /\ UNCHANGED ran
                ELSE stage' = [stage EXCEPT ![t] = "running"] /\ ran' = ran \cup {t}
           /\ UNCHANGED <<result, logged>>

AcquireSlot(t) ==
    /\ stage[t] = "queued" /\ Cardinality(Inside) < Slots
    /\ Attempt(t)
    /\ UNCHANGED <<waits, attempt, processed, granted, wave>>

BackoffEnds(t) ==
    /\ stage[t] = "backoff"
    /\ Attempt(t)
    /\ UNCHANGED <<waits, attempt, processed, granted, wave>>

\* receive_approval_response(): every task asks for itself, the answer holds
\* for its tool.
Approved(t) ==
    /\ stage[t] = "approval"
    /\ granted' = granted \cup {Key(t)}
    /\ stage' = [stage EXCEPT ![t] = "running"] /\ ran' = ran \cup {t}
    /\ UNCHANGED <<waits, result, attempt, processed, logged, wave>>

\* The attempt failed: it is repeated after a delay while retries are left and
\* the error is retryable. A refused permission is retried like an error.
Failed(t, res) ==
    \/ /\ attempt[t] < MaxToolRetries
       /\ attempt' = [attempt EXCEPT ![t] = @ + 1]
       /\ logged' = [logged EXCEPT !.retries = @ + 1]
       /\ stage' = [stage EXCEPT ![t] = "backoff"] /\ UNCHANGED result
    \/ Conclude(t, res) /\ UNCHANGED attempt

NotApproved(t) ==
    /\ stage[t] = "approval" /\ Failed(t, "FAILURE")
    /\ UNCHANGED <<waits, processed, granted, ran, wave>>

\* How a sandbox can end: a container that takes too long raises, a subprocess
\* is killed and has an exit code of its own.
DockerRun == {"SUCCESS", "FAILURE", "ERROR"}
LocalRun == {"SUCCESS", "FAILURE", "ERROR"}

\* ToolRuntime.execute_tool(): an unknown tool, a refused permission, the audit
\* log or the event bus raise as well.
ExecuteTool == DockerRun \cup LocalRun \cup {"ERROR"}

\* It ends, or wait_for() gives up. Only a success is remembered.
ToolEnds(t) ==
    /\ stage[t] = "running"
    /\ \/ Conclude(t, "SUCCESS") /\ processed' = processed \cup {Key(t)} /\ UNCHANGED attempt
       \/ \E res \in (ExecuteTool \ {"SUCCESS"}) \cup {"TIMEOUT"} : Failed(t, res) /\ UNCHANGED processed
    /\ UNCHANGED <<waits, granted, ran, wave>>

\* cancel_task(), cancel_wave(): inside the semaphore the task stores CANCELLED,
\* before it the coroutine just ends, without a result and without its event.
CancelTask(t) ==
    /\ \/ t \in Inside /\ Conclude(t, "CANCELLED")
       \/ /\ stage[t] \in {"waiting", "queued"}
          /\ stage' = [stage EXCEPT ![t] = "gone"] /\ UNCHANGED <<result, logged>>
    /\ UNCHANGED <<waits, attempt, processed, granted, ran, wave>>

ToolStep(t) ==
    \/ DependenciesEnd(t) \/ AcquireSlot(t) \/ BackoffEnds(t)
    \/ Approved(t) \/ NotApproved(t) \/ ToolEnds(t)

ToolNext ==
    \/ ExecuteWave \/ WaveReturns
    \/ \E t \in WaveTasks : ToolStep(t) \/ CancelTask(t)

\* The event loop resumes coroutines; tools and approvals have timeouts.
ToolFairness ==
    /\ \A t \in WaveTasks : WF_toolVars(ToolStep(t))
    /\ WF_toolVars(WaveReturns)
-----------------------------------------------------------------------------
(* Properties.                                                             *)

ToolTypeOK ==
    /\ stage \in [WaveTasks -> {"new", "waiting", "queued", "approval", "running", "backoff",
                                "done", "gone"}]
    /\ result \in [WaveTasks -> Outcomes \cup {"none"}]
    /\ attempt \in [WaveTasks -> 0 .. MaxToolRetries]

\* A tool is started only when all the task depends on succeeded, and a guarded
\* one only when a human approved it.
StartedInOrder ==
    \A t \in ran :
        /\ \A d \in waits[t] : result[d] = "SUCCESS"
        /\ t \in Guarded => Key(t) \in granted

\* A task that shares its key with a task it depends on never repeats what that
\* one did, however often either was retried. (Two tasks with one key that do not
\* depend on each other may both run.)
KeyHolds ==
    \A t \in ran \cap SameKey : \A d \in waits[t] \cap SameKey : d \notin ran

\* When no task was cancelled before it began, SUCCESS means that every task
\* succeeded. (Such a task leaves no result, and the aggregate overlooks it.)
SuccessIsWhole ==
    wave = "SUCCESS" /\ (\A t \in WaveTasks : stage[t] # "gone")
        => \A t \in WaveTasks : result[t] = "SUCCESS"

\* The metrics never count more runs than tasks that are done, count some run
\* once a task whose tool ran is done, and show a retry exactly when some attempt
\* was repeated.
MetricsAddUp ==
    /\ logged.runs <= Cardinality({t \in WaveTasks : stage[t] = "done"})
    /\ \A t \in ran : stage[t] = "done" => logged.runs > 0
    /\ logged.retries > 0 <=> \E t \in WaveTasks : attempt[t] > 0

\* What a wave did and what it says about it.
WaveIsTruthful == ToolTypeOK /\ StartedInOrder /\ KeyHolds /\ SuccessIsWhole /\ MetricsAddUp

\* A wave ends, unless a task was cancelled before it began and another waits
\* for the event that is never set.
WaveEnds ==
    wave = "RUNNING" ~> \/ wave # "RUNNING"
                        \/ \E t, u \in WaveTasks : stage[t] = "gone" /\ t \in waits[u]
=============================================================================

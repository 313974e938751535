------------------------------ MODULE AgentLoop ------------------------------
(***************************************************************************)
(* AgentLoop.run() over ToolDispatcher, RepairEngine and the process       *)
(* runtimes: a queue of tasks is worked off; a task that fails is repaired *)
(* inside its dispatch and, when that fails too, by a repair task and a    *)
(* retry put behind it.                                                    *)
(*                                                                         *)
(* An executor's result is "ok", "fatal" (a category of _UNRECOVERABLE) or *)
(* the text of a failure that can be repaired. What a language model       *)
(* proposes is any executor.                                               *)
(***************************************************************************)
EXTENDS Integers, Sequences, FiniteSets, SequencesExt

CONSTANTS
    TaskCount,      \* tasks given to run()
    MaxIterations,  \* MAX_ITERATIONS
    Executors,      \* ExecutorType
    Registered,     \* the dispatcher's executors
    Spawning,       \* executors that run a child process (shell, python)
    Errors,         \* texts of failures that can be repaired
    NoExecutor

ASSUME AgentLoopAssumption ==
    /\ TaskCount \in Nat /\ MaxIterations \in Nat
    /\ Registered \subseteq Executors /\ Spawning \subseteq Executors
    /\ NoExecutor \notin Executors

VARIABLES
    helper,      \* what the dispatcher was given: "repair", "fallback" or "plain"
    loopAt,       \* where the loop is
    todo,        \* queue, of entries [id, after]
    cursor,          \* idx + 1
    iteration, completed, failures,
    reason,     \* termination_reason
    executor,    \* task.executor in this iteration
    answer,      \* the result the dispatch has so far
    cause,       \* the failure that is being repaired
    strategies,  \* executors the repair plan still holds
    tried,       \* executors chosen in this dispatch, in order
    child,       \* the runtime's child process
    calls,       \* calls of executors, all in all
    recorded,    \* total_calls of the performance tracker
    patterns,    \* keys of _pattern_cache
    repaired,    \* len(_repair_history)
    journal,     \* next_action of each record
    last         \* result of each task's last iteration

loopVars == <<helper, loopAt, todo, cursor, iteration, completed, failures, reason, executor, answer,
              cause, strategies, tried, child, calls, recorded, patterns, repaired, journal, last>>

queueVars == <<todo, cursor, iteration, completed, failures, reason, journal, last>>

MAXREPAIRSTAGES == 3
MAXRETRIES == 2

Ids == 1 .. TaskCount + MaxIterations
RepairId == TaskCount + iteration
AllErrors == Errors \cup {"exhausted", "unregistered"}

LoopInit ==
    /\ helper \in {"repair", "fallback", "plain"}
    /\ loopAt = "head"
    /\ todo = [i \in 1 .. TaskCount |-> [id |-> i, after |-> 0]]
    /\ cursor = 1 /\ iteration = 0 /\ completed = 0 /\ failures = 0
    /\ reason = "none" /\ executor = NoExecutor /\ answer = "none" /\ cause = "none"
    /\ strategies = <<>> /\ tried = <<>> /\ child = "none"
    /\ calls = 0 /\ recorded = 0 /\ patterns = {} /\ repaired = 0
    /\ journal = <<>> /\ last = [i \in Ids |-> "none"]
-----------------------------------------------------------------------------
(* The loop.                                                               *)

\* The result ends the run.
Terminate(why) == loopAt' = "ended" /\ reason' = why

\* The loop's head with nothing to do: worked off, or too many iterations.
FinishRun ==
    /\ loopAt = "head"
    /\ \/ cursor > Len(todo) /\ Terminate(IF failures = 0 THEN "SUCCESS" ELSE "FAILED")
       \/ cursor <= Len(todo) /\ iteration >= MaxIterations /\ Terminate("ITERATION_LIMIT")
    /\ UNCHANGED <<helper, todo, cursor, iteration, completed, failures, executor, answer, cause, strategies,
                   tried, child, calls, recorded, patterns, repaired, journal, last>>

\* A runtime takes the task: python and shell start a process.
Call(x) ==
    /\ tried' = Append(tried, x)
    /\ calls' = calls + 1
    /\ child' = IF x \in Spawning THEN "running" ELSE "none"

\* An iteration: DecisionEngine may change the executor; the dispatcher looks it up.
Iterate(x) ==
    /\ loopAt = "head" /\ cursor <= Len(todo) /\ iteration < MaxIterations
    /\ iteration' = iteration + 1
    /\ executor' = x
    /\ strategies' = <<>>
    /\ IF x \in Registered
         THEN /\ loopAt' = "first" /\ answer' = "none"
              /\ tried' = <<x>> /\ calls' = calls + 1
              /\ child' = IF x \in Spawning THEN "running" ELSE "none"
         ELSE loopAt' = "reflect" /\ answer' = "unregistered" /\ tried' = <<>> /\ UNCHANGED <<calls, child>>
    /\ UNCHANGED <<helper, todo, cursor, completed, failures, reason, cause, recorded, patterns, repaired, journal, last>>

\* _record_journal().
Record(action) == journal' = Append(journal, action)

\* The task succeeded.
Succeeded ==
    /\ completed' = completed + 1 /\ cursor' = cursor + 1 /\ loopAt' = "head"
    /\ Record(IF cursor < Len(todo) THEN "CONTINUE" ELSE "SUCCESS")
    /\ UNCHANGED <<todo, failures, reason>>

\* The failure cannot be recovered from.
Aborted ==
    /\ failures' = failures + 1 /\ Terminate("FAILED")
    /\ Record("ABORT")
    /\ UNCHANGED <<todo, cursor, completed>>

\* Mutant: the retry is put before the repair.
RetryFirst ==
    /\ failures' = failures + 1 /\ cursor' = cursor + 1 /\ loopAt' = "head"
    /\ todo' = SubSeq(todo, 1, cursor)
               \o << [id |-> todo[cursor].id, after |-> RepairId], [id |-> RepairId, after |-> 0] >>
               \o SubSeq(todo, cursor + 1, Len(todo))
    /\ Record("REPLAN")
    /\ UNCHANGED <<completed, reason>>

\* A repair task and a retry are put behind the failed task.
Replan ==
    /\ failures' = failures + 1 /\ cursor' = cursor + 1 /\ loopAt' = "head"
    /\ todo' = SubSeq(todo, 1, cursor)
               \o << [id |-> RepairId, after |-> 0], [id |-> todo[cursor].id, after |-> RepairId] >>
               \o SubSeq(todo, cursor + 1, Len(todo))
    /\ Record("REPLAN")
    /\ UNCHANGED <<completed, reason>>

\* ReflectionEngine.analyze(): a failure is fatal or comes with a strategy, so the
\* loop's last branch is never taken.
Reflection ==
    /\ loopAt = "reflect"
    /\ last' = [last EXCEPT ![todo[cursor].id] = answer]
    /\ CASE answer = "ok" -> Succeeded
         [] answer = "fatal" -> Aborted
         [] OTHER -> Replan
    /\ UNCHANGED <<helper, iteration, executor, answer, cause, strategies, tried, child, calls, recorded,
                   patterns, repaired>>
-----------------------------------------------------------------------------
(* The runtimes: a call ends with a result.                                *)

\* record_result() of every call, when there is a tool selector.
Track == recorded' = IF helper = "plain" THEN recorded ELSE recorded + 1

\* The next strategy whose executor is known is called with the patched task.
NextStrategy(left, r) ==
    /\ answer' = r
    /\ \/ /\ \A n \in DOMAIN left : left[n] \notin Registered
          /\ loopAt' = "reflect" /\ strategies' = <<>> /\ child' = "none" /\ UNCHANGED <<tried, calls>>
       \/ \E n \in DOMAIN left :
            /\ left[n] \in Registered /\ \A k \in 1 .. n - 1 : left[k] \notin Registered
            /\ loopAt' = "repair" /\ strategies' = SubSeq(left, n + 1, Len(left)) /\ Call(left[n])

\* The first call's result. A fatal failure is not repaired.
FirstReturns(r) ==
    /\ child' = "none" /\ answer' = r /\ cause' = r
    /\ loopAt' = IF r = "ok" \/ helper = "plain" \/ (helper = "repair" /\ r = "fatal") THEN "reflect"
                ELSE IF helper = "repair" THEN "planning" ELSE "selecting"
    /\ UNCHANGED <<strategies, tried, calls, patterns, repaired>>

\* The cache is written under the summary of a failure, which starts with its
\* category, and read under the bare text.
Summary(text) == [category |-> "any", text |-> text]
Signature(text) == [category |-> "none", text |-> text]

\* _learn_success().
Learn ==
    /\ patterns' = patterns \cup {Summary(cause)}
    /\ repaired' = repaired + 1

\* A strategy's result: a success is learned and ends the repair.
RepairCallReturns(r) ==
    /\ UNCHANGED cause
    /\ IF r = "ok"
         THEN /\ Learn /\ answer' = "ok" /\ loopAt' = "reflect" /\ child' = "none"
              /\ UNCHANGED <<strategies, tried, calls>>
         ELSE NextStrategy(strategies, r) /\ UNCHANGED <<patterns, repaired>>

\* A fallback's result: at most MAX_RETRIES of them.
FallbackReturns(r) ==
    /\ child' = "none" /\ answer' = r
    /\ loopAt' = IF r = "ok" \/ Len(tried) > MAXRETRIES THEN "reflect" ELSE "selecting"
    /\ UNCHANGED <<cause, strategies, tried, calls, patterns, repaired>>

CallReturns(r) ==
    /\ Track
    /\ CASE loopAt = "first" -> FirstReturns(r)
         [] loopAt = "repair" -> RepairCallReturns(r)
         [] loopAt = "fallback" -> FallbackReturns(r)
    /\ UNCHANGED <<helper, executor>> /\ UNCHANGED queueVars

InCall == loopAt \in {"first", "repair", "fallback"}

\* A runtime without a process answers or fails; api and human have their own
\* retries and timeouts.
Answers(r) == InCall /\ child = "none" /\ CallReturns(r)

\* The process exits within the timeout.
ProcessExits(r) == InCall /\ child = "running" /\ CallReturns(r)

\* It does not: kill(), then wait for it and for its pipes.
ProcessTimesOut ==
    /\ InCall /\ child = "running"
    /\ child' = "killed"
    /\ UNCHANGED <<helper, loopAt, executor, answer, cause, strategies, tried, calls, recorded, patterns, repaired>>
    /\ UNCHANGED queueVars

Reaped(e) == InCall /\ child = "killed" /\ CallReturns(e)

\* The run is cancelled: no runtime handles it, so the process stays.
CancelRun ==
    /\ InCall
    /\ loopAt' = "cancelled"
    /\ UNCHANGED <<helper, executor, answer, cause, strategies, tried, child, calls, recorded, patterns, repaired>>
    /\ UNCHANGED queueVars

\* _diagnose() and _plan_repair(): the strategy of the reflection, one more from
\* the tool selector or the model, and a cached one, in the order of confidence.
PlanRepair ==
    /\ loopAt = "planning"
    /\ \E n \in 1 .. MAXREPAIRSTAGES : \E plan \in [1 .. n -> Executors] :
         /\ n = 3 => Signature(cause) \in patterns
         /\ NextStrategy(plan, "exhausted")
    /\ UNCHANGED <<helper, executor, cause, recorded, patterns, repaired>> /\ UNCHANGED queueVars

\* _retry_with_fallback(): select_fallback() proposes an executor or none; one that
\* is not registered uses up an attempt.
SelectFallback ==
    /\ loopAt = "selecting"
    /\ \E x \in Executors \cup {NoExecutor} :
         IF x = NoExecutor \/ Contains(tried, x)
           THEN loopAt' = "reflect" /\ UNCHANGED <<tried, calls, child>>
         ELSE IF x \in Registered
           THEN Call(x) /\ loopAt' = "fallback"
         ELSE /\ tried' = Append(tried, x)
              /\ loopAt' = IF Len(tried) < MAXRETRIES THEN "selecting" ELSE "reflect"
              /\ UNCHANGED <<calls, child>>
    /\ UNCHANGED <<helper, executor, answer, cause, strategies, recorded, patterns, repaired>> /\ UNCHANGED queueVars

LoopNext ==
    \/ FinishRun \/ Reflection \/ PlanRepair \/ SelectFallback \/ ProcessTimesOut
    \/ \E x \in Executors : Iterate(x)
    \/ \E r \in Errors \cup {"ok", "fatal"} : Answers(r) \/ ProcessExits(r)
    \/ \E e \in Errors : Reaped(e)
    \/ CancelRun
-----------------------------------------------------------------------------
(* Properties.                                                             *)

LoopTypeOK ==
    /\ loopAt \in {"head", "first", "repair", "fallback", "planning", "selecting", "reflect", "ended", "cancelled"}
    /\ cursor \in 1 .. Len(todo) + 1 /\ iteration \in 0 .. MaxIterations
    /\ reason \in {"none", "SUCCESS", "FAILED", "ITERATION_LIMIT"}

\* Every finished iteration is counted once and journalled once.
Counted ==
    loopAt \in {"head", "ended"} => /\ completed + failures = iteration
                                  /\ Len(journal) = iteration

\* A queue that was worked off has done every task, also in a run that counts as
\* failed: a task is passed only when its last attempt succeeded or its retry is
\* behind it.
WorkedOff ==
    loopAt = "ended" /\ reason # "ITERATION_LIMIT" /\ last[todo[Min({cursor, Len(todo)})].id] # "fatal"
        => \A i \in 1 .. TaskCount : last[i] = "ok"

\* A retry runs only after the repair made for it succeeded.
RetryAfterRepair ==
    loopAt \in {"first", "planning", "selecting", "repair", "fallback", "reflect"}
        => LET entry == todo[cursor] IN entry.after # 0 => last[entry.after] = "ok"

\* A dispatch calls at most four executors; fallbacks never repeat one.
DispatchIsBounded ==
    /\ Len(tried) <= 1 + MAXREPAIRSTAGES
    /\ helper = "fallback" => IsInjective(tried)

\* The tracker counts every call that returned, and each success of a repair is
\* one record of the history.
TrackerIsExact ==
    /\ helper # "plain" => recorded = calls - (IF InCall \/ loopAt = "cancelled" THEN 1 ELSE 0)
    /\ (patterns = {}) <=> (repaired = 0)

\* A runtime that returned has left no process behind.
ChildIsReaped == child # "none" => InCall \/ loopAt = "cancelled"

\* The agent loop and its dispatcher.
LoopSafe ==
    /\ LoopTypeOK /\ Counted /\ WorkedOff /\ RetryAfterRepair /\ DispatchIsBounded
    /\ TrackerIsExact /\ ChildIsReaped
=============================================================================

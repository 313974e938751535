----------------------------- MODULE Supervisor ------------------------------
(***************************************************************************)
(* core/runtime/supervisor.py: the tasks of the waves are registered,      *)
(* reported complete or failed, found stalled by the monitor, and put back *)
(* in the swarm's queue.                                                   *)
(*                                                                         *)
(* Only handle_stalled_agents() suspends, when it terminates an agent; the *)
(* mission manager, the deadlock detector and a second call run meanwhile. *)
(***************************************************************************)
EXTENDS Naturals, FiniteSets

CONSTANTS
    Jobs,           \* the ids register_agent_task() is given, each of them once
    Waves,          \* wave indices; two missions may use the same one
    Monitors        \* calls of handle_stalled_agents() that may overlap

VARIABLES
    tracked,        \* _agent_task_map: the wave of a job, "none" or "gone"
    total, succeeded, failed, inProgress,   \* WaveStatus, by wave
    complete,       \* waves with is_complete
    stalled,        \* by monitor: jobs of its list it has still to handle
    awaiting,       \* by monitor: <<job, wave>> it terminates, with task_info
    requeued        \* how often a job was put in the queue

counters == <<total, succeeded, failed, inProgress, complete>>
supervisorVars == <<tracked, total, succeeded, failed, inProgress, complete,
                    stalled, awaiting, requeued>>
-----------------------------------------------------------------------------
Nobody == <<"none", "none">>

Tracked == {j \in Jobs : tracked[j] \in Waves}

SupervisorTypeOK ==
    /\ tracked \in [Jobs -> Waves \cup {"none", "gone"}]
    /\ \A f \in {total, succeeded, failed, inProgress} : f \in [Waves -> 0 .. Cardinality(Jobs)]
    /\ complete \subseteq Waves
    /\ stalled \in [Monitors -> SUBSET Jobs]
    /\ awaiting \in [Monitors -> (Jobs \X (Waves \cup {"gone"})) \cup {Nobody}]
    /\ requeued \in [Jobs -> 0 .. Cardinality(Monitors) + 1]

SupervisorInit ==
    /\ tracked = [j \in Jobs |-> "none"]
    /\ total = [w \in Waves |-> 0] /\ succeeded = total /\ failed = total
    /\ inProgress = total /\ complete = {}
    /\ stalled = [m \in Monitors |-> {}] /\ awaiting = [m \in Monitors |-> Nobody]
    /\ requeued = [j \in Jobs |-> 0]

Inc(f, w) == [f EXCEPT ![w] = @ + 1]

\* register_agent_task(); a wave that was complete stays so.
RegisterAgentTask(j, w) ==
    /\ tracked[j] = "none"
    /\ tracked' = [tracked EXCEPT ![j] = w]
    /\ total' = Inc(total, w) /\ inProgress' = Inc(inProgress, w)
    /\ UNCHANGED <<succeeded, failed, complete, stalled, awaiting, requeued>>

\* report_task_complete(): only the first report of a job counts.
Report(j, success) ==
    IF j \notin Tracked THEN UNCHANGED <<tracked, counters>>
    ELSE LET w == tracked[j]
         IN /\ tracked' = [tracked EXCEPT ![j] = "gone"]
            /\ inProgress' = [inProgress EXCEPT ![w] = IF @ > 0 THEN @ - 1 ELSE 0]
            /\ IF success THEN succeeded' = Inc(succeeded, w) /\ UNCHANGED failed
               ELSE failed' = Inc(failed, w) /\ UNCHANGED succeeded
            /\ complete' = IF succeeded'[w] + failed'[w] >= total[w]
                           THEN complete \cup {w} ELSE complete \ {w}
            /\ UNCHANGED total

\* The end of a wave reports its jobs, handled meanwhile or not.
ReportTaskComplete(j) ==
    /\ tracked[j] # "none"
    /\ Report(j, TRUE)
    /\ UNCHANGED <<stalled, awaiting, requeued>>

MAX_FAILURES_PER_WAVE == 2

\* should_abort_wave(), given the counts of failures.
ShouldAbort(f, w) == f[w] >= MAX_FAILURES_PER_WAVE

\* _attempt_reassign(): a task with HIGH priority, if there is task_info.
Reassign(j, w) == requeued' = IF w \in Waves THEN Inc(requeued, j) ELSE requeued

\* handle_agent_failure(), which the deadlock detector calls with its victim:
\* the wave's failures are read after this one was counted.
HandleAgentFailure(j) ==
    /\ tracked[j] # "none"
    /\ Report(j, FALSE)
    /\ Reassign(j, IF j \in Tracked /\ ~ShouldAbort(failed', tracked[j])
                   THEN tracked[j] ELSE "gone")
    /\ UNCHANGED <<stalled, awaiting>>

\* The list handle_stalled_agents() goes through: any of the jobs may have
\* passed AGENT_TIMEOUT_SECONDS.
GetStalledAgents(m) ==
    /\ stalled[m] = {} /\ awaiting[m] = Nobody
    /\ \E js \in SUBSET Tracked \ {{}} : stalled' = [stalled EXCEPT ![m] = js]
    /\ UNCHANGED <<tracked, counters, awaiting, requeued>>

\* One job of it: its task_info is read, it is reported failed and terminated.
HandleStalled(m, j) ==
    /\ awaiting[m] = Nobody /\ j \in stalled[m]
    /\ stalled' = [stalled EXCEPT ![m] = @ \ {j}]
    /\ awaiting' = [awaiting EXCEPT ![m] = <<j, tracked[j]>>]
    /\ Report(j, FALSE)
    /\ UNCHANGED requeued

\* Mutant: the task goes back whatever was found in the map.
ReassignAnyway(m) ==
    /\ awaiting[m] # Nobody
    /\ requeued' = Inc(requeued, awaiting[m][1])
    /\ awaiting' = [awaiting EXCEPT ![m] = Nobody]
    /\ UNCHANGED <<tracked, counters, stalled>>

\* terminate_subagent() returned or raised: the task goes back.
StalledTerminated(m) ==
    /\ awaiting[m] # Nobody
    /\ Reassign(awaiting[m][1], awaiting[m][2])
    /\ awaiting' = [awaiting EXCEPT ![m] = Nobody]
    /\ UNCHANGED <<tracked, counters, stalled>>

\* stop_monitoring() cancels the monitor where it waits; the task of the agent
\* that is being terminated is not put back.
StopMonitoring(m) ==
    /\ awaiting[m] # Nobody
    /\ stalled' = [stalled EXCEPT ![m] = {}]
    /\ awaiting' = [awaiting EXCEPT ![m] = Nobody]
    /\ UNCHANGED <<tracked, counters, requeued>>

SupervisorNext ==
    \/ \E j \in Jobs :
         \/ \E w \in Waves : RegisterAgentTask(j, w)
         \/ ReportTaskComplete(j) \/ HandleAgentFailure(j)
         \/ \E m \in Monitors : HandleStalled(m, j)
    \/ \E m \in Monitors : GetStalledAgents(m) \/ StalledTerminated(m) \/ StopMonitoring(m)
-----------------------------------------------------------------------------
(* Properties.                                                             *)

\* However a wave's end, failures, deadlock victims and overlapping checks for
\* stalled agents race, a job's task is put back in the queue at most once.
RequeuedOnce == \A j \in Jobs : requeued[j] <= 1

\* A wave's counters account for each of its jobs exactly once.
WaveAdds ==
    \A w \in Waves :
        /\ inProgress[w] = Cardinality({j \in Jobs : tracked[j] = w})
        /\ total[w] = succeeded[w] + failed[w] + inProgress[w]

\* A wave becomes complete only when none of its jobs is in progress, and a
\* wave whose last job ends is complete.
CompleteMeansIdle ==
    [][\A w \in Waves :
         /\ w \in complete' \ complete => inProgress'[w] = 0
         /\ inProgress[w] > 0 /\ inProgress'[w] = 0 => w \in complete']_supervisorVars

\* Every job is accounted for once, in its wave and in the queue.
JobsAccounted == [](SupervisorTypeOK /\ RequeuedOnce /\ WaveAdds) /\ CompleteMeansIdle
=============================================================================

----------------------------- MODULE WorkerPool -----------------------------
(***************************************************************************)
(* The distributed worker pool: WorkerProcess (worker_process.py) keeps a  *)
(* row of worker_registry alive with heartbeats, DistributedRouter         *)
(* (distributed_router.py) picks a worker for a wave and appends a row to  *)
(* task_routing_log, and WorkerRegistry (worker_registry.py) counts the    *)
(* waves a worker has started and completed.                               *)
(*                                                                         *)
(* Every method of the registry is one database transaction and one action *)
(* here; route() gives way between its transactions and while it publishes *)
(* the envelope, so several calls interleave. Heartbeat ages are counted   *)
(* in ticks of a clock that never runs past the grace period by more than  *)
(* one, since nothing distinguishes older heartbeats.                      *)
(*                                                                         *)
(* The runtime that consumes envelopes on a worker is not in the           *)
(* repository; it is modelled as worker_registry.py asks of it: it calls   *)
(* mark_task_started when an envelope arrives, possibly several times, and *)
(* mark_task_completed when the wave it was allowed to start is finished.  *)
(***************************************************************************)
EXTENDS Integers, FiniteSets

CONSTANTS
    Workers,
    Nobody,
    Waves,      \* the wave_run_ids
    NoWave,
    Callers,    \* concurrent callers of route(), each with a router of its own
    Wired,      \* the callers whose router has a transport
    LoadAware,  \* the callers whose router has load_aware set
    Fits,       \* Fits[v]: the workers whose capabilities match wave v
    Grace,      \* heartbeat_grace_seconds, in ticks
    MaxLaunches \* bound: how often processes are launched in all

ASSUME PoolAssumption ==
    /\ Nobody \notin Workers /\ NoWave \notin Waves
    /\ IsFiniteSet(Waves)
    /\ Wired \subseteq Callers /\ LoadAware \subseteq Callers
    /\ Fits \in [Waves -> SUBSET Workers]
    /\ Grace \in Nat /\ MaxLaunches \in Nat

VARIABLES
    status,     \* WorkerRegistryModel.status; NONE: there is no row
    age,        \* the age of WorkerRegistryModel.last_heartbeat
    active,     \* WorkerRegistryModel.active_tasks
    rows,       \* task_routing_log by wave and worker: NONE, OPEN, or
                \* COMPLETED / RETIRED when completed_at was set by the
                \* worker / by mark_routing_complete
    proc,       \* what the process of a worker is doing
    launches,   \* how often processes were launched
    signalled,  \* the processes that got a signal (_async_main's stop_called)
    running,    \* <<wave, worker>>: the wave is being executed by the worker
    started,    \* history: the pairs <<wave, worker>> whose start was ever reported
    miscounted, \* history: the workers whose count was changed for a wave that
                \* was counted, or not changed back for one that was retired
    step,       \* where each caller is suspended in route()
    wave,       \* the wave_run_id it routes, or NoWave
    chosen      \* the worker it has chosen, or Nobody

registry == <<status, age, active>>
process == <<proc, launches, signalled>>
routing == <<step, wave, chosen>>
history == <<started, miscounted>>
vars == <<status, age, active, rows, proc, launches, signalled,
          running, started, miscounted, step, wave, chosen>>

\* The rows that record a failed routing have a random uuid4() for a worker,
\* so that nothing ever finds them again; they are left out.
Pairs == Waves \X Workers

WorkerStatus == {"NONE", "ONLINE", "OFFLINE"}
RowStates == {"NONE", "OPEN", "COMPLETED", "RETIRED"}

\* down: not started, or crashed; starting: in start(), before register() has
\* returned; up: the heartbeat loop runs; stopping: stop() has ended the loop;
\* stopped: mark_offline() returned and the process ended.
ProcessStates == {"down", "starting", "up", "stopping", "stopped"}

\* The awaits of route() and _route_remote().
Steps == {"idle", "publish", "insert"}

Init ==
    /\ status = [w \in Workers |-> "NONE"]
    /\ age = [w \in Workers |-> 0]
    /\ active = [w \in Workers |-> 0]
    /\ rows = [p \in Pairs |-> "NONE"]
    /\ proc = [w \in Workers |-> "down"]
    /\ launches = 0
    /\ signalled = {}
    /\ running = {}
    /\ started = {}
    /\ miscounted = {}
    /\ step = [c \in Callers |-> "idle"]
    /\ wave = [c \in Callers |-> NoWave]
    /\ chosen = [c \in Callers |-> Nobody]

-----------------------------------------------------------------------------
(***************************************************************************)
(* WorkerProcess. A process that ends takes the waves it executes with it. *)
(***************************************************************************)

Dropped(w) == {p \in running : p[2] # w}

\* _async_main and run() up to the await of register() in start().
Launch(w) ==
    /\ proc[w] \in {"down", "stopped"} /\ launches < MaxLaunches
    /\ launches' = launches + 1
    /\ proc' = [proc EXCEPT ![w] = "starting"]
    /\ UNCHANGED <<registry, signalled, rows, running, routing, history>>

\* register() and the rest of start(): an existing row keeps its heartbeat and
\* its count. The initial status is the operator's choice.
Start(w) ==
    /\ proc[w] = "starting"
    /\ \E s \in {"ONLINE", "OFFLINE"} : status' = [status EXCEPT ![w] = s]
    /\ age' = IF status[w] = "NONE" THEN [age EXCEPT ![w] = 0] ELSE age
    /\ proc' = [proc EXCEPT ![w] = "up"]
    /\ UNCHANGED <<active, launches, signalled, rows, running, routing, history>>

\* Mutant: the heartbeat loop outlives stop().
HeartbeatAfterStop(w) ==
    /\ proc[w] \in {"up", "stopped"}
    /\ age' = [age EXCEPT ![w] = 0]
    /\ status' = [status EXCEPT ![w] = IF @ = "OFFLINE" THEN "ONLINE" ELSE @]
    /\ UNCHANGED <<active, process, rows, running, routing, history>>

\* Mutant: a heartbeat does not bring a worker back.
HeartbeatWithoutPromotion(w) ==
    /\ proc[w] = "up"
    /\ age' = [age EXCEPT ![w] = 0]
    /\ UNCHANGED <<status, active, process, rows, running, routing, history>>

\* One turn of _heartbeat_loop. The row exists: start() registered it.
Heartbeat(w) ==
    /\ proc[w] = "up"
    /\ age' = [age EXCEPT ![w] = 0]
    /\ status' = [status EXCEPT ![w] = IF @ = "OFFLINE" THEN "ONLINE" ELSE @]
    /\ UNCHANGED <<active, process, rows, running, routing, history>>

\* _on_signal(). The first SIGTERM or SIGINT schedules stop(), later ones are
\* ignored. Before register() has returned stop() finds nothing to stop;
\* afterwards it ends the heartbeat loop.
Signal(w) ==
    /\ proc[w] \in {"starting", "up"} /\ w \notin signalled
    /\ signalled' = signalled \cup {w}
    /\ proc' = [proc EXCEPT ![w] = IF @ = "up" THEN "stopping" ELSE @]
    /\ UNCHANGED <<registry, launches, rows, running, routing, history>>

\* The rest of stop(), and the end of run().
MarkOffline(w) ==
    /\ proc[w] = "stopping"
    /\ status' = [status EXCEPT ![w] = "OFFLINE"]
    /\ proc' = [proc EXCEPT ![w] = "stopped"]
    /\ signalled' = signalled \ {w}
    /\ running' = Dropped(w)
    /\ UNCHANGED <<age, active, launches, rows, routing, history>>

\* The process dies; so it does when register() raises, and stop() ignores an
\* exception of mark_offline().
Crash(w) ==
    /\ proc[w] \in {"starting", "up", "stopping"}
    /\ proc' = [proc EXCEPT ![w] = "down"]
    /\ signalled' = signalled \ {w}
    /\ running' = Dropped(w)
    /\ UNCHANGED <<registry, launches, rows, routing, history>>

\* Time passes. Heartbeats may be late: the loop ignores database errors.
Tick ==
    /\ \E w \in Workers : status[w] # "NONE" /\ age[w] <= Grace
    /\ age' = [w \in Workers |-> IF status[w] # "NONE" /\ age[w] <= Grace
                                 THEN age[w] + 1 ELSE age[w]]
    /\ UNCHANGED <<status, active, process, rows, running, routing, history>>

-----------------------------------------------------------------------------
(***************************************************************************)
(* DistributedRouter.                                                      *)
(***************************************************************************)

\* list_active(): the sweep, and the rows it returns.
Sweep == [w \in Workers |-> IF status[w] # "NONE" /\ age[w] > Grace
                            THEN "OFFLINE" ELSE status[w]]
ListActive == {w \in Workers : status[w] = "ONLINE" /\ age[w] <= Grace}

Eligible(v) == ListActive \cap Fits[v]

\* The lowest load, then the latest heartbeat; a router without load_aware
\* only looks at the heartbeats. Which of several the database lists first is
\* not determined.
PickBest(c, E) ==
    {w \in E : \A u \in E :
        IF c \in LoadAware /\ active[w] # active[u]
        THEN active[w] < active[u] ELSE age[w] <= age[u]}

\* Call c is at step s with wave v and worker n.
GoTo(c, s, v, n) ==
    /\ step' = [step EXCEPT ![c] = s]
    /\ wave' = [wave EXCEPT ![c] = v]
    /\ chosen' = [chosen EXCEPT ![c] = n]
Return(c) == GoTo(c, "idle", NoWave, Nobody)

\* route() with LOCAL_ONLY or ANY, and with REMOTE_PREFERRED on a router that
\* has a transport, up to the choice of a worker.
Choose(c, v) ==
    /\ step[c] = "idle"
    /\ status' = Sweep
    /\ \E w \in PickBest(c, Eligible(v)) :
          \/ GoTo(c, "insert", v, w)
          \/ c \in Wired /\ GoTo(c, "publish", v, w)
    /\ UNCHANGED <<age, active, process, rows, running, history>>

\* No worker is eligible: the call raises, or records that with
\* allow_no_worker. REMOTE_PREFERRED without a transport raises before the
\* sweep.
FindNobody(c, v) ==
    /\ step[c] = "idle" /\ Eligible(v) = {}
    /\ status' = Sweep
    /\ UNCHANGED <<age, active, process, rows, running, routing, history>>

\* The envelope goes out before the row is written, whether or not there is
\* one already. Nothing is kept of it: until there is a row,
\* mark_task_started() refuses the wave.
Publish(c) ==
    /\ step[c] = "publish"
    /\ step' = [step EXCEPT ![c] = "insert"]
    /\ UNCHANGED <<registry, process, rows, running, wave, chosen, history>>

\* _insert_routing(): the unique index keeps the first row of a pair.
Insert(c) ==
    /\ step[c] = "insert"
    /\ rows' = [rows EXCEPT ![<<wave[c], chosen[c]>>] =
                    IF @ = "NONE" THEN "OPEN" ELSE @]
    /\ Return(c)
    /\ UNCHANGED <<registry, process, running, history>>

\* The transport or the database raises, and with it the call.
RouteFails(c) ==
    /\ step[c] # "idle"
    /\ Return(c)
    /\ UNCHANGED <<registry, process, rows, running, history>>

\* mark_routing_complete(), called by an operator through the API. It leaves
\* active_tasks alone.
MarkRoutingComplete(p) ==
    /\ rows[p] = "OPEN"
    /\ rows' = [rows EXCEPT ![p] = "RETIRED"]
    /\ miscounted' = miscounted \cup {w \in Workers : p \in started /\ p[2] = w}
    /\ UNCHANGED <<registry, process, running, started, routing>>

-----------------------------------------------------------------------------
(***************************************************************************)
(* Task accounting. A wave that is recorded for a worker may be delivered  *)
(* to it any number of times.                                              *)
(***************************************************************************)

Open(w) == {v \in Waves : rows[<<v, w>>] = "OPEN"}
Retired(w) == {v \in Waves : rows[<<v, w>>] = "RETIRED"}

\* mark_task_started() when it returns True; when it returns False it changes
\* nothing and the wave is not executed. Whether this wave was counted before
\* is not recorded: the count grows while it is below the number of open waves.
StartTask(w, v) ==
    /\ proc[w] = "up"
    /\ rows[<<v, w>>] = "OPEN"
    /\ running' = running \cup {<<v, w>>}
    /\ started' = started \cup {<<v, w>>}
    /\ \/ active[w] >= Cardinality(Open(w)) /\ UNCHANGED <<active, miscounted>>
       \/ /\ active[w] < Cardinality(Open(w))
          /\ active' = [active EXCEPT ![w] = @ + 1]
          /\ miscounted' = miscounted \cup {u \in {w} : <<v, w>> \in started}
    /\ UNCHANGED <<status, age, rows, process, routing>>

\* Mutant: the count is not taken back.
CompleteWithoutDecrement(w, v) ==
    /\ <<v, w>> \in running
    /\ rows' = [rows EXCEPT ![<<v, w>>] = IF @ = "OPEN" THEN "COMPLETED" ELSE @]
    /\ running' = running \ {<<v, w>>}
    /\ UNCHANGED <<status, age, active, process, routing, history>>

\* mark_task_completed() by the worker that has executed the wave; it leaves
\* alone a row that has been completed meanwhile.
CompleteTask(w, v) ==
    /\ <<v, w>> \in running
    /\ \/ /\ rows[<<v, w>>] = "OPEN"
          /\ rows' = [rows EXCEPT ![<<v, w>>] = "COMPLETED"]
          /\ active' = IF active[w] > 0 THEN [active EXCEPT ![w] = @ - 1]
                       ELSE active
       \/ /\ rows[<<v, w>>] # "OPEN"
          /\ UNCHANGED <<rows, active>>
    /\ running' = running \ {<<v, w>>}
    /\ UNCHANGED <<status, age, process, routing, history>>

-----------------------------------------------------------------------------
Next ==
    \/ \E w \in Workers :
          Launch(w) \/ Start(w) \/ Heartbeat(w) \/ Signal(w) \/ MarkOffline(w)
          \/ Crash(w)
    \/ Tick
    \/ \E c \in Callers :
          \/ \E v \in Waves : Choose(c, v) \/ FindNobody(c, v)
          \/ Publish(c) \/ Insert(c) \/ RouteFails(c)
    \/ \E p \in Pairs : MarkRoutingComplete(p)
    \/ \E w \in Workers, v \in Waves : StartTask(w, v) \/ CompleteTask(w, v)

Spec == Init /\ [][Next]_vars

\* A process that is up goes on: its event loop runs the heartbeat loop, and
\* register() and mark_offline() return.
FairSpec == Spec /\ \A w \in Workers :
    WF_vars(Start(w)) /\ WF_vars(Heartbeat(w)) /\ WF_vars(MarkOffline(w))
-----------------------------------------------------------------------------
(***************************************************************************)
(* Properties.                                                             *)
(***************************************************************************)

\* The variables keep their types; no count exceeds the number of waves.
TypeOK ==
    /\ status \in [Workers -> WorkerStatus]
    /\ age \in [Workers -> 0..(Grace + 1)]
    /\ active \in [Workers -> 0..Cardinality(Waves)]
    /\ rows \in [Pairs -> RowStates]
    /\ proc \in [Workers -> ProcessStates]
    /\ launches \in 0..MaxLaunches
    /\ signalled \subseteq Workers
    /\ running \subseteq Waves \X Workers
    /\ started \subseteq Waves \X Workers
    /\ miscounted \subseteq Workers
    /\ step \in [Callers -> Steps]
    /\ wave \in [Callers -> Waves \cup {NoWave}]
    /\ chosen \in [Callers -> Workers \cup {Nobody}]

\* A worker that has shut down gracefully stays OFFLINE: no heartbeat and no
\* sweep brings its row back (WorkerProcess.stop, L452).
StoppedIsOffline ==
    \A w \in Workers : proc[w] = "stopped" => status[w] = "OFFLINE"

\* A worker's active_tasks counts at least the waves it executes and that are
\* still open, however often they were delivered and whatever crashed before:
\* the router never takes a busy worker for an idle one (mark_task_started,
\* L498, and mark_task_completed, L609).
RunningIsCounted ==
    \A w \in Workers :
        Cardinality({v \in Open(w) : <<v, w>> \in running}) <= active[w]

\* active_tasks exceeds the worker's open waves by at most the waves that were
\* closed with mark_routing_complete, which does not decrement it (L672). So
\* without such a call a worker with no open wave has a load of 0.
LoadIsAccounted ==
    \A w \in Workers :
        active[w] <= Cardinality(Open(w)) + Cardinality(Retired(w))

\* active_tasks is exactly the number of the worker's open waves whose start was
\* reported, however many times, and whatever crashed or was restarted since;
\* except for the workers in miscounted, where a repeated report was counted
\* again because another wave had been routed meanwhile (mark_task_started
\* promises not to, L503), or a wave that had started was retired.
CountIsExact ==
    \A w \in Workers \ miscounted :
        active[w] = Cardinality({v \in Open(w) : <<v, w>> \in started})

\* active_tasks counts the started waves exactly until a repeated report or a
\* retired wave spoils it; then it still covers what the worker executes and
\* exceeds its open waves only by the retired ones.
LoadIsExact == TypeOK /\ CountIsExact /\ RunningIsCounted /\ LoadIsAccounted

\* A row of task_routing_log is neither deleted nor reopened, and its
\* completed_at is set once: routing a finished wave again to the same worker
\* does not make the worker execute it again (D-2, D-3; _insert_routing, L766).
RowsOnlyAdvance ==
    [][\A p \in Pairs : rows'[p] # rows[p] =>
          \/ rows[p] = "NONE" /\ rows'[p] = "OPEN"
          \/ rows[p] = "OPEN" /\ rows'[p] \in {"COMPLETED", "RETIRED"}]_vars

\* A worker that was swept to OFFLINE, registered as OFFLINE or restarted
\* after a shutdown is ONLINE again after its next heartbeat, unless its
\* process ends (WorkerRegistry.heartbeat, L421).
OfflineRecovers ==
    \A w \in Workers :
        (proc[w] = "up" /\ status[w] = "OFFLINE")
            ~> (status[w] = "ONLINE" \/ proc[w] # "up")

\* Stated by worker_process.py, L24 and L455, and not true of the code: a
\* worker that gets SIGTERM or SIGINT shuts down. A signal during register()
\* is lost, and _on_signal ignores the next ones.
SignalStops ==
    \A w \in Workers :
        (w \in signalled) ~> (proc[w] \in {"stopped", "down"})
=============================================================================

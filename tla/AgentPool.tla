------------------------------ MODULE AgentPool ------------------------------
(***************************************************************************)
(* core/runtime/subagent.py with the transition table of state.py:         *)
(* subagents are spawned up to a limit, change state, send heartbeats, are *)
(* terminated by callers, by the watchdog and by a shutdown.               *)
(*                                                                         *)
(* The manager's lock is held while the driver is awaited; what needs the  *)
(* lock waits. poolOp is the call that holds it. Times are two flags of an *)
(* instance: its lifespan is over, its last heartbeat is too old.          *)
(***************************************************************************)
EXTENDS Naturals, FiniteSets

CONSTANTS
    Agents,         \* subagent UUIDs
    MaxConcurrent   \* max_concurrent

ASSUME PoolAssumption == MaxConcurrent \in Nat \ {0}

VARIABLES
    instance,       \* SubagentInstance.state; "none" before, "DESTROYED" after
    cancelled,      \* agents whose CancellationToken is cancelled
    old, silent,    \* lifespan over; heartbeat lost
    poolOp,         \* <<call, agent>> that holds _lock and awaits the driver
    watchdog,       \* "off", or "on"
    condemned,      \* to_terminate of the watchdog, or of shutdown()
    leaving         \* shutdown() was called and is not finished

poolVars == <<instance, cancelled, old, silent,
              poolOp, watchdog, condemned, leaving>>
-----------------------------------------------------------------------------
SubagentState == {"READY", "WORKING", "WAITING", "COMPLETED", "ARCHIVED", "DESTROYED"}

Free == <<"none", "none">>

PoolTypeOK ==
    /\ instance \in [Agents -> SubagentState \cup {"none", "INITIALIZE"}]
    /\ cancelled \subseteq Agents
    /\ old \subseteq Agents /\ silent \subseteq Agents
    /\ poolOp \in ({"spawn", "terminate", "watchdog", "shutdown"} \X Agents) \cup {Free}
    /\ watchdog \in {"off", "on"}
    /\ condemned \subseteq Agents /\ leaving \in BOOLEAN

PoolInit ==
    /\ instance = [a \in Agents |-> "none"]
    /\ cancelled = {} /\ old = {} /\ silent = {} /\ poolOp = Free
    /\ watchdog = "off" /\ condemned = {} /\ leaving = FALSE

\* active_subagents: the entries are the ones past INITIALIZE.
Active == {a \in Agents : instance[a] \in SubagentState \ {"DESTROYED"}}

\* _SUBAGENT_TRANSITIONS.
Allowed(s) ==
    CASE s = "READY" -> {"WORKING", "DESTROYED"}
      [] s = "WORKING" -> {"WAITING", "COMPLETED", "DESTROYED"}
      [] s = "WAITING" -> {"WORKING", "DESTROYED"}
      [] s = "COMPLETED" -> {"ARCHIVED", "DESTROYED"}
      [] s = "ARCHIVED" -> {"DESTROYED"}
-----------------------------------------------------------------------------
(* The calls.                                                              *)

Initialize ==
    /\ watchdog = "off" /\ ~leaving
    /\ watchdog' = "on"
    /\ UNCHANGED <<instance, cancelled, old, silent,
                   poolOp, condemned, leaving>>

\* Mutant: the lock is not held while the driver starts the container.
SpawnWithoutLock(a) ==
    /\ instance[a] = "none" /\ Cardinality(Active) < MaxConcurrent
    /\ instance' = [instance EXCEPT ![a] = "INITIALIZE"]
    /\ UNCHANGED <<poolOp, cancelled, old, silent, watchdog,
                   condemned, leaving>>

\* spawn_subagent() up to the driver; over the limit it raises AGENT_002.
SpawnSubagent(a) ==
    /\ poolOp = Free /\ instance[a] = "none" /\ Cardinality(Active) < MaxConcurrent
    /\ instance' = [instance EXCEPT ![a] = "INITIALIZE"]
    /\ poolOp' = <<"spawn", a>>
    /\ UNCHANGED <<cancelled, old, silent, watchdog,
                   condemned, leaving>>

\* The container runs: the instance is entered.
SpawnReturns(a) ==
    /\ instance[a] = "INITIALIZE"
    /\ instance' = [instance EXCEPT ![a] = "READY"]
    /\ poolOp' = Free
    /\ UNCHANGED <<cancelled, old, silent, watchdog, condemned, leaving>>

\* The driver raises: AGENT_004, and the instance is forgotten.
SpawnRaises(a) ==
    /\ poolOp = <<"spawn", a>>
    /\ instance' = [instance EXCEPT ![a] = "DESTROYED"]
    /\ poolOp' = Free
    /\ UNCHANGED <<cancelled, old, silent, watchdog,
                   condemned, leaving>>

\* update_state(): the table decides; DESTROYED drops the instance and leaves
\* its container alone.
UpdateState(a, s) ==
    /\ poolOp = Free /\ a \in Active /\ s \in Allowed(instance[a])
    /\ instance' = [instance EXCEPT ![a] = s]
    /\ cancelled' = IF s = "DESTROYED" THEN cancelled \cup {a} ELSE cancelled
    /\ UNCHANGED <<old, silent, poolOp, watchdog,
                   condemned, leaving>>

RegisterHeartbeat(a) ==
    /\ a \in Active \cap silent
    /\ silent' = silent \ {a}
    /\ UNCHANGED <<instance, cancelled, old, poolOp,
                   watchdog, condemned, leaving>>

\* terminate_subagent() up to the driver, called for k; an instance that is
\* gone is passed over.
BeginTermination(k, a) ==
    /\ poolOp = Free
    /\ IF a \in Active
         THEN poolOp' = <<k, a>> /\ cancelled' = cancelled \cup {a}
         ELSE UNCHANGED <<poolOp, cancelled>>

TerminateSubagent(a) ==
    /\ a \in Active
    /\ BeginTermination("terminate", a)
    /\ UNCHANGED <<instance, old, silent, watchdog,
                   condemned, leaving>>

\* The driver returns or raises, which is ignored: the instance is dropped.
TerminationReturns(a) ==
    /\ \E k \in {"terminate", "watchdog", "shutdown"} : poolOp = <<k, a>>
    /\ poolOp' = Free
    /\ instance' = [instance EXCEPT ![a] = "DESTROYED"]
    /\ UNCHANGED <<cancelled, old, silent, watchdog, condemned, leaving>>
-----------------------------------------------------------------------------
(* Time, the watchdog, shutdown.                                           *)

GrowsOld(a) ==
    /\ a \in Active \ old
    /\ old' = old \cup {a}
    /\ UNCHANGED <<instance, cancelled, silent, poolOp,
                   watchdog, condemned, leaving>>

FallsSilent(a) ==
    /\ a \in Active \ silent
    /\ silent' = silent \cup {a}
    /\ UNCHANGED <<instance, cancelled, old, poolOp,
                   watchdog, condemned, leaving>>

\* Mutant: only the heartbeat is looked at.
CheckHeartbeatsOnly ==
    /\ watchdog = "on" /\ ~leaving /\ poolOp = Free /\ condemned = {}
    /\ condemned' = Active \cap silent
    /\ UNCHANGED <<instance, cancelled, old, silent,
                   poolOp, watchdog, leaving>>

\* The first half of _check_timeouts(): the list is made under the lock.
CheckTimeouts ==
    /\ watchdog = "on" /\ ~leaving /\ poolOp = Free /\ condemned = {}
    /\ condemned' = Active \cap (old \cup silent)
    /\ UNCHANGED <<instance, cancelled, old, silent,
                   poolOp, watchdog, leaving>>

\* The second half, and the end of shutdown(): the next of the list.
TerminateCondemned(a) ==
    /\ a \in condemned
    /\ BeginTermination(IF leaving THEN "shutdown" ELSE "watchdog", a)
    /\ condemned' = condemned \ {a}
    /\ UNCHANGED <<instance, old, silent, watchdog, leaving>>

\* shutdown(): the watchdog is cancelled, wherever it is, and the instances
\* there are now are put on a list. A cancelled termination leaves its
\* instance in the table.
Shutdown ==
    /\ ~leaving
    /\ leaving' = TRUE /\ watchdog' = "off"
    /\ poolOp' = IF poolOp[1] = "watchdog" THEN Free ELSE poolOp
    /\ condemned' = Active
    /\ UNCHANGED <<instance, cancelled, old, silent>>
-----------------------------------------------------------------------------
\* What the event loop and the driver bring forward.
PoolStep ==
    \/ CheckTimeouts
    \/ \E a \in Agents :
         TerminateCondemned(a) \/ SpawnReturns(a) \/ TerminationReturns(a)

PoolNext ==
    \/ Initialize \/ Shutdown \/ PoolStep
    \/ \E a \in Agents :
         \/ SpawnSubagent(a) \/ SpawnRaises(a) \/ TerminateSubagent(a)
         \/ RegisterHeartbeat(a) \/ GrowsOld(a) \/ FallsSilent(a)
         \/ \E s \in SubagentState : UpdateState(a, s)

\* The watchdog gets the lock again and again, the driver answers.
PoolFairness ==
    /\ SF_poolVars(CheckTimeouts)
    /\ \A a \in Agents :
         /\ SF_poolVars(TerminateCondemned(a)) /\ WF_poolVars(SpawnReturns(a))
         /\ WF_poolVars(TerminationReturns(a))
-----------------------------------------------------------------------------
(* Properties.                                                             *)

\* The limit counts the containers that are being started too, however many
\* spawns, terminations and state changes wait for the lock.
PoolLimit ==
    Cardinality(Active \cup {a \in Agents : instance[a] = "INITIALIZE"}) <= MaxConcurrent

\* From the moment its token is cancelled a subagent gets no new state but
\* DESTROYED: a caller that waited for the lock while the driver was stopping
\* the container does not revive it. (A shutdown that cancels the watchdog in
\* the middle of a termination is the exception.)
CancelledStaysDown ==
    [][\A a \in Agents : a \in cancelled /\ instance'[a] # instance[a] /\ ~leaving
         => instance'[a] = "DESTROYED"]_poolVars

\* While the watchdog runs, a subagent whose lifespan is over goes.
OldAgentsGo ==
    \A a \in Agents : (a \in old /\ watchdog = "on") ~> (a \notin Active \/ watchdog = "off")

\* Every instance a shutdown() found goes; only what is spawned later stays.
ShutdownEmptiesPool ==
    \A a \in Agents : (leaving /\ a \in condemned) ~> a \notin Active

\* The pool stays within its limit and a cancelled subagent stays down.
PoolSafe == [](PoolTypeOK /\ PoolLimit) /\ CancelledStaysDown

\* What is due to go does go.
PoolDrains == OldAgentsGo /\ ShutdownEmptiesPool
=============================================================================

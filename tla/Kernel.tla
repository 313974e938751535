------------------------------- MODULE Kernel -------------------------------
(***************************************************************************)
(* Kernel.boot() builds and registers the services of the system phase by  *)
(* phase, hands the long-lived ones to LifecycleManager, which initializes *)
(* and starts them in order and stops and shuts them down in reverse, and  *)
(* api/main.py's lifespan() drives both.                                   *)
(*                                                                         *)
(* Any constructor, initialize(), start(), stop() or shutdown() may raise, *)
(* at most MaxFaults times in one behaviour.                               *)
(***************************************************************************)
EXTENDS Naturals, Sequences, SequencesExt

CONSTANT MaxFaults    \* how many operations raise

ASSUME KernelAssumption == MaxFaults \in Nat
-----------------------------------------------------------------------------
(* The phases of boot(). A phase resolves what it needs, registers what it *)
(* gives and adds its services to the lifecycle; unless it must succeed it *)
(* runs in a try of its own and a failure only leaves it out.              *)

Phase(must, needs, gives, adds) == [must |-> must, needs |-> needs, gives |-> gives, adds |-> adds]

VaultPhase         == Phase(TRUE, {}, "vault", <<>>)
BusPhase           == Phase(TRUE, {}, "bus", <<>>)
SettingsPhase      == Phase(TRUE, {}, "settings", <<>>)
ToolsPhase         == Phase(TRUE, {}, "tools", <<>>)
ReasoningPhase     == Phase(TRUE, {}, "reasoning", <<>>)
HealthPhase        == Phase(TRUE, {}, "health", <<"health">>)
SkillsPhase        == Phase(TRUE, {}, "skills", <<>>)
WorkflowPhase      == Phase(TRUE, {}, "workflows", <<>>)
PersistencePhase   == Phase(TRUE, {}, "persistence", <<"persistence">>)
SwarmPhase         == Phase(TRUE, {}, "swarm", <<"swarm", "swarm_resume">>)
CollaborationPhase == Phase(TRUE, {}, "collaboration", <<>>)
SchedulerPhase     == Phase(FALSE, {}, "scheduler", <<>>)
ObservabilityPhase == Phase(TRUE, {}, "observability", <<"observability">>)
SecurityPhase      == Phase(TRUE, {}, "security", <<>>)
SyncPhase          == Phase(FALSE, {"vault"}, "sync", <<>>)
FederationPhase    == Phase(FALSE, {"vault"}, "federation", <<"federation">>)
AdminPhase         == Phase(FALSE, {"vault", "swarm"}, "admin", <<"admin">>)
DeploymentPhase    == Phase(FALSE, {"admin"}, "deployment", <<"deployment">>)
MissionPhase       == Phase(FALSE, {"collaboration"}, "missions", <<"missions">>)
BrainPhase         == Phase(FALSE, {"bus"}, "brain", <<>>)
MemoryPhase        == Phase(FALSE, {}, "memory", <<>>)
KnowledgePhase     == Phase(FALSE, {}, "knowledge", <<>>)
IdentityPhase      == Phase(FALSE, {"bus", "brain", "knowledge"}, "identity", <<>>)

Phases ==
    <<VaultPhase, BusPhase, SettingsPhase, ToolsPhase, ReasoningPhase, HealthPhase, SkillsPhase,
      WorkflowPhase, PersistencePhase, SwarmPhase, CollaborationPhase, SchedulerPhase,
      ObservabilityPhase, SecurityPhase, SyncPhase, FederationPhase, AdminPhase, DeploymentPhase,
      MissionPhase, BrainPhase, MemoryPhase, KnowledgePhase, IdentityPhase>>

\* Objects that are attached to each other after both were built, by the
\* phase of the second: missions to brain, memory to brain and missions,
\* identity to brain.
Attachments ==
    {<<"brain", "missions">>, <<"brain", "memory">>, <<"missions", "memory">>, <<"brain", "identity">>}

Managed == UNION {ToSet(Phases[i].adds) : i \in DOMAIN Phases} \cup {"kernel"}

VARIABLES
    container,  \* names in the dependency container
    attached,    \* which attachments were made
    services,    \* LifecycleManager._services
    lifecycle,   \* LifecycleManager._state
    unit,        \* state of each managed service
    ping,        \* HealthMonitor._task runs
    booted,      \* Kernel._booted
    at,          \* what boot() or lifespan() is doing
    step,        \* the phase or the position in services it has come to
    handle,      \* api.dependencies._kernel: nothing, this kernel or an earlier one
    faults

kernelVars == <<container, attached, services, lifecycle, unit, ping, booted, at, step, handle, faults>>

KernelInit ==
    /\ container = {} /\ attached = {} /\ services = <<>>
    /\ lifecycle = "UNINITIALIZED"
    /\ unit = [s \in Managed |-> "new"]
    /\ ping = FALSE /\ booted = FALSE
    /\ at = "idle" /\ step = 0
    /\ handle \in {"none", "other"}
    /\ faults = 0

Fault == faults < MaxFaults /\ faults' = faults + 1
NoFault == faults' = faults
Go(where, from) == at' = where /\ step' = from
-----------------------------------------------------------------------------
(* Kernel.boot().                                                          *)

\* A kernel that is booted refuses; any other starts over.
Boot ==
    /\ at \in {"idle", "failed"} /\ ~booted
    /\ Go("phases", 1)
    /\ UNCHANGED <<container, attached, services, lifecycle, unit, ping, booted, handle, faults>>

\* The outer handler of boot(): shutdown_all() does nothing unless services
\* were initialized.
BootFails == Go("failed", 0) /\ booted' = FALSE

\* register_singleton() raises for a name that is taken, resolve() for one
\* that is not there.
Resolvable(p) == p.needs \subseteq container /\ p.gives \notin container

PhaseSucceeds(p) ==
    /\ Resolvable(p)
    /\ container' = container \cup {p.gives}
    /\ attached' = attached \cup {w \in Attachments :
                                    p.gives \in {w[1], w[2]} /\ {w[1], w[2]} \subseteq container'}
    /\ services' = services \o p.adds
    /\ Go("phases", step + 1)
    /\ UNCHANGED booted

PhaseFails(p) ==
    /\ IF p.must THEN BootFails ELSE Go("phases", step + 1) /\ UNCHANGED booted
    /\ UNCHANGED <<container, attached, services>>

RunPhase ==
    /\ at = "phases" /\ step <= Len(Phases)
    /\ \/ PhaseSucceeds(Phases[step]) /\ NoFault
       \/ PhaseFails(Phases[step]) /\ (IF Resolvable(Phases[step]) THEN Fault ELSE NoFault)
    /\ UNCHANGED <<lifecycle, unit, ping, handle>>

\* The kernel adds itself and calls initialize_all().
PhasesDone ==
    /\ at = "phases" /\ step > Len(Phases)
    /\ services' = Append(services, "kernel")
    /\ IF lifecycle = "UNINITIALIZED" THEN Go("init", 1) ELSE Go("failed", 0)
    /\ UNCHANGED <<container, attached, lifecycle, unit, ping, booted, handle, faults>>
-----------------------------------------------------------------------------
(* LifecycleManager. A service whose operation raised is "broken" in it.   *)

\* When one service fails, all of them are shut down and boot() returns False.
InitializeService ==
    /\ at = "init" /\ step <= Len(services)
    /\ \/ /\ unit' = [unit EXCEPT ![services[step]] = "ready"]
          /\ Go("init", step + 1) /\ NoFault /\ UNCHANGED lifecycle
       \/ /\ unit' = [unit EXCEPT ![services[step]] = "broken"]
          /\ lifecycle' = "INITIALIZED"
          /\ Go("down", Len(services)) /\ Fault
    /\ UNCHANGED <<container, attached, services, ping, booted, handle>>

AllInitialized ==
    /\ at = "init" /\ step > Len(services)
    /\ lifecycle' = "INITIALIZED" /\ Go("start", 1)
    /\ UNCHANGED <<container, attached, services, unit, ping, booted, handle, faults>>

\* Mutant: the services that already run are not stopped.
StartFailsAtOnce == lifecycle' = "INITIALIZED" /\ Go("down", Len(services))

\* stop_all() runs over all services, started or not, then boot()'s handler
\* shuts them down.
StartFails == lifecycle' = "RUNNING" /\ Go("stop", Len(services))

\* HealthMonitor.start() creates the task of the ping loop.
StartService ==
    /\ at = "start" /\ step <= Len(services)
    /\ \/ /\ unit' = [unit EXCEPT ![services[step]] = "up"]
          /\ ping' = (ping \/ services[step] = "health")
          /\ Go("start", step + 1) /\ NoFault /\ UNCHANGED lifecycle
       \/ /\ unit' = [unit EXCEPT ![services[step]] = "broken"]
          /\ StartFails /\ Fault /\ UNCHANGED ping
    /\ UNCHANGED <<container, attached, services, booted, handle>>

\* The security defaults are seeded (a failure is only logged), the kernel is
\* booted and says so on the bus.
AllStarted ==
    /\ at = "start" /\ step > Len(services)
    /\ lifecycle' = "RUNNING" /\ booted' = TRUE /\ Go("booted", 0)
    /\ UNCHANGED <<container, attached, services, unit, ping, handle, faults>>

\* stop_all() goes on when a service raises. HealthMonitor.stop() cancels the
\* ping loop before anything can go wrong.
StopService ==
    /\ at = "stop" /\ step > 0
    /\ \/ unit' = [unit EXCEPT ![services[step]] = "halted"] /\ NoFault
       \/ unit' = [unit EXCEPT ![services[step]] = "broken"] /\ Fault
    /\ ping' = (ping /\ services[step] # "health")
    /\ Go("stop", step - 1)
    /\ UNCHANGED <<container, attached, services, lifecycle, booted, handle>>

AllStopped ==
    /\ at = "stop" /\ step = 0
    /\ lifecycle' = "STOPPED" /\ Go("down", Len(services))
    /\ UNCHANGED <<container, attached, services, unit, ping, booted, handle, faults>>

\* The kernel is one of the services: its shutdown() ends booted.
ShutdownService ==
    /\ at = "down" /\ step > 0
    /\ \/ unit' = [unit EXCEPT ![services[step]] = "down"] /\ NoFault
       \/ unit' = [unit EXCEPT ![services[step]] = "broken"] /\ Fault /\ services[step] # "kernel"
    /\ booted' = (booted /\ services[step] # "kernel")
    /\ Go("down", step - 1)
    /\ UNCHANGED <<container, attached, services, lifecycle, ping, handle>>

AllDown ==
    /\ at = "down" /\ step = 0
    /\ lifecycle' = "SHUTDOWN" /\ services' = <<>> /\ booted' = FALSE
    /\ IF handle = "this" THEN Go("closed", 0) ELSE Go("failed", 0)
    /\ UNCHANGED <<container, attached, unit, ping, handle, faults>>
-----------------------------------------------------------------------------
(* lifespan() of the API gateway.                                          *)

\* set_kernel() raises when an earlier kernel of this process is still bound;
\* lifespan() then ends without stopping anything.
SetKernel ==
    /\ at = "booted"
    /\ IF handle = "other" THEN Go("refused", 0) /\ UNCHANGED handle
                           ELSE Go("serving", 0) /\ handle' = "this"
    /\ UNCHANGED <<container, attached, services, lifecycle, unit, ping, booted, faults>>

StopServing ==
    /\ at = "serving"
    /\ IF lifecycle = "RUNNING" THEN Go("stop", Len(services)) ELSE Go("down", Len(services))
    /\ UNCHANGED <<container, attached, services, lifecycle, unit, ping, booted, handle, faults>>

KernelNext ==
    \/ Boot \/ RunPhase \/ PhasesDone
    \/ InitializeService \/ AllInitialized \/ StartService \/ AllStarted
    \/ StopService \/ AllStopped \/ ShutdownService \/ AllDown
    \/ SetKernel \/ StopServing
-----------------------------------------------------------------------------
(* Properties.                                                             *)

KernelTypeOK ==
    /\ unit \in [Managed -> {"new", "ready", "up", "halted", "down", "broken"}]
    /\ lifecycle \in {"UNINITIALIZED", "INITIALIZED", "RUNNING", "STOPPED", "SHUTDOWN"}
    /\ faults \in 0 .. MaxFaults

\* boot() returns True only with every service started and everything that
\* must be there registered, False only with none left running.
BootIsHonest ==
    /\ at \in {"booted", "serving", "refused"} =>
          /\ booted /\ lifecycle = "RUNNING"
          /\ \A s \in ToSet(services) : unit[s] = "up"
          /\ \A i \in DOMAIN Phases : Phases[i].must => Phases[i].gives \in container
    /\ at \in {"failed", "closed"} => ~booted /\ ~ping /\ \A s \in Managed : unit[s] # "up"

\* While the kernel says it is booted no service was shut down.
BootedServicesLive == booted => \A s \in Managed : unit[s] # "down"

\* Whatever is skipped, a service is registered only with what it was built
\* from, and two that belong together know each other.
WiringIsWhole ==
    /\ \A i \in DOMAIN Phases : Phases[i].gives \in container => Phases[i].needs \subseteq container
    /\ \A w \in Attachments : w \in attached <=> {w[1], w[2]} \subseteq container

\* The order of teardown: no service is stopped while one that was added after
\* it runs, none is shut down while any runs.
TeardownInOrder ==
    [][/\ \A i, j \in DOMAIN services :
             i < j /\ unit[services[i]] = "up" /\ unit'[services[i]] # "up" => unit[services[j]] # "up"
       /\ (\E s \in Managed : unit[s] # "down" /\ unit'[s] = "down")
             => \A s \in Managed : unit[s] # "up"]_kernelVars

\* A kernel that began to build its services is never booted a second time.
NoSecondLife == [][(booted' /\ ~booted) => lifecycle = "INITIALIZED"]_kernelVars

\* The kernel and the lifecycle of its services in every state, and in every step.
KernelInv == KernelTypeOK /\ BootIsHonest /\ BootedServicesLive /\ WiringIsWhole
KernelSteps == TeardownInOrder /\ NoSecondLife
=============================================================================

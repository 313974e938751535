------------------------------ MODULE MCProgress ------------------------------
(***************************************************************************)
(* Components that share no state, checked side by side: a behaviour is    *)
(* one of a single component, the others stay in one state where none of   *)
(* their steps that are fair is enabled.                                   *)
(***************************************************************************)
EXTENDS DependencyResolver, AgentPool, ToolWaves, GoalEngine

VARIABLE part    \* the component whose behaviour this is

sumVars == <<part, vars, poolVars, toolVars, goalVars>>

Parts == {"resolver", "agents", "tools", "goals"}

\* Every component is in an initial state, the ones that do not move in one
\* and the same.
SumInit ==
    /\ part \in Parts
    /\ Init /\ (part # "resolver" => listed = {})
    /\ PoolInit
    /\ ToolInit /\ (part # "tools" => (\A t \in WaveTasks : waits[t] = {}))
    /\ GoalInit /\ (part # "goals" => (\A g \in Goals : path[g] = "old"))

SumNext ==
    \/ /\ part = "resolver" /\ Next
       /\ UNCHANGED <<part, poolVars, toolVars, goalVars>>
    \/ /\ part = "agents" /\ PoolNext
       /\ UNCHANGED <<part, vars, toolVars, goalVars>>
    \/ /\ part = "tools" /\ ToolNext
       /\ UNCHANGED <<part, vars, poolVars, goalVars>>
    \/ /\ part = "goals" /\ GoalNext
       /\ UNCHANGED <<part, vars, poolVars, toolVars>>

\* What each component assumes of the event loop and of the services it calls.
SumFairness ==
    /\ WF_vars(part = "resolver" /\ Next)
    /\ PoolFairness
    /\ ToolFairness
    /\ GoalFairness

SumSpec == SumInit /\ [][SumNext]_sumVars /\ SumFairness

\* resolve() always returns: the graph, cyclic or not, is worked off wave by wave
\* (see Terminates of DependencyResolver).
ResolveTerminates == part = "resolver" => Terminates
=============================================================================

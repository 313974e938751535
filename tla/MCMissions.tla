------------------------------ MODULE MCMissions ------------------------------
(***************************************************************************)
(* Components that share no state, checked side by side: a behaviour is    *)
(* one of a single component, the others stay in one state where none of   *)
(* their steps that are fair is enabled.                                   *)
(***************************************************************************)
EXTENDS MissionManager, Transport

VARIABLE part    \* the component whose behaviour this is

sumVars == <<part, vars, transportVars>>

Parts == {"missions", "transport"}

\* Every component is in an initial state, the ones that do not move in one
\* and the same.
SumInit ==
    /\ part \in Parts
    /\ Init /\ (part # "missions" => parallel = FALSE)
    /\ TransportInit /\ (part # "transport" => backend = "local")

SumNext ==
    \/ /\ part = "missions" /\ Next
       /\ UNCHANGED <<part, transportVars>>
    \/ /\ part = "transport" /\ TransportNext
       /\ UNCHANGED <<part, vars>>

\* What each component assumes of the event loop and of the services it calls.
SumFairness ==
    /\ MissionFairness
    /\ TransportFairness

SumSpec == SumInit /\ [][SumNext]_sumVars /\ SumFairness
=============================================================================

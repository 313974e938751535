--------------------------- MODULE MCSwarmRuntime ---------------------------
(***************************************************************************)
(* SwarmRuntime with one task of normal and one of high priority. The      *)
(* product of two retried tasks is too large: a behaviour has either one   *)
(* task, which may be retried, or two that are not.                        *)
(***************************************************************************)
EXTENDS SwarmRuntime, TLC

CONSTANTS t1, t2

VARIABLE part    \* which of the two a behaviour is

TwoPriorities == (t1 :> 3) @@ (t2 :> 4)
OnePriority == t1 :> 3

PartInit == Init /\ part \in {"alone", "pair"}

PartNext ==
    /\ Next /\ UNCHANGED part
    /\ part = "alone" => \A t \in Tasks \ {t1} : mem'[t] = "none"
    /\ part = "pair" => retry' = retry

PartSpec == PartInit /\ [][PartNext]_<<vars, part>> /\ SwarmFairness
=============================================================================

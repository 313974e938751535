------------------------ MODULE MCMissionScheduler ------------------------
(***************************************************************************)
(* Instances of MissionScheduler: a mission with two waves, one with a     *)
(* single task and a deadline, and one whose only task depends on itself.  *)
(***************************************************************************)
EXTENDS MissionScheduler, TLC

CONSTANTS m1, m2, m3, a, b, c, d

\* Two missions, of two tasks and one.
TwoTasksOf == (m1 :> {a, b}) @@ (m2 :> {c})
\* The same, and the cyclic one.
ThreeTasksOf == (m1 :> {a, b}) @@ (m2 :> {c}) @@ (m3 :> {d})
TwoWaves == (a :> 1) @@ (b :> 2) @@ (c :> 1)
ThreeWaves == (a :> 1) @@ (b :> 2) @@ (c :> 1) @@ (d :> 0)
\* Three missions of one task each.
ShortTasksOf == (m1 :> {a}) @@ (m2 :> {b}) @@ (m3 :> {c})
ShortWaves == (a :> 1) @@ (b :> 1) @@ (c :> 1)
TwoPriorities == (m1 :> 5) @@ (m2 :> 3)
ThreePriorities == (m1 :> 5) @@ (m2 :> 3) @@ (m3 :> 5)
===========================================================================

---------------------------- MODULE MCWorkerPool ----------------------------
(***************************************************************************)
(* An instance of WorkerPool: one wave fits both workers, the other one    *)
(* only one of them.                                                       *)
(***************************************************************************)
EXTENDS WorkerPool, TLC

CONSTANTS w1, w2, v1, v2

TwoFits == (v1 :> {w1, w2}) @@ (v2 :> {w1})
OneFits == (v1 :> {w1}) @@ (v2 :> {w1})
=============================================================================

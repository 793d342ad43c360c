-------------------------- MODULE MCDeliveryImport --------------------------
(***************************************************************************)
(* Instance of DeliveryImport for TLC: one order delivered twice, by       *)
(* imports that overlap.                                                   *)
(***************************************************************************)
EXTENDS DeliveryImport, TLC

CONSTANTS o1, o2, d1, d2

OneOrder == d1 :> o1 @@ d2 :> o1
\* Bound: the second order is made, and copied from the first, but not followed
\* further (OneWorker.cfg follows it).
OneOrderLives == order[o2].state = "none"

Symmetry == Permutations(Jobs)
=============================================================================

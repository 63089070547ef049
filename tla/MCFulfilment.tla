---------------------------- MODULE MCFulfilment ----------------------------
(* Small instances of Fulfilment for TLC. *)
EXTENDS Fulfilment, TLC

Interchangeable ==
  {f @@ g : f \in Permutations(StatusRequest), g \in Permutations(Order)}
=============================================================================

---------------------------- MODULE MCBlockQueue ----------------------------
(* BlockQueue with an array of three cells, so that the indices turn and   *)
(* every cell is reused, and two consumers that compete for an item.       *)
EXTENDS BlockQueue, TLC

Symmetry == Permutations(Items) \cup Permutations(Consumers)
=============================================================================

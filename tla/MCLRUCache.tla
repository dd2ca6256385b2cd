----------------------------- MODULE MCLRUCache -----------------------------
(* LRUCache with two entries, three keys and a spare node, so that a freed *)
(* node and a new one differ or coincide.                                  *)
EXTENDS LRUHistory

Symmetry == Permutations(Keys) \cup Permutations(Vals) \cup Permutations(Nodes)
=============================================================================

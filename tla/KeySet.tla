------------------------------- MODULE KeySet -------------------------------
(* What the red-black tree promises to the ring: a set of keys to which one  *)
(* key at a time is added, or from which one is deleted.                     *)
CONSTANT Keys
VARIABLE keys

AddOrDelete ==
    LET old == keys
        new == keys'
    IN  \E k \in Keys : new \in {old \cup {k}, old \ {k}}

SetSpec == keys = {} /\ [][AddOrDelete]_keys
=============================================================================

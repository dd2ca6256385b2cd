------------------------------- MODULE LRUOps -------------------------------
(***************************************************************************)
(* The value a ThreadSafeLRUCache holds, and what its operations do to it. *)
(* The list between the two sentinels of the Doublelist is a sequence of   *)
(* entries, least recently used first (addLast() appends, removeFirst()    *)
(* removes the head); the unordered_map is the set of keys that occur in   *)
(* it.  LRUCache derives these operators from the pointers; CacheServer    *)
(* applies them to lru and lru_backup.                                     *)
(***************************************************************************)
EXTENDS Naturals, Sequences, SequencesExt

Entry(Keys, Vals) == [key : Keys, val : Vals, dirty : BOOLEAN]

NewEntry(k, v) == [key |-> k, val |-> v, dirty |-> FALSE]

(* hasKey() *)
HasKey(c, k) == \E i \in DOMAIN c : c[i].key = k

(* The cell map[k] points to. *)
At(c, k) == CHOOSE i \in DOMAIN c : c[i].key = k

(* deleteKey() of a key that is present *)
Without(c, k) == RemoveAt(c, At(c, k))

(* What set() removes before it inserts: the old entry of the key or, when *)
(* a new key meets a full cache, the least recently used entry.            *)
MakeRoom(c, k, cap) ==
    IF HasKey(c, k) THEN Without(c, k)
    ELSE IF Len(c) = cap THEN Tail(c) ELSE c

(* set() *)
SetKey(c, k, v, cap) == Append(MakeRoom(c, k, cap), NewEntry(k, v))

(* makeRecently(), for a key that is present *)
MakeRecently(c, k) == Append(Without(c, k), c[At(c, k)])

(* The value get() returns *)
ValueOf(c, k) == c[At(c, k)].val

(* set_dirty(), set_clean(): no effect on an absent key *)
Mark(c, k, d) == IF HasKey(c, k) THEN [c EXCEPT ![At(c, k)].dirty = d] ELSE c

(* is_dirty(): false for an absent key *)
IsDirty(c, k) == HasKey(c, k) /\ c[At(c, k)].dirty

(* lru_keys_oneshot() *)
KeysOneshot(c) == [i \in DOMAIN c |-> c[i].key]
=============================================================================

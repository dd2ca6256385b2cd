----------------------------- MODULE LRUHistory -----------------------------
(***************************************************************************)
(* The replacement policy against a reference that has no capacity: the    *)
(* keys in the order of their last use, and the value and mark each key    *)
(* was last given.  Both are computed from the calls alone; LRUCache is    *)
(* left as it is and the cache is compared with the reference.             *)
(***************************************************************************)
EXTENDS LRUCache, TLC

VARIABLES
    used,   \* every key that was set or read, least recently used first
    given   \* given[k]: <<>>, or <<value, dirty>> as an unbounded cache has them

HistoryInit == Init /\ used = <<>> /\ given = [k \in Keys |-> <<>>]

Use(k) == used' = Append(RemoveFirst(used, k), k)
Give(k, g) == given' = [given EXCEPT ![k] = g]
GiveMark(k, d) == Give(k, IF given[k] = <<>> THEN <<>> ELSE <<given[k][1], d>>)

HistoryNext ==
    \/ \E k \in Keys :
         \/ \E v \in Vals : SetBegin(k, v) /\ Use(k) /\ Give(k, <<v, FALSE>>)
         \/ Get(k) /\ Use(k) /\ UNCHANGED given
         \/ set_dirty(k) /\ GiveMark(k, TRUE) /\ UNCHANGED used
         \/ set_clean(k) /\ GiveMark(k, FALSE) /\ UNCHANGED used
         \/ (is_dirty(k) \/ hasKey(k)) /\ UNCHANGED <<used, given>>
    \/ (SetEnd \/ lru_keys_oneshot) /\ UNCHANGED <<used, given>>

HistorySpec == HistoryInit /\ [][HistoryNext]_<<vars, used, given>>

(* set() and get() implement least-recently-used replacement: the list     *)
(* holds exactly the Cap most recently used keys, in the order of use.     *)
HoldsMostRecent ==
    LET n == Len(used)
    IN  KeysOneshot(Entries) = SubSeq(used, IF n > Cap THEN n - Cap + 1 ELSE 1, n)

(* Moving a node to the tail, freeing it and using it again for another    *)
(* key never corrupts an entry: it holds the value of the last set() of    *)
(* its key, and is dirty exactly when set_dirty() was the last operation   *)
(* that writes the mark, set() included because it replaces the node.      *)
EntriesAreCurrent ==
    \A i \in DOMAIN Entries :
        <<Entries[i].val, Entries[i].dirty>> = given[Entries[i].key]

(* The cache is what the calls alone say it must be. *)
MatchesHistory == HoldsMostRecent /\ EntriesAreCurrent
=============================================================================

-------------------------------- MODULE LRU --------------------------------
(***************************************************************************)
(* What a ThreadSafeLRUCache promises: its operations take effect one at a *)
(* time (m_mutex) on a sequence of entries ordered by recency.  LRUCache,  *)
(* the pointer level, is shown to implement this module.                   *)
(***************************************************************************)
EXTENDS LRUOps

CONSTANTS
    Keys, Vals,
    Cap          \* int cap, 5 in CacheServer

VARIABLES
    cache,  \* the entries, least recently used first
    ret     \* what the last operation returned

lruVars == <<cache, ret>>

NoResult == [op |-> "none", res |-> <<>>]

LRUInit == cache = <<>> /\ ret = NoResult

Set(k, v) ==
    /\ cache' = SetKey(cache, k, v, Cap)
    /\ ret' = NoResult

(* "hasKey must be checked before": the callers are in CacheServer. *)
Get(k) ==
    /\ HasKey(cache, k)
    /\ cache' = MakeRecently(cache, k)
    /\ ret' = [op |-> "get", res |-> <<ValueOf(cache, k)>>]

SetDirty(k) == cache' = Mark(cache, k, TRUE) /\ ret' = NoResult
SetClean(k) == cache' = Mark(cache, k, FALSE) /\ ret' = NoResult

AskDirty(k) ==
    /\ ret' = [op |-> "is_dirty", res |-> <<IsDirty(cache, k)>>]
    /\ UNCHANGED cache

ListKeys ==
    /\ ret' = [op |-> "keys", res |-> KeysOneshot(cache)]
    /\ UNCHANGED cache

LRUNext ==
    \/ \E k \in Keys :
         \/ \E v \in Vals : Set(k, v)
         \/ Get(k) \/ SetDirty(k) \/ SetClean(k) \/ AskDirty(k)
    \/ ListKeys

LRUSpec == LRUInit /\ [][LRUNext]_lruVars
=============================================================================

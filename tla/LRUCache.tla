------------------------------ MODULE LRUCache ------------------------------
(***************************************************************************)
(* ThreadSafeLRUCache and its Doublelist at the level of pointers: nodes   *)
(* that are allocated and freed, next and prev links between two           *)
(* sentinels, the unordered_map from keys to nodes and the counter size_.  *)
(*                                                                         *)
(* Every operation but hasKey() runs under m_mutex and is one action, with *)
(* one exception: set() takes the old node out of the map and later puts   *)
(* the new one in, and hasKey(), which takes no lock, can read the map in  *)
(* between.  set() is therefore two actions, and pending is the set() that *)
(* holds m_mutex between them.                                             *)
(***************************************************************************)
EXTENDS LRUOps, FiniteSets

CONSTANTS
    Keys, Vals,
    Cap,          \* int cap
    Nodes,        \* the memory new LruNode can return
    head, tail,   \* the sentinels
    nullptr

ASSUME NodesAssumption ==
    /\ IsFiniteSet(Nodes) /\ Cardinality(Nodes) >= Cap
    /\ Cap \in Nat \ {0}
    /\ {head, tail, nullptr} \cap Nodes = {}
    /\ head # tail /\ nullptr \notin {head, tail}

VARIABLES
    map,      \* map[k]: a node, or nullptr when find(k) == end()
    node,     \* node[x]: the key, val and dirty fields
    next, prev,
    size_,
    live,     \* the nodes that are allocated
    pending,  \* <<>>, or <<k, v>>: set(k, v) between its two updates of map
    ret,      \* what the last call returned, hasKey() excepted
    found     \* the result of the last hasKey()

vars == <<map, node, next, prev, size_, live, pending, ret, found>>

Cells == Nodes \cup {head, tail}
NoResult == [op |-> "none", res |-> <<>>]

(* Freshly constructed, the two sentinels point to each other; the other   *)
(* links are uninitialised, here nullptr.                                  *)
Init ==
    /\ map = [k \in Keys |-> nullptr]
    /\ \E k \in Keys, v \in Vals : node = [x \in Nodes |-> NewEntry(k, v)]
    /\ next = [x \in Cells |-> IF x = head THEN tail ELSE nullptr]
    /\ prev = [x \in Cells |-> IF x = tail THEN head ELSE nullptr]
    /\ size_ = 0
    /\ live = {}
    /\ pending = <<>>
    /\ ret = NoResult
    /\ found = FALSE

-----------------------------------------------------------------------------
(* Doublelist, on a list l = [next, prev, size]                            *)

List == [next |-> next, prev |-> prev, size |-> size_]

SetList(l) == next' = l.next /\ prev' = l.prev /\ size_' = l.size

(* MUTANT: tail->prev is forgotten. *)
AddLastNoBack(l, x) ==
    LET last == l.prev[tail]
    IN  [next |-> [l.next EXCEPT ![x] = tail, ![last] = x],
         prev |-> [l.prev EXCEPT ![x] = last],
         size |-> l.size + 1]

addLast(l, x) ==
    LET last == l.prev[tail]
    IN  [next |-> [l.next EXCEPT ![x] = tail, ![last] = x],
         prev |-> [l.prev EXCEPT ![x] = last, ![tail] = x],
         size |-> l.size + 1]

remove(l, x) ==
    [next |-> [l.next EXCEPT ![l.prev[x]] = l.next[x]],
     prev |-> [l.prev EXCEPT ![l.next[x]] = l.prev[x]],
     size |-> l.size - 1]

-----------------------------------------------------------------------------
(* The operations under m_mutex                                            *)

Unlocked == pending = <<>>

(* set(), up to the insertion: deleteKey() or removeLeastRecently(). *)
SetBegin(k, v) ==
    /\ Unlocked
    /\ pending' = <<k, v>>
    /\ IF map[k] # nullptr
         THEN /\ SetList(remove(List, map[k]))
              /\ map' = [map EXCEPT ![k] = nullptr]
              /\ live' = live \ {map[k]}
         ELSE IF Cap = size_
                THEN LET first == next[head]
                     IN  /\ SetList(remove(List, first))
                         /\ map' = [map EXCEPT ![node[first].key] = nullptr]
                         /\ live' = live \ {first}
                ELSE UNCHANGED <<next, prev, size_, map, live>>
    /\ ret' = NoResult
    /\ UNCHANGED <<node, found>>

(* MUTANT: the constructor leaves the dirty mark of the reused memory. *)
SetEndKeepsMark ==
    /\ ~Unlocked
    /\ \E x \in Nodes \ live :
         /\ live' = live \cup {x}
         /\ node' = [node EXCEPT ![x].key = pending[1], ![x].val = pending[2]]
         /\ SetList(addLast(List, x))
         /\ map' = [map EXCEPT ![pending[1]] = x]
    /\ pending' = <<>>
    /\ UNCHANGED <<ret, found>>

(* set(): addRecently() and the end of the lock_guard. *)
SetEnd ==
    /\ ~Unlocked
    /\ \E x \in Nodes \ live :
         /\ live' = live \cup {x}
         /\ node' = [node EXCEPT ![x] = NewEntry(pending[1], pending[2])]
         /\ SetList(addLast(List, x))
         /\ map' = [map EXCEPT ![pending[1]] = x]
    /\ pending' = <<>>
    /\ UNCHANGED <<ret, found>>

(* MUTANT: makeRecently() is not called. *)
GetNoPromote(k) ==
    /\ Unlocked
    /\ map[k] # nullptr
    /\ ret' = [op |-> "get", res |-> <<node[map[k]].val>>]
    /\ UNCHANGED <<map, node, next, prev, size_, live, pending, found>>

(* get() of a key that is present *)
Get(k) ==
    /\ Unlocked
    /\ map[k] # nullptr
    /\ SetList(addLast(remove(List, map[k]), map[k]))
    /\ ret' = [op |-> "get", res |-> <<node[map[k]].val>>]
    /\ UNCHANGED <<map, node, live, pending, found>>

MarkNode(k, d) ==
    /\ Unlocked
    /\ node' = IF map[k] # nullptr THEN [node EXCEPT ![map[k]].dirty = d] ELSE node
    /\ ret' = NoResult
    /\ UNCHANGED <<map, next, prev, size_, live, pending, found>>

set_dirty(k) == MarkNode(k, TRUE)
set_clean(k) == MarkNode(k, FALSE)

is_dirty(k) ==
    /\ Unlocked
    /\ ret' = [op |-> "is_dirty", res |-> <<map[k] # nullptr /\ node[map[k]].dirty>>]
    /\ UNCHANGED <<map, node, next, prev, size_, live, pending, found>>

(* The nodes from x to the sentinel, in at most n steps along the links.   *)
Walk[n \in 0..Cardinality(Nodes) + 1] ==
    [x \in Cells \cup {nullptr} |->
       IF n = 0 \/ x \in {head, tail, nullptr} THEN <<>>
       ELSE <<x>> \o Walk[n - 1][next[x]]]

Chain == Walk[Cardinality(Nodes) + 1][next[head]]

lru_keys_oneshot ==
    /\ Unlocked
    /\ ret' = [op |-> "keys", res |-> [i \in DOMAIN Chain |-> node[Chain[i]].key]]
    /\ UNCHANGED <<map, node, next, prev, size_, live, pending, found>>

(* hasKey() reads the map without m_mutex: in the middle of a set(), when  *)
(* the unordered_map is being changed, find() may miss any key.            *)
hasKey(k) ==
    /\ found' \in {map[k] # nullptr} \cup (IF Unlocked THEN {} ELSE {FALSE})
    /\ UNCHANGED <<map, node, next, prev, size_, live, pending, ret>>

Next ==
    \/ \E k \in Keys :
         \/ \E v \in Vals : SetBegin(k, v)
         \/ Get(k) \/ set_dirty(k) \/ set_clean(k) \/ is_dirty(k) \/ hasKey(k)
    \/ SetEnd
    \/ lru_keys_oneshot

Spec == Init /\ [][Next]_vars

-----------------------------------------------------------------------------
(* Properties                                                              *)

TypeOK ==
    /\ map \in [Keys -> Nodes \cup {nullptr}]
    /\ node \in [Nodes -> Entry(Keys, Vals)]
    /\ next \in [Cells -> Cells \cup {nullptr}]
    /\ prev \in [Cells -> Cells \cup {nullptr}]
    /\ size_ \in 0..Cap
    /\ live \subseteq Nodes
    /\ pending \in {<<>>} \cup (Keys \X Vals)
    /\ found \in BOOLEAN

(* Between two operations, and in the middle of set(), the list is well    *)
(* typed and formed: following next from head meets every allocated node once and    *)
(* ends at tail, prev is the inverse of next, size_ is the length, no      *)
(* freed node is reachable from the list or the map, and the map leads     *)
(* from every key on the list to its node and to nothing else.             *)
ListMatchesMap ==
    /\ TypeOK
    /\ IsInjective(Chain) /\ ToSet(Chain) = live
    /\ size_ = Len(Chain)
    /\ LET ring == <<head>> \o Chain \o <<tail>>
       IN  \A i \in 1..Len(ring) - 1 :
             next[ring[i]] = ring[i + 1] /\ prev[ring[i + 1]] = ring[i]
    /\ \A k \in Keys :
         IF \E x \in live : node[x].key = k
           THEN map[k] \in live /\ node[map[k]].key = k
           ELSE map[k] = nullptr

(* The entries of the list; a set() in progress has already taken effect,  *)
(* because nothing but hasKey() can look at the cache before it ends.      *)
Entries ==
    LET l == [i \in DOMAIN Chain |-> node[Chain[i]]]
    IN  IF Unlocked THEN l ELSE Append(l, NewEntry(pending[1], pending[2]))

(* The pointer manipulation implements the sequence of entries ordered by  *)
(* recency.                                                                *)
Abstract == INSTANCE LRU WITH cache <- Entries
ImplementsLRU == Abstract!LRUSpec

(* A set() that overwrites a key does not make it disappear: a hasKey()    *)
(* that fails was asked about a key that the thread-safe cache does not    *)
(* hold.                                                                   *)
HasKeyIsAtomic ==
    [][\A k \in Keys : hasKey(k) /\ ~found' => ~HasKey(Entries, k)]_vars
=============================================================================

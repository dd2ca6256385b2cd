------------------------------- MODULE ConHash -------------------------------
(***************************************************************************)
(* The consistent hash ring: the wrapper class con_hash                    *)
(* (consistent_hash.h) over the library conhash (conhash/conhash.c,        *)
(* conhash/conhash_inter.c).                                               *)
(*                                                                         *)
(* A server is a node_s object on the heap and Replicas virtual nodes, at  *)
(* the positions the hash gives "<ip_port>-<replica>".  The red-black tree *)
(* of virtual nodes is abstracted to the function it represents, from a    *)
(* position to the node_s the virtual node points to; one step adds or     *)
(* removes one virtual node.  The hash (MD5 folded to a long) is an        *)
(* arbitrary function, chosen in Init: two virtual nodes may collide.      *)
(*                                                                         *)
(* What the pointers are is kept: a node_s is owned by the shared_ptr in   *)
(* nodes_map (and by a local one during a call), the tree holds raw        *)
(* pointers, and a cell that is no longer owned is given out again.        *)
(***************************************************************************)
EXTENDS Naturals, FiniteSets

CONSTANTS Servers,      \* "ip:port" of the cache servers
          Threads,      \* threads that change the ring
          Nodes,        \* heap cells a node_s may be allocated in
          Replicas,     \* virtual nodes of a server (32 in the code)
          MaxHash,      \* positions of the ring are 0..MaxHash
          ReAdd,        \* an address that is in the ring may be added again
          Nil           \* a null pointer, an empty entry

ASSUME ConHashAssumption ==
    /\ Replicas \in Nat \ {0}
    /\ MaxHash \in Nat
    /\ ReAdd \in BOOLEAN
    /\ Nil \notin Nodes \cup Servers \cup Threads

Positions == 0..MaxHash

VARIABLES
    cb_hashfunc,  \* conhash_s.cb_hashfunc on the strings "<ip_port>-<replica>"
    vnode_tree,   \* position -> the node_s its virtual node points to, or Nil
    ivnodes,      \* conhash_s.ivnodes, the number of virtual nodes
    nodes_map,    \* con_hash.nodes_map: address -> the node_s it owns, or Nil
    iden,         \* node_s.iden of every cell
    flag,         \* node_s.flag of every cell
    node_mutex,   \* the thread that holds con_hash.node_mutex, or Nil
    call          \* the call each thread is in

vars == <<cb_hashfunc, vnode_tree, ivnodes, nodes_map, iden, flag,
          node_mutex, call>>

\* The position of replica r of address s: the hash of "<s>-<r>".
HashAt(s, r) == cb_hashfunc[<<s, r>>]

\* A thread's locals: the operation, where it stands in it, the address, the
\* node_s of its local shared_ptr and the loop index of the replicas.
Idle == [op |-> "none", at |-> "idle", server |-> Nil, node |-> Nil, i |-> 0]

TypeOK ==
    /\ cb_hashfunc \in [Servers \X (0..Replicas - 1) -> Positions]
    /\ vnode_tree \in [Positions -> Nodes \cup {Nil}]
    /\ ivnodes \in Nat
    /\ nodes_map \in [Servers -> Nodes \cup {Nil}]
    /\ iden \in [Nodes -> Servers \cup {Nil}]
    /\ flag \in [Nodes -> SUBSET {"INIT", "IN"}]
    /\ node_mutex \in Threads \cup {Nil}
    /\ call \in [Threads -> [op : {"none", "add", "del"},
                             at : {"idle", "lock", "loop"},
                             server : Servers \cup {Nil},
                             node : Nodes \cup {Nil},
                             i : 0..Replicas]]

\* con_hash(): conhash_init with the default hash function.
Init ==
    /\ cb_hashfunc \in [Servers \X (0..Replicas - 1) -> Positions]
    /\ vnode_tree = [p \in Positions |-> Nil]
    /\ ivnodes = 0
    /\ nodes_map = [s \in Servers |-> Nil]
    /\ iden = [n \in Nodes |-> Nil]
    /\ flag = [n \in Nodes |-> {}]
    /\ node_mutex = Nil
    /\ call = [t \in Threads |-> Idle]

\* A node_s lives as long as a shared_ptr refers to it: the one in nodes_map
\* or the local of a call.
Alive(n) == \/ \E s \in Servers : nodes_map[s] = n
            \/ \E t \in Threads : call[t].node = n

-----------------------------------------------------------------------------
(***************************************************************************)
(* conhash_lookup                                                          *)
(***************************************************************************)

\* util_rbtree_lookup: the virtual node with the smallest position at or
\* after h, or the smallest of all when there is none.
util_rbtree_lookup(tree, h) ==
    LET used == {p \in Positions : tree[p] # Nil}
        after == {p \in used : p >= h}
        from == IF after # {} THEN after ELSE used
    IN  CHOOSE p \in from : \A q \in from : p <= q

\* The node of an object whose hash is h; Nil when the ring is empty.
conhash_lookup(h) ==
    IF ivnodes = 0 THEN Nil
    ELSE vnode_tree[util_rbtree_lookup(vnode_tree, h)]

\* The address the wrapper returns; Nil stands for the string "NULL".
conhash_get_CacheServer(h) ==
    IF conhash_lookup(h) = Nil THEN Nil ELSE iden[conhash_lookup(h)]

-----------------------------------------------------------------------------
(***************************************************************************)
(* conhash_add_CacheServer                                                 *)
(***************************************************************************)

\* make_shared and conhash_set_node, before the mutex is taken.  The
\* allocator may give out any cell nobody owns.
AddBegin(t, s) ==
    /\ call[t].at = "idle"
    /\ ReAdd \/ (nodes_map[s] = Nil /\ \A u \in Threads : call[u].server # s)
    /\ \E n \in Nodes :
         /\ ~Alive(n)
         /\ iden' = [iden EXCEPT ![n] = s]
         /\ flag' = [flag EXCEPT ![n] = {"INIT"}]
         /\ call' = [call EXCEPT ![t] = [op |-> "add", at |-> "lock",
                                         server |-> s, node |-> n, i |-> 0]]
    /\ UNCHANGED <<cb_hashfunc, vnode_tree, ivnodes, nodes_map, node_mutex>>

\* Takes the mutex and enters conhash_add_node.  A node that is not
\* initialised, or is in the ring, is refused without a virtual node added.
AddLock(t) ==
    /\ call[t].op = "add" /\ call[t].at = "lock"
    /\ node_mutex = Nil
    /\ node_mutex' = t
    /\ LET n == call[t].node
           ok == "INIT" \in flag[n] /\ "IN" \notin flag[n]
       IN  /\ flag' = IF ok THEN [flag EXCEPT ![n] = @ \cup {"IN"}] ELSE flag
           /\ call' = [call EXCEPT ![t].at = "loop",
                                   ![t].i = IF ok THEN 0 ELSE Replicas]
    /\ UNCHANGED <<cb_hashfunc, vnode_tree, ivnodes, nodes_map, iden>>

\* Plausible bug: the check for duplication is dropped.
AddReplicasNoCheck(t) ==
    /\ call[t].op = "add" /\ call[t].at = "loop"
    /\ call[t].i < Replicas
    /\ LET n == call[t].node
           p == HashAt(iden[n], call[t].i)
       IN  /\ vnode_tree' = [vnode_tree EXCEPT ![p] = n]
           /\ ivnodes' = ivnodes + 1
    /\ call' = [call EXCEPT ![t].i = @ + 1]
    /\ UNCHANGED <<cb_hashfunc, nodes_map, iden, flag, node_mutex>>

\* One turn of the loop of __conhash_add_replicas: a position that is taken
\* is left to the virtual node that has it.
AddReplicas(t) ==
    /\ call[t].op = "add" /\ call[t].at = "loop"
    /\ call[t].i < Replicas
    /\ LET n == call[t].node
           p == HashAt(iden[n], call[t].i)
       IN  IF vnode_tree[p] = Nil
           THEN /\ vnode_tree' = [vnode_tree EXCEPT ![p] = n]
                /\ ivnodes' = ivnodes + 1
           ELSE UNCHANGED <<vnode_tree, ivnodes>>
    /\ call' = [call EXCEPT ![t].i = @ + 1]
    /\ UNCHANGED <<cb_hashfunc, nodes_map, iden, flag, node_mutex>>

\* The node_s old, if any, has lost its last shared_ptr: what the cell holds
\* is undefined from here on.
Release(old) ==
    /\ iden' = [n \in Nodes |-> IF n = old THEN Nil ELSE iden[n]]
    /\ flag' = [n \in Nodes |-> IF n = old THEN {} ELSE flag[n]]

\* nodes_map[ip_port] = node: the node_s that was there, if any, loses its
\* last shared_ptr and is freed.  Then the mutex and the local are dropped.
AddEnd(t) ==
    /\ call[t].op = "add" /\ call[t].at = "loop"
    /\ call[t].i = Replicas
    /\ nodes_map' = [nodes_map EXCEPT ![call[t].server] = call[t].node]
    /\ node_mutex' = Nil
    /\ call' = [call EXCEPT ![t] = Idle]
    /\ Release(nodes_map[call[t].server])
    /\ UNCHANGED <<cb_hashfunc, vnode_tree, ivnodes>>

-----------------------------------------------------------------------------
(***************************************************************************)
(* conhash_del_CacheServer                                                 *)
(***************************************************************************)

\* nodes_map.count(ip_port), before the mutex is taken.
DelBegin(t, s) ==
    /\ call[t].at = "idle"
    /\ nodes_map[s] # Nil
    /\ call' = [call EXCEPT ![t] = [op |-> "del", at |-> "lock",
                                    server |-> s, node |-> Nil, i |-> 0]]
    /\ UNCHANGED <<cb_hashfunc, vnode_tree, ivnodes, nodes_map, iden, flag,
                   node_mutex>>

\* Takes the mutex, reads nodes_map again (null when another thread deleted
\* the address meanwhile) and enters conhash_del_node.
DelLock(t) ==
    /\ call[t].op = "del" /\ call[t].at = "lock"
    /\ node_mutex = Nil
    /\ node_mutex' = t
    /\ LET n == nodes_map[call[t].server]
           ok == n # Nil /\ {"INIT", "IN"} \subseteq flag[n]
       IN  /\ flag' = IF ok THEN [flag EXCEPT ![n] = @ \ {"IN"}] ELSE flag
           /\ call' = [call EXCEPT ![t].at = "loop", ![t].node = n,
                                   ![t].i = IF ok THEN 0 ELSE Replicas]
    /\ UNCHANGED <<cb_hashfunc, vnode_tree, ivnodes, nodes_map, iden>>

\* Plausible bugs: a virtual node is removed whoever it belongs to; the loop
\* stops one replica short.
DelReplicasAny(t) ==
    /\ call[t].op = "del" /\ call[t].at = "loop"
    /\ call[t].i < Replicas
    /\ LET p == HashAt(iden[call[t].node], call[t].i)
       IN  IF vnode_tree[p] # Nil
           THEN /\ vnode_tree' = [vnode_tree EXCEPT ![p] = Nil]
                /\ ivnodes' = ivnodes - 1
           ELSE UNCHANGED <<vnode_tree, ivnodes>>
    /\ call' = [call EXCEPT ![t].i = @ + 1]
    /\ UNCHANGED <<cb_hashfunc, nodes_map, iden, flag, node_mutex>>

DelReplicasShort(t) ==
    /\ call[t].op = "del" /\ call[t].at = "loop"
    /\ call[t].i < Replicas
    /\ LET n == call[t].node
           p == HashAt(iden[n], call[t].i)
       IN  IF vnode_tree[p] = n /\ call[t].i + 1 < Replicas
           THEN /\ vnode_tree' = [vnode_tree EXCEPT ![p] = Nil]
                /\ ivnodes' = ivnodes - 1
           ELSE UNCHANGED <<vnode_tree, ivnodes>>
    /\ call' = [call EXCEPT ![t].i = @ + 1]
    /\ UNCHANGED <<cb_hashfunc, nodes_map, iden, flag, node_mutex>>

\* One turn of the loop of __conhash_del_replicas: only a virtual node that
\* points to this very node_s is removed.
DelReplicas(t) ==
    /\ call[t].op = "del" /\ call[t].at = "loop"
    /\ call[t].i < Replicas
    /\ LET n == call[t].node
           p == HashAt(iden[n], call[t].i)
       IN  IF vnode_tree[p] = n
           THEN /\ vnode_tree' = [vnode_tree EXCEPT ![p] = Nil]
                /\ ivnodes' = ivnodes - 1
           ELSE UNCHANGED <<vnode_tree, ivnodes>>
    /\ call' = [call EXCEPT ![t].i = @ + 1]
    /\ UNCHANGED <<cb_hashfunc, nodes_map, iden, flag, node_mutex>>

\* nodes_map.erase, then the mutex and the local shared_ptr are dropped.
DelEnd(t) ==
    /\ call[t].op = "del" /\ call[t].at = "loop"
    /\ call[t].i = Replicas
    /\ nodes_map' = [nodes_map EXCEPT ![call[t].server] = Nil]
    /\ node_mutex' = Nil
    /\ call' = [call EXCEPT ![t] = Idle]
    /\ Release(call[t].node)
    /\ UNCHANGED <<cb_hashfunc, vnode_tree, ivnodes>>

\* updateHash: ~con_hash (conhash_fini frees every virtual node) and a new,
\* empty con_hash.
Rebuild ==
    /\ call = [t \in Threads |-> Idle]
    /\ vnode_tree' = [p \in Positions |-> Nil]
    /\ ivnodes' = 0
    /\ nodes_map' = [s \in Servers |-> Nil]
    /\ iden' = [n \in Nodes |-> Nil]
    /\ flag' = [n \in Nodes |-> {}]
    /\ UNCHANGED <<cb_hashfunc, node_mutex, call>>

Next ==
    \/ \E t \in Threads :
         \/ \E s \in Servers : AddBegin(t, s) \/ DelBegin(t, s)
         \/ AddLock(t) \/ AddReplicas(t) \/ AddEnd(t)
         \/ DelLock(t) \/ DelReplicas(t) \/ DelEnd(t)
    \/ Rebuild

Spec == Init /\ [][Next]_vars

-----------------------------------------------------------------------------
(***************************************************************************)
(* Properties                                                              *)
(***************************************************************************)

\* No virtual node dangles: the raw pointer vnode->node that conhash_lookup
\* returns refers to a node_s that is alive, whose address hashes to that
\* position; and once no call is under way it is the node nodes_map owns.
VnodesAreOwned ==
    \A p \in Positions : vnode_tree[p] # Nil =>
        LET n == vnode_tree[p]
        IN  /\ Alive(n)
            /\ iden[n] \in Servers
            /\ \E r \in 0..Replicas - 1 : HashAt(iden[n], r) = p
            /\ node_mutex = Nil => nodes_map[iden[n]] = n

\* conhash_lookup trusts ivnodes to know an empty ring: it is the number of
\* virtual nodes in the tree, through colliding replicas and deletions.
CountMatchesTree ==
    ivnodes = Cardinality({p \in Positions : vnode_tree[p] # Nil})

\* Every replica of a server in the ring has its position occupied, unless
\* the position collides with another server's: what a lookup may rely on.
MembersHaveTheirVnodes ==
    node_mutex = Nil =>
      \A s \in Servers : nodes_map[s] # Nil =>
        \A r \in 0..Replicas - 1 :
          \/ vnode_tree[HashAt(s, r)] = nodes_map[s]
          \/ \E u \in Servers \ {s}, q \in 0..Replicas - 1 :
                HashAt(u, q) = HashAt(s, r)

\* Servers and virtual nodes match: none is left over when a server goes, and
\* none is missing while it stays, whatever collides.
VnodesMatchMembers == TypeOK /\ VnodesAreOwned /\ MembersHaveTheirVnodes

\* What makes the hash consistent: a step of adding a server moves keys only
\* to that server, a step of deleting one moves only the keys it had.
OnlyItsKeysMove ==
    [][\A h \in Positions :
         LET before == conhash_get_CacheServer(h)
             after == conhash_get_CacheServer(h)'
         IN  before # after =>
               \/ \E t \in Threads : call[t].at = "loop" /\
                    \/ call[t].op = "add" /\ after = call[t].server
                    \/ call[t].op = "del" /\ before = call[t].server
               \/ Rebuild]_vars
=============================================================================

----------------------------- MODULE ConHashProofs -----------------------------
(***************************************************************************)
(* The ring of ConHash when an address that is in the ring is not added    *)
(* again: for any number of servers, threads, heap cells, replicas and     *)
(* positions, and whatever the hash.                                       *)
(***************************************************************************)
EXTENDS ConHash, FiniteSetTheorems, TLAPS

(* The replicas of a server *)
Reps == 0..Replicas - 1

(* The positions that hold a virtual node *)
Used == {p \in Positions : vnode_tree[p] # Nil}

(* A thread that adds an address, one that deletes it *)
Adds(t, s) == call[t].op = "add" /\ call[t].server = s
InLoop(t) == call[t].at = "loop"

(* A call has an operation, and its locals are those of that operation *)
CallOK(t) ==
    /\ (call[t].at = "idle") <=> (call[t].op = "none")
    /\ call[t].op = "none" => call[t].server = Nil /\ call[t].node = Nil
    /\ call[t].op # "none" => call[t].server \in Servers

(* node_mutex is held by the thread in a loop *)
MutexHeld == \A t \in Threads : InLoop(t) <=> node_mutex = t

(* An address that is being added is not in the ring, and nobody else      *)
(* adds or deletes it.                                                     *)
AddsAlone ==
    \A t \in Threads, s \in Servers : Adds(t, s) =>
        /\ nodes_map[s] = Nil
        /\ \A u \in Threads \ {t} : call[u].server # s

(* The node_s of an adding thread is its own, with its address *)
AddsNode(t) ==
    call[t].op = "add" =>
        /\ call[t].node \in Nodes
        /\ iden[call[t].node] = call[t].server
        /\ flag[call[t].node] = IF InLoop(t) THEN {"INIT", "IN"} ELSE {"INIT"}
        /\ \A s \in Servers : nodes_map[s] # call[t].node
        /\ \A u \in Threads \ {t} : call[u].node # call[t].node

(* A deleting thread in its loop works on the node of its address, as long *)
(* as there is one, and has removed the virtual nodes of the turns it made *)
DelsNode(t) ==
    call[t].op = "del" =>
        IF InLoop(t)
          THEN /\ call[t].node = nodes_map[call[t].server]
               /\ call[t].node = Nil => call[t].i = Replicas
               /\ call[t].node # Nil =>
                    \A r \in Reps : r < call[t].i =>
                       vnode_tree[HashAt(call[t].server, r)] # call[t].node
          ELSE call[t].node = Nil

(* A server is being deleted, by the thread that holds the mutex *)
BeingDeleted(s) ==
    \E t \in Threads : call[t].op = "del" /\ InLoop(t) /\ call[t].server = s

(* The nodes of the map are distinct, each has its address *)
MapOK ==
    \A s \in Servers : nodes_map[s] # Nil =>
        /\ iden[nodes_map[s]] = s
        /\ ~BeingDeleted(s) => flag[nodes_map[s]] = {"INIT", "IN"}
        /\ \A u \in Servers \ {s} : nodes_map[u] # nodes_map[s]

(* A virtual node of server s, which is in the map or being added *)
OfServer(n, s) ==
    \/ nodes_map[s] = n
    \/ \E t \in Threads : Adds(t, s) /\ InLoop(t) /\ call[t].node = n

(* Every virtual node is at a position of its server *)
TreeOK ==
    \A p \in Positions : vnode_tree[p] # Nil =>
        \E s \in Servers : /\ OfServer(vnode_tree[p], s)
                           /\ \E r \in Reps : HashAt(s, r) = p

(* Replica r of server s has its virtual node, or collides *)
Placed(n, s, r) ==
    \/ vnode_tree[HashAt(s, r)] = n
    \/ \E u \in Servers \ {s}, q \in Reps : HashAt(u, q) = HashAt(s, r)

(* Every replica of the map is placed, and those of the turns made so far *)
AllPlaced ==
    /\ \A s \in Servers : nodes_map[s] # Nil /\ ~BeingDeleted(s) =>
          \A r \in Reps : Placed(nodes_map[s], s, r)
    /\ \A t \in Threads : call[t].op = "add" /\ InLoop(t) =>
          \A r \in Reps : r < call[t].i => Placed(call[t].node, call[t].server, r)

Calls == \A t \in Threads : CallOK(t) /\ AddsNode(t) /\ DelsNode(t)

Inv ==
    /\ TypeOK /\ MutexHeld /\ Calls /\ AddsAlone
    /\ MapOK /\ TreeOK /\ AllPlaced /\ CountMatchesTree

-----------------------------------------------------------------------------
(* The records of the calls *)
CallType == [op : {"none", "add", "del"}, at : {"idle", "lock", "loop"},
             server : Servers \cup {Nil}, node : Nodes \cup {Nil}, i : 0..Replicas]

(* What a step of thread t makes of its locals; the others keep theirs *)
CallIs(t, op, at, server, node, i) ==
    /\ call' \in [Threads -> CallType]
    /\ call'[t].op = op /\ call'[t].at = at /\ call'[t].server = server
    /\ call'[t].node = node /\ call'[t].i = i
    /\ \A u \in Threads \ {t} : call'[u] = call[u]

(* A call that is replaced as a whole *)
LEMMA CallSet ==
  ASSUME TypeOK, NEW t \in Threads,
         NEW op \in {"none", "add", "del"}, NEW at \in {"idle", "lock", "loop"},
         NEW s \in Servers \cup {Nil}, NEW n \in Nodes \cup {Nil}, NEW i \in 0..Replicas,
         call' = [call EXCEPT ![t] = [op |-> op, at |-> at, server |-> s, node |-> n, i |-> i]]
  PROVE  CallIs(t, op, at, s, n, i)
BY DEF TypeOK, CallIs, CallType

(* A call whose label, node and index change *)
LEMMA CallStep ==
  ASSUME TypeOK, NEW t \in Threads,
         NEW at \in {"idle", "lock", "loop"}, NEW n \in Nodes \cup {Nil}, NEW i \in 0..Replicas,
         call' = [call EXCEPT ![t].at = at, ![t].node = n, ![t].i = i]
  PROVE  CallIs(t, call[t].op, at, call[t].server, n, i)
<1>1. call \in [Threads -> CallType] BY DEF TypeOK, CallType
<1>2. call[t] \in CallType BY <1>1
<1>3. /\ call'[t] = [[[call[t] EXCEPT !.at = at] EXCEPT !.node = n] EXCEPT !.i = i]
      /\ \A u \in Threads \ {t} : call'[u] = call[u]
      /\ call' = [u \in Threads |-> call'[u]]
  BY <1>1
<1>4. /\ call'[t].op = call[t].op /\ call'[t].at = at /\ call'[t].server = call[t].server
      /\ call'[t].node = n /\ call'[t].i = i
  BY ONLY <1>2, <1>3 DEF CallType
<1>5. call'[t] \in CallType BY <1>2, <1>3 DEF CallType
<1>. QED BY <1>1, <1>3, <1>4, <1>5 DEF CallIs

(* A call whose label and index change *)
LEMMA CallEnter ==
  ASSUME TypeOK, NEW t \in Threads,
         NEW at \in {"idle", "lock", "loop"}, NEW i \in 0..Replicas,
         call' = [call EXCEPT ![t].at = at, ![t].i = i]
  PROVE  CallIs(t, call[t].op, at, call[t].server, call[t].node, i)
<1>1. call \in [Threads -> CallType] BY DEF TypeOK, CallType
<1>2. call[t] \in CallType BY <1>1
<1>3. /\ call'[t] = [[call[t] EXCEPT !.at = at] EXCEPT !.i = i]
      /\ \A u \in Threads \ {t} : call'[u] = call[u]
      /\ call' = [u \in Threads |-> call'[u]]
  BY <1>1
<1>4. /\ call'[t].op = call[t].op /\ call'[t].at = at /\ call'[t].server = call[t].server
      /\ call'[t].node = call[t].node /\ call'[t].i = i
  BY ONLY <1>2, <1>3 DEF CallType
<1>5. call'[t] \in CallType BY <1>2, <1>3 DEF CallType
<1>. QED BY <1>1, <1>3, <1>4, <1>5 DEF CallIs

(* One more turn of a loop *)
LEMMA CallTurn ==
  ASSUME TypeOK, NEW t \in Threads, call[t].i < Replicas,
         call' = [call EXCEPT ![t].i = @ + 1]
  PROVE  CallIs(t, call[t].op, call[t].at, call[t].server, call[t].node, call[t].i + 1)
<1>1. call \in [Threads -> CallType] BY DEF TypeOK, CallType
<1>2. call[t] \in CallType BY <1>1
<1>3. /\ call'[t] = [call[t] EXCEPT !.i = call[t].i + 1]
      /\ \A u \in Threads \ {t} : call'[u] = call[u]
      /\ call' = [u \in Threads |-> call'[u]]
  BY <1>1
<1>4. /\ call'[t].op = call[t].op /\ call'[t].at = call[t].at /\ call'[t].server = call[t].server
      /\ call'[t].node = call[t].node /\ call'[t].i = call[t].i + 1
  BY ONLY <1>2, <1>3 DEF CallType
<1>5. call[t].i + 1 \in 0..Replicas
  BY <1>2, ConHashAssumption DEF CallType, ConHashAssumption
<1>6. call'[t] \in CallType BY <1>2, <1>3, <1>5 DEF CallType
<1>. QED BY <1>1, <1>3, <1>4, <1>6 DEF CallIs

-----------------------------------------------------------------------------
(* The hash of a virtual node's string is a position, and never changes *)
LEMMA HashType ==
  TypeOK => \A s \in Servers, r \in Reps : HashAt(s, r) \in Positions
BY DEF TypeOK, HashAt, Reps

(* The hash function of a ring is never replaced *)
LEMMA SameHash ==
  ASSUME UNCHANGED cb_hashfunc
  PROVE  \A s, r : HashAt(s, r)' = HashAt(s, r)
<1>. SUFFICES ASSUME NEW s, NEW r PROVE HashAt(s, r)' = HashAt(s, r)
  OBVIOUS
<1>. QED BY DEF HashAt

(* What holds of a tree that does not change *)
LEMMA PlacedKept ==
  ASSUME UNCHANGED <<cb_hashfunc, vnode_tree>>, NEW n, NEW s, NEW r, Placed(n, s, r)
  PROVE  Placed(n, s, r)'
BY SameHash DEF Placed

(* A virtual node stays with its server as long as the tree and the owners do *)
LEMMA TreeKept ==
  ASSUME TypeOK, TreeOK, UNCHANGED <<cb_hashfunc, vnode_tree>>,
         \A s \in Servers, n \in Nodes : OfServer(n, s) => OfServer(n, s)'
  PROVE  TreeOK'
<1>. SUFFICES ASSUME NEW p \in Positions, vnode_tree[p] # Nil
     PROVE  \E s \in Servers : /\ OfServer(vnode_tree[p], s)'
                              /\ \E r \in Reps : HashAt(s, r)' = p
  BY DEF TreeOK
<1>1. PICK s \in Servers, r \in Reps : OfServer(vnode_tree[p], s) /\ HashAt(s, r) = p
  BY DEF TreeOK
<1>2. vnode_tree[p] \in Nodes BY DEF TypeOK
<1>. QED BY <1>1, <1>2, SameHash

-----------------------------------------------------------------------------
(* Init and every action keep the invariant.  make_shared gives the thread a
   cell nobody owns, so no virtual node points to it. *)
LEMMA AddBeginInv ==
  ASSUME Inv, ReAdd = FALSE, NEW t \in Threads, NEW s \in Servers, AddBegin(t, s)
  PROVE  Inv'
<1>1. TypeOK BY DEF Inv
<1>2. PICK n \in Nodes : /\ ~Alive(n)
                         /\ iden' = [iden EXCEPT ![n] = s]
                         /\ flag' = [flag EXCEPT ![n] = {"INIT"}]
                         /\ call' = [call EXCEPT ![t] = [op |-> "add", at |-> "lock",
                                                 server |-> s, node |-> n, i |-> 0]]
  BY DEF AddBegin
<1>3. CallIs(t, "add", "lock", s, n, 0)
  BY <1>1, <1>2, CallSet, ConHashAssumption, 0 \in 0..Replicas DEF ConHashAssumption
<1>. /\ call[t].at = "idle" /\ nodes_map[s] = Nil
     /\ \A u \in Threads : call[u].server # s
     /\ UNCHANGED <<cb_hashfunc, vnode_tree, ivnodes, nodes_map, node_mutex>>
  BY DEF AddBegin
<1>4. TypeOK' BY <1>1, <1>2, <1>3 DEF TypeOK, CallIs, CallType
<1>5. MutexHeld' BY <1>3 DEF Inv, MutexHeld, InLoop, CallIs
<1>6. Calls'
  <2>. SUFFICES ASSUME NEW u \in Threads PROVE CallOK(u)' /\ AddsNode(u)' /\ DelsNode(u)'
    BY DEF Calls
  <2>1. CallOK(u)' BY <1>3, ConHashAssumption DEF Inv, Calls, CallOK, CallIs
  <2>2. AddsNode(u)' BY <1>1, <1>2, <1>3, ConHashAssumption
          DEF Inv, Calls, AddsNode, CallOK, InLoop, CallIs, Alive, TypeOK
  <2>3. DelsNode(u)' BY <1>3, SameHash DEF Inv, Calls, DelsNode, InLoop, CallIs
  <2>. QED BY <2>1, <2>2, <2>3
<1>7. AddsAlone' BY <1>3 DEF Inv, AddsAlone, Adds, CallIs
<1>8. MapOK'
  <2>1. \A v \in Servers : BeingDeleted(v)' <=> BeingDeleted(v)
    BY <1>3 DEF BeingDeleted, InLoop, CallIs
  <2>. QED BY <1>1, <1>2, <2>1 DEF Inv, MapOK, Alive, TypeOK
<1>9. TreeOK'
  <2>1. \A v \in Servers, m \in Nodes : OfServer(m, v) => OfServer(m, v)'
    BY <1>3 DEF OfServer, Adds, InLoop, CallIs
  <2>. QED BY <1>1, <2>1, TreeKept DEF Inv
<1>10. AllPlaced'
  <2>1. \A v \in Servers : BeingDeleted(v)' <=> BeingDeleted(v)
    BY <1>3 DEF BeingDeleted, InLoop, CallIs
  <2>2. \A m, v, r : Placed(m, v, r) => Placed(m, v, r)'
    BY PlacedKept
  <2>. QED BY <1>3, <2>1, <2>2 DEF Inv, AllPlaced, InLoop, CallIs
<1>11. CountMatchesTree' BY DEF Inv, CountMatchesTree
<1>. QED BY <1>4, <1>5, <1>6, <1>7, <1>8, <1>9, <1>10, <1>11 DEF Inv

(* The node_s a thread adds is INIT and not IN: conhash_add_node takes it *)
LEMMA AddLockInv ==
  ASSUME Inv, NEW t \in Threads, AddLock(t)
  PROVE  Inv'
<1>1. TypeOK BY DEF Inv
<1>. DEFINE n == call[t].node
<1>2. /\ call[t].op = "add" /\ ~InLoop(t) /\ node_mutex = Nil /\ node_mutex' = t
      /\ UNCHANGED <<cb_hashfunc, vnode_tree, ivnodes, nodes_map, iden>>
  BY DEF AddLock, InLoop
<1>3. /\ n \in Nodes /\ flag[n] = {"INIT"} /\ \A u \in Threads \ {t} : call[u].node # n
      /\ \A s \in Servers : nodes_map[s] # n
  BY <1>2 DEF Inv, Calls, AddsNode
<1>4. flag' = [flag EXCEPT ![n] = @ \cup {"IN"}]
  BY <1>3 DEF AddLock
<1>5. call' = [call EXCEPT ![t].at = "loop", ![t].i = 0]
  BY <1>3 DEF AddLock
<1>6. CallIs(t, "add", "loop", call[t].server, n, 0)
  BY <1>1, <1>2, <1>5, CallEnter, ConHashAssumption, 0 \in 0..Replicas DEF ConHashAssumption
<1>. HIDE DEF n
<1>7. flag'[n] = {"INIT", "IN"} /\ \A m \in Nodes \ {n} : flag'[m] = flag[m]
  BY <1>1, <1>3, <1>4 DEF TypeOK
<1>8. TypeOK' BY <1>1, <1>2, <1>3, <1>4, <1>6 DEF TypeOK, CallIs, CallType
<1>9. MutexHeld' BY <1>1, <1>2, <1>6, ConHashAssumption
         DEF Inv, MutexHeld, InLoop, CallIs, ConHashAssumption
<1>10. Calls'
  <2>. SUFFICES ASSUME NEW u \in Threads PROVE CallOK(u)' /\ AddsNode(u)' /\ DelsNode(u)'
    BY DEF Calls
  <2>1. CallOK(u)' BY <1>2, <1>6 DEF Inv, Calls, CallOK, CallIs
  <2>2. AddsNode(u)'
    <3>1. CASE u = t
      BY <3>1, <1>2, <1>3, <1>6, <1>7 DEF Inv, Calls, AddsNode, InLoop, CallIs, n
    <3>2. CASE u # t
      <4>1. AddsNode(u) /\ call'[u] = call[u] BY <3>2, <1>6 DEF Inv, Calls, CallIs
      <4>2. \A v \in Threads : call'[v].node = call[v].node BY <1>6 DEF CallIs, n
      <4>. QED BY <1>2, <1>3, <1>7, <3>2, <4>1, <4>2 DEF AddsNode, InLoop
    <3>. QED BY <3>1, <3>2
  <2>3. DelsNode(u)' BY <1>2, <1>6, SameHash DEF Inv, Calls, DelsNode, InLoop, CallIs
  <2>. QED BY <2>1, <2>2, <2>3
<1>11. AddsAlone' BY <1>2, <1>6 DEF Inv, AddsAlone, Adds, CallIs
<1>12. \A s \in Servers : BeingDeleted(s)' <=> BeingDeleted(s)
  BY <1>2, <1>6 DEF BeingDeleted, InLoop, CallIs
<1>13. MapOK' BY <1>1, <1>2, <1>3, <1>7, <1>12 DEF Inv, MapOK, TypeOK
<1>14. TreeOK'
  <2>1. \A s \in Servers, m \in Nodes : OfServer(m, s) => OfServer(m, s)'
    BY <1>2, <1>6 DEF OfServer, Adds, InLoop, CallIs
  <2>. QED BY <1>1, <1>2, <2>1, TreeKept DEF Inv
<1>15. AllPlaced'
  <2>1. \A m, s, r : Placed(m, s, r) => Placed(m, s, r)'
    BY <1>2, PlacedKept
  <2>. QED BY <1>2, <1>6, <1>12, <2>1 DEF Inv, AllPlaced, InLoop, CallIs, Reps
<1>16. CountMatchesTree' BY <1>2 DEF Inv, CountMatchesTree
<1>. QED BY <1>8, <1>9, <1>10, <1>11, <1>13, <1>14, <1>15, <1>16 DEF Inv

(* One virtual node more, or less, in the tree *)
LEMMA CountAdded ==
  ASSUME TypeOK, CountMatchesTree, NEW p \in Positions, NEW n \in Nodes,
         vnode_tree[p] = Nil, vnode_tree' = [vnode_tree EXCEPT ![p] = n],
         ivnodes' = ivnodes + 1
  PROVE  CountMatchesTree'
<1>. DEFINE U == {q \in Positions : vnode_tree[q] # Nil}
<1>1. IsFiniteSet(Positions)
  BY FS_Interval, ConHashAssumption DEF Positions, ConHashAssumption
<1>2. IsFiniteSet(U) BY <1>1, FS_Subset
<1>3. {q \in Positions : vnode_tree'[q] # Nil} = U \cup {p}
  BY ConHashAssumption DEF TypeOK, ConHashAssumption
<1>4. p \notin U OBVIOUS
<1>5. Cardinality(U \cup {p}) = Cardinality(U) + 1 BY <1>2, <1>4, FS_AddElement
<1>. QED BY <1>3, <1>5 DEF CountMatchesTree

(* ... and ivnodes is not 0 when one goes: the decrement never wraps *)
LEMMA CountRemoved ==
  ASSUME TypeOK, CountMatchesTree, NEW p \in Positions,
         vnode_tree[p] # Nil, vnode_tree' = [vnode_tree EXCEPT ![p] = Nil],
         ivnodes' = ivnodes - 1
  PROVE  CountMatchesTree' /\ ivnodes > 0
<1>. DEFINE U == {q \in Positions : vnode_tree[q] # Nil}
<1>1. IsFiniteSet(Positions)
  BY FS_Interval, ConHashAssumption DEF Positions, ConHashAssumption
<1>2. IsFiniteSet(U) BY <1>1, FS_Subset
<1>3. {q \in Positions : vnode_tree'[q] # Nil} = U \ {p}
  BY ConHashAssumption DEF TypeOK, ConHashAssumption
<1>4. p \in U OBVIOUS
<1>5. Cardinality(U \ {p}) = Cardinality(U) - 1 BY <1>2, <1>4, FS_RemoveElement
<1>6. Cardinality(U) \in Nat /\ Cardinality(U \ {p}) \in Nat
  BY <1>2, FS_CardinalityType, FS_RemoveElement
<1>. QED BY <1>3, <1>5, <1>6 DEF CountMatchesTree

(* A deletion is in its loop only when its thread has the mutex *)
LEMMA NobodyDeletes ==
  ASSUME Inv, NEW t \in Threads, call[t].op = "add", InLoop(t)
  PROVE  /\ \A s \in Servers : ~BeingDeleted(s)
         /\ \A u \in Threads \ {t} : ~InLoop(u)
BY DEF Inv, MutexHeld, BeingDeleted

(* A position that is taken belongs to another server, or to this one already *)
LEMMA AddReplicasInv ==
  ASSUME Inv, NEW t \in Threads, AddReplicas(t)
  PROVE  Inv'
<1>1. TypeOK BY DEF Inv
<1>2. /\ call[t].op = "add" /\ call[t].at = "loop" /\ call[t].i < Replicas
      /\ UNCHANGED <<cb_hashfunc, nodes_map, iden, flag, node_mutex>>
      /\ call' = [call EXCEPT ![t].i = @ + 1]
  BY DEF AddReplicas
<1>3. call[t].node \in Nodes /\ call[t].server \in Servers /\ call[t].i \in Reps
  BY <1>1, <1>2, ConHashAssumption DEF Inv, Calls, CallOK, AddsNode, Reps, TypeOK, ConHashAssumption
<1>4. PICK n \in Nodes, s \in Servers, i \in Reps :
        n = call[t].node /\ s = call[t].server /\ i = call[t].i
  BY <1>3
<1>5. HashAt(s, i) \in Positions BY <1>1, HashType
<1>6. PICK p \in Positions : p = HashAt(s, i) BY <1>5
<1>7. iden[n] = s /\ i \in Int /\ n # Nil /\ nodes_map[s] = Nil
  BY <1>4, <1>2, ConHashAssumption
  DEF Inv, Calls, AddsNode, AddsAlone, Adds, Reps, ConHashAssumption
<1>8. CallIs(t, "add", "loop", s, n, i + 1) BY <1>1, <1>2, <1>4, CallTurn
<1>9. \/ /\ vnode_tree[p] = Nil /\ vnode_tree' = [vnode_tree EXCEPT ![p] = n]
         /\ ivnodes' = ivnodes + 1
      \/ vnode_tree[p] # Nil /\ UNCHANGED <<vnode_tree, ivnodes>>
  BY <1>7, <1>6, <1>4 DEF AddReplicas
<1>10. OfServer(n, s) BY <1>2, <1>4 DEF OfServer, Adds, InLoop
<1>11. /\ \A u \in Servers : ~BeingDeleted(u)
      /\ \A u \in Threads \ {t} : call[u].at # "loop"
  BY <1>2, NobodyDeletes DEF InLoop
<1>12. TypeOK' BY <1>1, <1>2, <1>7, <1>8, <1>9 DEF TypeOK, CallIs, CallType
<1>13. MutexHeld' BY <1>2, <1>8 DEF Inv, MutexHeld, InLoop, CallIs
<1>14. /\ \A u \in Threads : /\ call'[u].node = call[u].node /\ call'[u].op = call[u].op
                             /\ call'[u].server = call[u].server /\ call'[u].at = call[u].at
  BY <1>2, <1>8, <1>4 DEF CallIs
<1>15. Calls'
  <2>. SUFFICES ASSUME NEW u \in Threads PROVE CallOK(u)' /\ AddsNode(u)' /\ DelsNode(u)'
    BY DEF Calls
  <2>1. CallOK(u) /\ AddsNode(u) /\ DelsNode(u) BY DEF Inv, Calls
  <2>2. CallOK(u)' BY <2>1, <1>14 DEF CallOK
  <2>3. AddsNode(u)' BY <2>1, <1>2, <1>14 DEF AddsNode, InLoop
  <2>4. DelsNode(u)' BY <2>1, <1>2, <1>11, <1>14 DEF DelsNode, InLoop
  <2>. QED BY <2>2, <2>3, <2>4
<1>16. AddsAlone' BY <1>2, <1>14 DEF Inv, AddsAlone, Adds
<1>17. \A u \in Servers : ~BeingDeleted(u)'
  BY <1>11, <1>14 DEF BeingDeleted, InLoop
<1>18. MapOK' BY <1>2, <1>11, <1>17 DEF Inv, MapOK
<1>19. \A m, u : OfServer(m, u)' <=> OfServer(m, u)
  BY <1>2, <1>14 DEF OfServer, Adds, InLoop
<1>20. \A q \in Positions : vnode_tree'[q] = vnode_tree[q] \/ (q = p /\ vnode_tree'[q] = n)
  BY <1>1, <1>9 DEF TypeOK
<1>21. \A q \in Positions : vnode_tree[q] # Nil => vnode_tree'[q] = vnode_tree[q]
  BY <1>1, <1>9 DEF TypeOK
<1>22. TreeOK'
  <2>. SUFFICES ASSUME NEW q \in Positions, NEW m, m = vnode_tree'[q], m # Nil
       PROVE  \E u \in Servers : OfServer(m, u)' /\ \E r \in Reps : HashAt(u, r)' = q
    BY DEF TreeOK
  <2>1. CASE m = vnode_tree[q]
    <3>1. PICK u \in Servers, r \in Reps : OfServer(m, u) /\ HashAt(u, r) = q
      BY <2>1 DEF Inv, TreeOK
    <3>. QED BY <1>2, <1>19, <3>1, SameHash
  <2>2. CASE q = p /\ m = n
    <3>1. OfServer(n, s)' BY <1>10, <1>19
    <3>2. HashAt(s, i)' = q BY <1>2, <1>6, <2>2, SameHash
    <3>. QED BY <2>2, <3>1, <3>2
  <2>. QED BY <1>20, <2>1, <2>2
<1>23. \A m \in Nodes, u \in Servers, r \in Reps : Placed(m, u, r) => Placed(m, u, r)'
  <2>. SUFFICES ASSUME NEW m \in Nodes, NEW u \in Servers, NEW r \in Reps, Placed(m, u, r)
       PROVE Placed(m, u, r)'
    OBVIOUS
  <2>1. HashAt(u, r) \in Positions BY <1>1, HashType
  <2>2. m # Nil BY ConHashAssumption DEF ConHashAssumption
  <2>. QED BY <1>2, <1>21, <2>1, <2>2, SameHash DEF Placed
<1>24. Placed(n, s, i)'
  <2>1. CASE vnode_tree[p] = Nil
    BY <1>1, <1>2, <1>6, <1>9, <2>1, SameHash DEF Placed, TypeOK
  <2>2. CASE vnode_tree[p] # Nil
    <3>1. PICK u \in Servers, r \in Reps : OfServer(vnode_tree[p], u) /\ HashAt(u, r) = p
      BY <1>6, <2>2 DEF Inv, TreeOK
    <3>2. CASE u # s
      BY <1>2, <1>6, <3>1, <3>2, SameHash DEF Placed
    <3>3. CASE u = s
      <4>1. vnode_tree[p] = n
        BY <1>7, <1>11, <1>4, <2>2, <3>1, <3>3 DEF OfServer, InLoop
      <4>. QED BY <1>2, <1>6, <1>9, <2>2, <4>1, SameHash DEF Placed
    <3>. QED BY <3>2, <3>3
  <2>. QED BY <2>1, <2>2
<1>25. AllPlaced'
  <2>1. ASSUME NEW u \in Servers, nodes_map'[u] # Nil, NEW r \in Reps
        PROVE  Placed(nodes_map[u], u, r)'
    <3>1. nodes_map[u] \in Nodes BY <1>1, <1>2, <2>1 DEF TypeOK
    <3>. QED BY <1>2, <1>11, <1>23, <2>1, <3>1 DEF Inv, AllPlaced
  <2>2. ASSUME NEW u \in Threads, call'[u].op = "add", InLoop(u)', NEW r \in Reps, r < call'[u].i
        PROVE  Placed(call[u].node, call[u].server, r)'
    <3>1. u = t BY <1>11, <1>14, <2>2 DEF InLoop
    <3>2. call'[u].node = n /\ call'[u].server = s /\ call'[u].i = i + 1
      BY <1>8, <3>1 DEF CallIs
    <3>3. CASE r = i BY <1>24, <3>2, <3>3
    <3>4. CASE r < i
      <4>1. Placed(n, s, r) BY <1>2, <1>4, <3>4 DEF Inv, AllPlaced, InLoop
      <4>. QED BY <1>7, <1>23, <3>2, <4>1
    <3>. QED BY <1>7, <2>2, <3>2, <3>3, <3>4, ConHashAssumption DEF Reps, ConHashAssumption
  <2>. QED BY <1>2, <2>1, <2>2 DEF AllPlaced
<1>26. CountMatchesTree'
  <2>1. CASE UNCHANGED <<vnode_tree, ivnodes>> BY <2>1 DEF Inv, CountMatchesTree
  <2>2. CASE /\ vnode_tree[p] = Nil /\ vnode_tree' = [vnode_tree EXCEPT ![p] = n]
             /\ ivnodes' = ivnodes + 1
    BY <1>1, <1>7, <1>6, <2>2, CountAdded DEF Inv
  <2>. QED BY <1>9, <2>1, <2>2
<1>. QED BY <1>12, <1>13, <1>15, <1>16, <1>18, <1>22, <1>25, <1>26 DEF Inv

(* Freeing no node changes nothing *)
LEMMA ReleaseNone ==
  ASSUME TypeOK, Release(Nil)
  PROVE  UNCHANGED <<iden, flag>>
BY ConHashAssumption DEF Release, TypeOK, ConHashAssumption

(* nodes_map had no node_s for the address: nothing is freed *)
LEMMA AddEndInv ==
  ASSUME Inv, NEW t \in Threads, AddEnd(t)
  PROVE  Inv'
<1>1. TypeOK BY DEF Inv
<1>2. /\ call[t].op = "add" /\ call[t].at = "loop" /\ call[t].i = Replicas
      /\ node_mutex' = Nil
      /\ nodes_map' = [nodes_map EXCEPT ![call[t].server] = call[t].node]
      /\ call' = [call EXCEPT ![t] = Idle] /\ Release(nodes_map[call[t].server])
      /\ UNCHANGED <<cb_hashfunc, vnode_tree, ivnodes>>
  BY DEF AddEnd
<1>3. call[t].node \in Nodes /\ call[t].server \in Servers
  BY <1>2 DEF Inv, Calls, CallOK, AddsNode
<1>4. PICK n \in Nodes, s \in Servers : n = call[t].node /\ s = call[t].server
  BY <1>3
<1>5. /\ iden[n] = s /\ flag[n] = {"INIT", "IN"} /\ n # Nil /\ nodes_map[s] = Nil
      /\ \A u \in Threads \ {t} : call[u].server # s /\ call[u].node # n
      /\ \A v \in Servers : nodes_map[v] # n
  BY <1>2, <1>4, ConHashAssumption
  DEF Inv, Calls, AddsNode, AddsAlone, Adds, InLoop, ConHashAssumption
<1>6. UNCHANGED <<iden, flag>> BY <1>1, <1>2, <1>4, <1>5, ReleaseNone
<1>7. nodes_map'[s] = n /\ \A v \in Servers \ {s} : nodes_map'[v] = nodes_map[v]
  BY <1>1, <1>2, <1>4 DEF TypeOK
<1>8. CallIs(t, "none", "idle", Nil, Nil, 0)
  BY <1>1, <1>2, CallSet, ConHashAssumption, 0 \in 0..Replicas DEF Idle, ConHashAssumption
<1>9. /\ \A u \in Servers : ~BeingDeleted(u)
      /\ \A u \in Threads \ {t} : call[u].at # "loop"
  BY <1>2, NobodyDeletes DEF InLoop
<1>10. TypeOK' BY <1>1, <1>2, <1>4, <1>6, <1>8 DEF TypeOK, CallIs, CallType
<1>11. MutexHeld' BY <1>2, <1>8, <1>9, ConHashAssumption
         DEF MutexHeld, InLoop, CallIs, ConHashAssumption
<1>12. Calls'
  <2>. SUFFICES ASSUME NEW u \in Threads PROVE CallOK(u)' /\ AddsNode(u)' /\ DelsNode(u)'
    BY DEF Calls
  <2>1. CASE u = t
    BY <1>8, <2>1 DEF CallOK, AddsNode, DelsNode, CallIs
  <2>2. CASE u # t
    <3>1. CallOK(u) /\ AddsNode(u) /\ DelsNode(u) /\ call'[u] = call[u]
      BY <1>8, <2>2 DEF Inv, Calls, CallIs
    <3>2. CallOK(u)' BY <3>1 DEF CallOK
    <3>3. AddsNode(u)'
      <4>1. \A v \in Threads : call'[v].node = call[v].node \/ call'[v].node = Nil
        BY <1>8 DEF CallIs
      <4>. QED BY <1>5, <1>6, <1>7, <2>2, <3>1, <4>1, ConHashAssumption
           DEF AddsNode, InLoop, ConHashAssumption
    <3>4. DelsNode(u)' BY <1>9, <2>2, <3>1 DEF DelsNode, InLoop
    <3>. QED BY <3>2, <3>3, <3>4
  <2>. QED BY <2>1, <2>2
<1>13. AddsAlone'
  <2>. SUFFICES ASSUME NEW u \in Threads, NEW v \in Servers,
                       call'[u].op = "add", call'[u].server = v
       PROVE  nodes_map'[v] = Nil /\ \A w \in Threads \ {u} : call'[w].server # v
    BY DEF AddsAlone, Adds
  <2>1. u # t /\ call'[u] = call[u] BY <1>8 DEF CallIs
  <2>2. v # s BY <1>5, <2>1
  <2>3. nodes_map[v] = Nil /\ \A w \in Threads \ {u} : call[w].server # v
    BY <2>1 DEF Inv, AddsAlone, Adds
  <2>4. \A w \in Threads : call'[w] = call[w] \/ call'[w].server = Nil BY <1>8 DEF CallIs
  <2>. QED BY <1>7, <2>2, <2>3, <2>4, ConHashAssumption DEF ConHashAssumption
<1>14. MapOK' BY <1>5, <1>6, <1>7, <1>9 DEF Inv, MapOK
<1>15. TreeOK'
  <2>1. ASSUME NEW v \in Servers, NEW m \in Nodes, OfServer(m, v) PROVE OfServer(m, v)'
    <3>1. CASE nodes_map[v] = m
      BY <1>5, <1>7, <3>1, ConHashAssumption DEF OfServer, ConHashAssumption
    <3>2. CASE \E u \in Threads : Adds(u, v) /\ InLoop(u) /\ call[u].node = m
      BY <1>4, <1>7, <1>9, <3>2 DEF OfServer, Adds, InLoop
    <3>. QED BY <2>1, <3>1, <3>2 DEF OfServer
  <2>. QED BY <1>1, <1>2, <2>1, TreeKept DEF Inv
<1>16. AllPlaced'
  <2>1. \A m, v, r : Placed(m, v, r) => Placed(m, v, r)'
    BY <1>2, PlacedKept
  <2>2. \A r \in Reps : Placed(n, s, r)'
    <3>1. \A r \in Reps : r < Replicas BY ConHashAssumption DEF Reps, ConHashAssumption
    <3>. QED BY <1>2, <1>4, <2>1, <3>1 DEF Inv, AllPlaced, InLoop
  <2>3. ASSUME NEW v \in Servers, NEW m, m = nodes_map'[v], m # Nil, NEW r \in Reps
        PROVE Placed(m, v, r)'
    <3>1. CASE v = s BY <1>7, <2>2, <2>3, <3>1
    <3>2. CASE v # s BY <1>7, <1>9, <2>1, <2>3, <3>2 DEF Inv, AllPlaced
    <3>. QED BY <3>1, <3>2
  <2>4. \A u \in Threads : ~InLoop(u)' BY <1>8, <1>9 DEF InLoop, CallIs
  <2>. QED BY <2>3, <2>4 DEF AllPlaced
<1>17. CountMatchesTree' BY <1>2 DEF Inv, CountMatchesTree
<1>. QED BY <1>10, <1>11, <1>12, <1>13, <1>14, <1>15, <1>16, <1>17 DEF Inv

(* Nobody adds an address while nodes_map has it *)
LEMMA DelBeginInv ==
  ASSUME Inv, NEW t \in Threads, NEW s \in Servers, DelBegin(t, s)
  PROVE  Inv'
<1>1. TypeOK BY DEF Inv
<1>2. /\ call[t].at = "idle" /\ nodes_map[s] # Nil
      /\ call' = [call EXCEPT ![t] = [op |-> "del", at |-> "lock", server |-> s,
                                      node |-> Nil, i |-> 0]]
      /\ UNCHANGED <<cb_hashfunc, vnode_tree, ivnodes, nodes_map, iden, flag, node_mutex>>
  BY DEF DelBegin
<1>3. CallIs(t, "del", "lock", s, Nil, 0)
  BY <1>1, <1>2, CallSet, ConHashAssumption, 0 \in 0..Replicas DEF ConHashAssumption
<1>4. TypeOK' BY <1>1, <1>2, <1>3 DEF TypeOK, CallIs, CallType
<1>5. MutexHeld' BY <1>2, <1>3 DEF Inv, MutexHeld, InLoop, CallIs
<1>6. Calls'
  <2>. SUFFICES ASSUME NEW u \in Threads PROVE CallOK(u)' /\ AddsNode(u)' /\ DelsNode(u)'
    BY DEF Calls
  <2>1. CallOK(u)' BY <1>3, ConHashAssumption DEF Inv, Calls, CallOK, CallIs
  <2>2. AddsNode(u)' BY <1>2, <1>3, ConHashAssumption
          DEF Inv, Calls, AddsNode, InLoop, CallIs, ConHashAssumption
  <2>3. DelsNode(u)' BY <1>2, <1>3, SameHash DEF Inv, Calls, DelsNode, InLoop, CallIs
  <2>. QED BY <2>1, <2>2, <2>3
<1>7. AddsAlone' BY <1>2, <1>3 DEF Inv, AddsAlone, Adds, CallIs
<1>8. \A v \in Servers : BeingDeleted(v)' <=> BeingDeleted(v)
  BY <1>2, <1>3 DEF BeingDeleted, InLoop, CallIs
<1>9. MapOK' BY <1>2, <1>8 DEF Inv, MapOK
<1>10. TreeOK'
  <2>1. \A v \in Servers, m \in Nodes : OfServer(m, v) => OfServer(m, v)'
    BY <1>2, <1>3 DEF OfServer, Adds, InLoop, CallIs
  <2>. QED BY <1>1, <1>2, <2>1, TreeKept DEF Inv
<1>11. AllPlaced'
  <2>1. \A m, v, r : Placed(m, v, r) => Placed(m, v, r)'
    BY <1>2, PlacedKept
  <2>. QED BY <1>2, <1>3, <1>8, <2>1 DEF Inv, AllPlaced, InLoop, CallIs
<1>12. CountMatchesTree' BY <1>2 DEF Inv, CountMatchesTree
<1>. QED BY <1>4, <1>5, <1>6, <1>7, <1>9, <1>10, <1>11, <1>12 DEF Inv

(* nodes_map is read again under the mutex: what it has is in the ring *)
LEMMA DelLockInv ==
  ASSUME Inv, NEW t \in Threads, DelLock(t)
  PROVE  Inv'
<1>1. TypeOK BY DEF Inv
<1>2. /\ call[t].op = "del" /\ call[t].at = "lock" /\ node_mutex = Nil /\ node_mutex' = t
      /\ UNCHANGED <<cb_hashfunc, vnode_tree, ivnodes, nodes_map, iden>>
  BY DEF DelLock
<1>3. call[t].server \in Servers BY <1>2 DEF Inv, Calls, CallOK
<1>4. nodes_map[call[t].server] \in Nodes \cup {Nil} BY <1>1, <1>3 DEF TypeOK
<1>5. PICK s \in Servers, n \in Nodes \cup {Nil} : s = call[t].server /\ n = nodes_map[s]
  BY <1>3, <1>4
<1>6. \A u \in Threads : call[u].at # "loop"
  BY <1>2, ConHashAssumption DEF Inv, MutexHeld, InLoop, ConHashAssumption
<1>7. \A v \in Servers : ~BeingDeleted(v) BY <1>6 DEF BeingDeleted, InLoop
<1>8. n # Nil => n \in Nodes /\ flag[n] = {"INIT", "IN"}
  BY <1>5, <1>7 DEF Inv, MapOK
<1>9. PICK i \in 0..Replicas : i = IF n # Nil THEN 0 ELSE Replicas
  BY ConHashAssumption DEF ConHashAssumption
<1>10. /\ call' = [call EXCEPT ![t].at = "loop", ![t].node = n, ![t].i = i]
       /\ flag' = IF n # Nil THEN [flag EXCEPT ![n] = @ \ {"IN"}] ELSE flag
  <2>1. CASE n = Nil BY <1>5, <1>9, <2>1 DEF DelLock
  <2>2. CASE n # Nil BY <1>5, <1>8, <1>9, <2>2 DEF DelLock
  <2>. QED BY <2>1, <2>2
<1>11. CallIs(t, "del", "loop", s, n, i)
  BY <1>1, <1>2, <1>5, <1>10, CallStep
<1>12. /\ flag' \in [Nodes -> SUBSET {"INIT", "IN"}]
       /\ \A m \in Nodes \ {n} : flag'[m] = flag[m]
  BY <1>1, <1>8, <1>10 DEF TypeOK
<1>13. TypeOK' BY <1>1, <1>2, <1>11, <1>12 DEF TypeOK, CallIs, CallType
<1>14. MutexHeld' BY <1>2, <1>6, <1>11 DEF MutexHeld, InLoop, CallIs
<1>15. Calls'
  <2>. SUFFICES ASSUME NEW u \in Threads PROVE CallOK(u)' /\ AddsNode(u)' /\ DelsNode(u)'
    BY DEF Calls
  <2>1. CASE u = t
    <3>1. CallOK(u)' BY <1>5, <1>11, <2>1 DEF CallOK, CallIs
    <3>2. AddsNode(u)' BY <1>11, <2>1 DEF AddsNode, CallIs
    <3>3. DelsNode(u)'
      <4>1. \A r \in Reps : n # Nil => ~(r < i)
        BY <1>9, ConHashAssumption DEF Reps, ConHashAssumption
      <4>. QED BY <1>2, <1>5, <1>9, <1>11, <2>1, <4>1 DEF DelsNode, CallIs, InLoop
    <3>. QED BY <3>1, <3>2, <3>3
  <2>2. CASE u # t
    <3>1. CallOK(u) /\ AddsNode(u) /\ DelsNode(u) /\ call'[u] = call[u]
      BY <1>11, <2>2 DEF Inv, Calls, CallIs
    <3>2. CallOK(u)' BY <3>1 DEF CallOK
    <3>3. AddsNode(u)'
      <4>1. \A v \in Threads \ {t} : call'[v] = call[v] BY <1>11 DEF CallIs
      <4>2. call'[t].node = n BY <1>11 DEF CallIs
      <4>. QED BY <1>2, <1>5, <1>12, <2>2, <3>1, <4>1, <4>2 DEF AddsNode, InLoop
    <3>4. DelsNode(u)' BY <1>6, <3>1 DEF DelsNode, InLoop
    <3>. QED BY <3>2, <3>3, <3>4
  <2>. QED BY <2>1, <2>2
<1>16. AddsAlone' BY <1>2, <1>5, <1>11 DEF Inv, AddsAlone, Adds, CallIs
<1>17. MapOK'
  <2>1. BeingDeleted(s)' BY <1>11 DEF BeingDeleted, InLoop, CallIs
  <2>. QED BY <1>2, <1>5, <1>7, <1>12, <2>1, <1>4, <1>1 DEF Inv, MapOK, TypeOK
<1>18. TreeOK'
  <2>1. \A v \in Servers, m \in Nodes : OfServer(m, v) => OfServer(m, v)'
    BY <1>2, <1>6 DEF OfServer, Adds, InLoop
  <2>. QED BY <1>1, <1>2, <2>1, TreeKept DEF Inv
<1>19. AllPlaced'
  <2>1. \A m, v, r : Placed(m, v, r) => Placed(m, v, r)'
    BY <1>2, PlacedKept
  <2>2. \A u \in Threads : ~(call'[u].op = "add" /\ InLoop(u)')
    BY <1>6, <1>11 DEF InLoop, CallIs
  <2>. QED BY <1>2, <1>7, <2>1, <2>2 DEF Inv, AllPlaced
<1>20. CountMatchesTree' BY <1>2 DEF Inv, CountMatchesTree
<1>. QED BY <1>13, <1>14, <1>15, <1>16, <1>17, <1>18, <1>19, <1>20 DEF Inv

(* A thread in the loop of a deletion is the only one in a loop *)
LEMMA DelAlone ==
  ASSUME Inv, NEW t \in Threads, call[t].op = "del", call[t].at = "loop"
  PROVE  /\ \A v \in Servers : BeingDeleted(v) <=> v = call[t].server
         /\ \A u \in Threads \ {t} : call[u].at # "loop"
         /\ \A n, v : OfServer(n, v) <=> nodes_map[v] = n
BY DEF Inv, MutexHeld, BeingDeleted, OfServer, Adds, InLoop

(* Only virtual nodes of the node_s that is deleted go *)
LEMMA DelReplicasInv ==
  ASSUME Inv, NEW t \in Threads, DelReplicas(t)
  PROVE  Inv'
<1>1. TypeOK BY DEF Inv
<1>2. /\ call[t].op = "del" /\ call[t].at = "loop" /\ call[t].i < Replicas
      /\ UNCHANGED <<cb_hashfunc, nodes_map, iden, flag, node_mutex>>
      /\ call' = [call EXCEPT ![t].i = @ + 1]
  BY DEF DelReplicas
<1>3. call[t].server \in Servers /\ call[t].i \in Reps /\ call[t].node \in Nodes
      /\ nodes_map[call[t].server] = call[t].node
  BY <1>1, <1>2, ConHashAssumption
  DEF Inv, Calls, CallOK, DelsNode, InLoop, Reps, TypeOK, ConHashAssumption
<1>4. PICK n \in Nodes, s \in Servers, i \in Reps :
        n = call[t].node /\ s = call[t].server /\ i = call[t].i
  BY <1>3
<1>5. HashAt(s, i) \in Positions BY <1>1, HashType
<1>6. PICK p \in Positions : p = HashAt(s, i) BY <1>5
<1>7. iden[n] = s /\ n # Nil /\ i \in Int /\ nodes_map[s] = n
      /\ \A v \in Servers \ {s} : nodes_map[v] # n
  BY <1>3, <1>4, ConHashAssumption DEF Inv, MapOK, Reps, ConHashAssumption
<1>8. CallIs(t, "del", "loop", s, n, i + 1) BY <1>1, <1>2, <1>4, CallTurn
<1>9. \/ /\ vnode_tree[p] = n /\ vnode_tree' = [vnode_tree EXCEPT ![p] = Nil]
         /\ ivnodes' = ivnodes - 1
      \/ vnode_tree[p] # n /\ UNCHANGED <<vnode_tree, ivnodes>>
  BY <1>4, <1>6, <1>7 DEF DelReplicas
<1>10. /\ \A v \in Servers : BeingDeleted(v) <=> v = s
       /\ \A u \in Threads \ {t} : call[u].at # "loop"
       /\ \A m, v : OfServer(m, v) <=> nodes_map[v] = m
  BY <1>2, <1>4, DelAlone
<1>11. CountMatchesTree' /\ ivnodes' \in Nat
  <2>1. CASE UNCHANGED <<vnode_tree, ivnodes>> BY <1>1, <2>1 DEF Inv, CountMatchesTree, TypeOK
  <2>2. CASE /\ vnode_tree[p] = n /\ vnode_tree' = [vnode_tree EXCEPT ![p] = Nil]
             /\ ivnodes' = ivnodes - 1
    <3>1. CountMatchesTree' /\ ivnodes > 0 BY <1>1, <1>7, <2>2, CountRemoved DEF Inv
    <3>. QED BY <1>1, <2>2, <3>1 DEF TypeOK
  <2>. QED BY <1>9, <2>1, <2>2
<1>12. TypeOK' BY <1>1, <1>2, <1>8, <1>9, <1>11 DEF TypeOK, CallIs, CallType
<1>13. MutexHeld' BY <1>2, <1>8 DEF Inv, MutexHeld, InLoop, CallIs
<1>14. \A u \in Threads : /\ call'[u].node = call[u].node /\ call'[u].op = call[u].op
                          /\ call'[u].server = call[u].server /\ call'[u].at = call[u].at
  BY <1>2, <1>4, <1>8 DEF CallIs
<1>15. \A q \in Positions :
         vnode_tree'[q] = vnode_tree[q] \/ (vnode_tree[q] = n /\ vnode_tree'[q] = Nil)
  BY <1>1, <1>9 DEF TypeOK
<1>16. vnode_tree'[p] # n BY <1>1, <1>7, <1>9 DEF TypeOK
<1>17. Calls'
  <2>. SUFFICES ASSUME NEW u \in Threads PROVE CallOK(u)' /\ AddsNode(u)' /\ DelsNode(u)'
    BY DEF Calls
  <2>1. CallOK(u) /\ AddsNode(u) /\ DelsNode(u) BY DEF Inv, Calls
  <2>2. CallOK(u)' BY <2>1, <1>14 DEF CallOK
  <2>3. AddsNode(u)' BY <2>1, <1>2, <1>14 DEF AddsNode, InLoop
  <2>4. DelsNode(u)'
    <3>1. CASE u # t
      BY <2>1, <3>1, <1>2, <1>10, <1>14 DEF DelsNode, InLoop
    <3>2. CASE u = t
      <4>1. ASSUME NEW r \in Reps, r < i + 1 PROVE vnode_tree'[HashAt(s, r)] # n
        <5>1. CASE r = i BY <5>1, <1>6, <1>16
        <5>2. CASE r < i
          <6>1. vnode_tree[HashAt(s, r)] # n
            BY <2>1, <3>2, <5>2, <1>2, <1>4, <1>7 DEF DelsNode, InLoop
          <6>2. HashAt(s, r) \in Positions BY <1>1, HashType
          <6>. QED BY <6>1, <6>2, <1>7, <1>15
        <5>. QED BY <4>1, <5>1, <5>2, <1>7, ConHashAssumption DEF Reps, ConHashAssumption
      <4>2. \A r \in Reps : r < i + 1 => vnode_tree'[HashAt(s, r)'] # n
        BY <1>2, <4>1, SameHash
      <4>. QED BY <3>2, <4>2, <1>2, <1>7, <1>8 DEF DelsNode, InLoop, CallIs
    <3>. QED BY <3>1, <3>2
  <2>. QED BY <2>2, <2>3, <2>4
<1>18. AddsAlone' BY <1>2, <1>14 DEF Inv, AddsAlone, Adds
<1>19. \A v \in Servers : BeingDeleted(v)' <=> BeingDeleted(v)
  BY <1>14 DEF BeingDeleted, InLoop
<1>20. MapOK' BY <1>2, <1>19 DEF Inv, MapOK
<1>21. TreeOK'
  <2>. SUFFICES ASSUME NEW q \in Positions, NEW m, m = vnode_tree'[q], m # Nil
       PROVE  \E u \in Servers : OfServer(m, u)' /\ \E r \in Reps : HashAt(u, r)' = q
    BY DEF TreeOK
  <2>1. m = vnode_tree[q] BY <1>15
  <2>2. PICK u \in Servers, r \in Reps : OfServer(m, u) /\ HashAt(u, r) = q
    BY <2>1 DEF Inv, TreeOK
  <2>3. OfServer(m, u)' BY <1>2, <1>14, <2>2 DEF OfServer, Adds, InLoop
  <2>. QED BY <1>2, <2>2, <2>3, SameHash
<1>22. AllPlaced'
  <2>1. ASSUME NEW v \in Servers, v # s, nodes_map[v] # Nil, NEW r \in Reps
        PROVE  Placed(nodes_map[v], v, r)'
    <3>1. Placed(nodes_map[v], v, r) BY <1>10, <2>1 DEF Inv, AllPlaced
    <3>2. HashAt(v, r) \in Positions BY <1>1, HashType
    <3>. QED BY <1>2, <1>7, <1>15, <2>1, <3>1, <3>2, SameHash DEF Placed
  <2>2. \A u \in Threads : ~(call'[u].op = "add" /\ InLoop(u)')
    BY <1>2, <1>10, <1>14 DEF InLoop
  <2>. QED BY <1>2, <1>10, <1>19, <2>1, <2>2 DEF AllPlaced
<1>. QED BY <1>11, <1>12, <1>13, <1>17, <1>18, <1>20, <1>21, <1>22 DEF Inv

(* When the loop of a deletion ends, no virtual node points to its node *)
LEMMA NoVnodeLeft ==
  ASSUME Inv, NEW t \in Threads, call[t].op = "del", call[t].at = "loop",
         call[t].i = Replicas, call[t].node # Nil, NEW q \in Positions
  PROVE  vnode_tree[q] # call[t].node
<1>. SUFFICES ASSUME vnode_tree[q] = call[t].node PROVE FALSE
  OBVIOUS
<1>1. PICK v \in Servers, r \in Reps : nodes_map[v] = call[t].node /\ HashAt(v, r) = q
  BY DelAlone DEF Inv, TreeOK
<1>2. call[t].server \in Servers /\ nodes_map[call[t].server] = call[t].node
  BY DEF Inv, Calls, CallOK, DelsNode, InLoop
<1>3. v = call[t].server BY <1>1, <1>2 DEF Inv, MapOK
<1>4. r < Replicas BY ConHashAssumption DEF Reps, ConHashAssumption
<1>. QED BY <1>1, <1>3, <1>4 DEF Inv, Calls, DelsNode, InLoop

(* No virtual node is left of the node_s that is freed *)
LEMMA DelEndInv ==
  ASSUME Inv, NEW t \in Threads, DelEnd(t)
  PROVE  Inv'
<1>1. TypeOK BY DEF Inv
<1>2. /\ call[t].op = "del" /\ call[t].at = "loop" /\ call[t].i = Replicas
      /\ node_mutex' = Nil
      /\ nodes_map' = [nodes_map EXCEPT ![call[t].server] = Nil]
      /\ call' = [call EXCEPT ![t] = Idle] /\ Release(call[t].node)
      /\ UNCHANGED <<cb_hashfunc, vnode_tree, ivnodes>>
  BY DEF DelEnd
<1>3. call[t].server \in Servers /\ call[t].node \in Nodes \cup {Nil}
      /\ nodes_map[call[t].server] = call[t].node
  BY <1>1, <1>2 DEF Inv, Calls, CallOK, DelsNode, InLoop, TypeOK
<1>4. PICK s \in Servers, n \in Nodes \cup {Nil} : s = call[t].server /\ n = call[t].node
  BY <1>3
<1>5. /\ nodes_map[s] = n
      /\ \A v \in Servers \ {s} : nodes_map[v] = n => n = Nil
  BY <1>3, <1>4 DEF Inv, MapOK
<1>6. /\ \A m \in Nodes \ {n} : iden'[m] = iden[m] /\ flag'[m] = flag[m]
      /\ iden' \in [Nodes -> Servers \cup {Nil}] /\ flag' \in [Nodes -> SUBSET {"INIT", "IN"}]
  BY <1>1, <1>2, <1>4 DEF Release, TypeOK
<1>7. nodes_map'[s] = Nil /\ \A v \in Servers \ {s} : nodes_map'[v] = nodes_map[v]
  BY <1>1, <1>2, <1>4 DEF TypeOK
<1>8. CallIs(t, "none", "idle", Nil, Nil, 0)
  BY <1>1, <1>2, CallSet, ConHashAssumption, 0 \in 0..Replicas DEF Idle, ConHashAssumption
<1>9. /\ \A v \in Servers : BeingDeleted(v) <=> v = s
      /\ \A u \in Threads \ {t} : call[u].at # "loop"
      /\ \A m, v : OfServer(m, v) <=> nodes_map[v] = m
  BY <1>2, <1>4, DelAlone
<1>10. \A u \in Threads : call'[u].at # "loop" BY <1>8, <1>9 DEF CallIs
<1>11. TypeOK' BY <1>1, <1>2, <1>4, <1>6, <1>8 DEF TypeOK, CallIs, CallType
<1>12. MutexHeld' BY <1>2, <1>10, ConHashAssumption DEF MutexHeld, InLoop, ConHashAssumption
<1>13. Calls'
  <2>. SUFFICES ASSUME NEW u \in Threads PROVE CallOK(u)' /\ AddsNode(u)' /\ DelsNode(u)'
    BY DEF Calls
  <2>1. CASE u = t
    BY <1>8, <2>1 DEF CallOK, AddsNode, DelsNode, CallIs
  <2>2. CASE u # t
    <3>1. CallOK(u) /\ AddsNode(u) /\ DelsNode(u) /\ call'[u] = call[u]
      BY <1>8, <2>2 DEF Inv, Calls, CallIs
    <3>2. CallOK(u)' BY <3>1 DEF CallOK
    <3>3. AddsNode(u)'
      <4>1. \A v \in Threads : call'[v].node = call[v].node \/ call'[v].node = Nil
        BY <1>8 DEF CallIs
      <4>2. call[u].op = "add" => call[u].node # n
        BY <1>5, <3>1, ConHashAssumption DEF AddsNode, ConHashAssumption
      <4>. QED BY <1>6, <1>7, <3>1, <4>1, <4>2, ConHashAssumption
           DEF AddsNode, InLoop, ConHashAssumption
    <3>4. DelsNode(u)' BY <1>10, <1>9, <2>2, <3>1 DEF DelsNode, InLoop
    <3>. QED BY <3>2, <3>3, <3>4
  <2>. QED BY <2>1, <2>2
<1>14. AddsAlone'
  <2>. SUFFICES ASSUME NEW u \in Threads, NEW v \in Servers,
                       call'[u].op = "add", call'[u].server = v
       PROVE  nodes_map'[v] = Nil /\ \A w \in Threads \ {u} : call'[w].server # v
    BY DEF AddsAlone, Adds
  <2>1. u # t /\ call'[u] = call[u] BY <1>8 DEF CallIs
  <2>2. nodes_map[v] = Nil /\ \A w \in Threads \ {u} : call[w].server # v
    BY <2>1 DEF Inv, AddsAlone, Adds
  <2>3. \A w \in Threads : call'[w] = call[w] \/ call'[w].server = Nil BY <1>8 DEF CallIs
  <2>. QED BY <1>7, <2>2, <2>3, ConHashAssumption DEF ConHashAssumption
<1>15. MapOK'
  <2>. SUFFICES ASSUME NEW v \in Servers, nodes_map'[v] # Nil
       PROVE  /\ iden'[nodes_map'[v]] = v /\ flag'[nodes_map'[v]] = {"INIT", "IN"}
              /\ \A u \in Servers \ {v} : nodes_map'[u] # nodes_map'[v]
    BY DEF MapOK
  <2>1. v # s /\ nodes_map'[v] = nodes_map[v] BY <1>7
  <2>2. nodes_map[v] \in Nodes \ {n} BY <1>1, <1>5, <2>1 DEF TypeOK
  <2>. QED BY <1>6, <1>7, <1>9, <2>1, <2>2 DEF Inv, MapOK
<1>16. \A q \in Positions : vnode_tree[q] = n => n = Nil
  BY <1>2, <1>4, NoVnodeLeft
<1>17. TreeOK'
  <2>. SUFFICES ASSUME NEW q \in Positions, vnode_tree[q] # Nil
       PROVE  \E v \in Servers : /\ OfServer(vnode_tree[q], v)'
                                /\ \E r \in Reps : HashAt(v, r)' = q
    BY <1>2 DEF TreeOK
  <2>1. PICK v \in Servers, r \in Reps : nodes_map[v] = vnode_tree[q] /\ HashAt(v, r) = q
    BY <1>9 DEF Inv, TreeOK
  <2>2. OfServer(vnode_tree[q], v)' BY <1>2, <1>5, <1>7, <1>16, <2>1 DEF OfServer
  <2>. QED BY <1>2, <2>1, <2>2, SameHash
<1>18. AllPlaced'
  <2>1. \A m, v, r : Placed(m, v, r) => Placed(m, v, r)'
    BY <1>2, PlacedKept
  <2>2. ASSUME NEW v \in Servers, NEW m, m = nodes_map'[v], m # Nil, NEW r \in Reps
        PROVE  Placed(m, v, r)'
    BY <1>7, <1>9, <2>1, <2>2 DEF Inv, AllPlaced
  <2>. QED BY <1>10, <2>2 DEF AllPlaced, InLoop
<1>19. CountMatchesTree' BY <1>2 DEF Inv, CountMatchesTree
<1>. QED BY <1>11, <1>12, <1>13, <1>14, <1>15, <1>17, <1>18, <1>19 DEF Inv

(* An empty ring *)
LEMMA EmptyRing ==
  ASSUME vnode_tree = [p \in Positions |-> Nil], ivnodes = 0
  PROVE  CountMatchesTree
<1>1. {p \in Positions : vnode_tree[p] # Nil} = {} OBVIOUS
<1>. QED BY <1>1, FS_EmptySet DEF CountMatchesTree

(* The ring of the constructor *)
LEMMA InitInv == Init => Inv
<1>. SUFFICES ASSUME Init PROVE Inv
  OBVIOUS
<1>1. /\ \A t \in Threads : /\ call[t].op = "none" /\ call[t].at = "idle"
                            /\ call[t].server = Nil /\ call[t].node = Nil
      /\ \A s \in Servers : nodes_map[s] = Nil
      /\ \A p \in Positions : vnode_tree[p] = Nil
      /\ node_mutex = Nil
  BY DEF Init, Idle
<1>2. TypeOK
  <2>1. Idle \in [op : {"none", "add", "del"}, at : {"idle", "lock", "loop"},
                  server : Servers \cup {Nil}, node : Nodes \cup {Nil}, i : 0..Replicas]
    BY ConHashAssumption DEF Idle, ConHashAssumption
  <2>. QED BY <2>1 DEF Init, TypeOK
<1>3. MutexHeld BY <1>1, ConHashAssumption DEF MutexHeld, InLoop, ConHashAssumption
<1>4. Calls BY <1>1 DEF Calls, CallOK, AddsNode, DelsNode
<1>5. AddsAlone /\ MapOK /\ TreeOK /\ AllPlaced
  BY <1>1 DEF AddsAlone, Adds, MapOK, TreeOK, AllPlaced
<1>6. CountMatchesTree BY EmptyRing DEF Init
<1>. QED BY <1>2, <1>3, <1>4, <1>5, <1>6 DEF Inv

(* The ring of updateHash() *)
LEMMA RebuildInv ==
  ASSUME Inv, Rebuild
  PROVE  Inv'
<1>1. /\ call = [t \in Threads |-> Idle] /\ vnode_tree' = [p \in Positions |-> Nil]
      /\ ivnodes' = 0 /\ nodes_map' = [s \in Servers |-> Nil]
      /\ iden' = [n \in Nodes |-> Nil] /\ flag' = [n \in Nodes |-> {}]
      /\ UNCHANGED <<cb_hashfunc, node_mutex, call>>
  BY DEF Rebuild
<1>2. TypeOK' BY <1>1 DEF Inv, TypeOK
<1>3. MutexHeld' BY <1>1 DEF Inv, MutexHeld, InLoop
<1>4. \A t \in Threads : call'[t].op = "none" /\ CallOK(t)'
  <2>1. \A t \in Threads : CallOK(t)' BY <1>1 DEF Inv, Calls, CallOK
  <2>2. \A t \in Threads : call'[t].op = "none" BY <1>1 DEF Idle
  <2>. QED BY <2>1, <2>2
<1>5. Calls' BY <1>4 DEF Calls, AddsNode, DelsNode
<1>6. \A s \in Servers : nodes_map'[s] = Nil BY <1>1
<1>7. AddsAlone' /\ MapOK' /\ TreeOK' /\ AllPlaced'
  BY <1>1, <1>4, <1>6 DEF AddsAlone, Adds, MapOK, TreeOK, AllPlaced
<1>8. CountMatchesTree'
  <2>1. {p \in Positions : vnode_tree'[p] # Nil} = {} BY <1>1
  <2>. QED BY <1>1, <2>1, FS_EmptySet DEF CountMatchesTree
<1>. QED BY <1>2, <1>3, <1>5, <1>7, <1>8 DEF Inv

(* All of them together *)
LEMMA NextInv == ReAdd = FALSE /\ Inv /\ [Next]_vars => Inv'
<1>. SUFFICES ASSUME ReAdd = FALSE, Inv, [Next]_vars PROVE Inv'
  OBVIOUS
<1>1. ASSUME NEW t \in Threads, NEW s \in Servers, AddBegin(t, s) \/ DelBegin(t, s)
      PROVE  Inv'
  BY <1>1, AddBeginInv, DelBeginInv
<1>2. ASSUME NEW t \in Threads,
             \/ AddLock(t) \/ AddReplicas(t) \/ AddEnd(t)
             \/ DelLock(t) \/ DelReplicas(t) \/ DelEnd(t)
      PROVE  Inv'
  BY <1>2, AddLockInv, AddReplicasInv, AddEndInv, DelLockInv, DelReplicasInv, DelEndInv
<1>3. CASE Rebuild BY <1>3, RebuildInv
<1>4. CASE UNCHANGED vars
  <2>1. UNCHANGED <<cb_hashfunc, vnode_tree, ivnodes, nodes_map, iden, flag, node_mutex, call>>
    BY <1>4 DEF vars
  <2>2. TypeOK' BY <2>1 DEF Inv, TypeOK
  <2>3. MutexHeld' BY <2>1 DEF Inv, MutexHeld, InLoop
  <2>4. Calls' BY <2>1, SameHash DEF Inv, Calls, CallOK, AddsNode, DelsNode, InLoop
  <2>5. AddsAlone' BY <2>1 DEF Inv, AddsAlone, Adds
  <2>6. \A s \in Servers : BeingDeleted(s)' <=> BeingDeleted(s)
    BY <2>1 DEF BeingDeleted, InLoop
  <2>7. MapOK' BY <2>1, <2>6 DEF Inv, MapOK
  <2>8. TreeOK'
    <3>1. \A s \in Servers, n \in Nodes : OfServer(n, s) => OfServer(n, s)'
      BY <2>1 DEF OfServer, Adds, InLoop
    <3>. QED BY <2>1, <3>1, TreeKept DEF Inv
  <2>9. AllPlaced'
    <3>1. \A n, s, r : Placed(n, s, r) => Placed(n, s, r)' BY <2>1, PlacedKept
    <3>. QED BY <2>1, <2>6, <3>1 DEF Inv, AllPlaced, InLoop
  <2>10. CountMatchesTree' BY <2>1 DEF Inv, CountMatchesTree
  <2>. QED BY <2>2, <2>3, <2>4, <2>5, <2>7, <2>8, <2>9, <2>10 DEF Inv
<1>. QED BY <1>1, <1>2, <1>3, <1>4 DEF Next

-----------------------------------------------------------------------------
(* The inductive invariant *)
LEMMA InvHolds ==
  ASSUME ReAdd = FALSE
  PROVE  Spec => []Inv
<1>1. Inv /\ [Next]_vars => Inv' BY NextInv
<1>. QED BY InitInv, <1>1, PTL DEF Spec

(* The raw pointers of the tree are good *)
LEMMA Owned == Inv => VnodesAreOwned
<1>. SUFFICES ASSUME Inv, NEW p \in Positions, vnode_tree[p] # Nil,
                     NEW n, n = vnode_tree[p]
     PROVE  /\ Alive(n)
            /\ iden[n] \in Servers
            /\ \E r \in 0..Replicas - 1 : HashAt(iden[n], r) = p
            /\ node_mutex = Nil => nodes_map[iden[n]] = n
  BY DEF VnodesAreOwned
<1>1. PICK s \in Servers, r \in Reps : OfServer(n, s) /\ HashAt(s, r) = p
  BY DEF Inv, TreeOK
<1>2. n \in Nodes BY DEF Inv, TypeOK
<1>3. CASE nodes_map[s] = n
  <2>1. iden[n] = s /\ Alive(n)
    BY <1>2, <1>3, ConHashAssumption DEF Inv, MapOK, Alive, ConHashAssumption
  <2>. QED BY <1>1, <1>3, <2>1 DEF Reps
<1>4. CASE \E t \in Threads : Adds(t, s) /\ InLoop(t) /\ call[t].node = n
  <2>1. iden[n] = s /\ Alive(n)
    BY <1>4 DEF Inv, Calls, AddsNode, Adds, Alive
  <2>2. node_mutex # Nil
    BY <1>4, ConHashAssumption DEF Inv, MutexHeld, ConHashAssumption
  <2>. QED BY <1>1, <2>1, <2>2 DEF Reps
<1>. QED BY <1>1, <1>3, <1>4 DEF OfServer

(* Servers and virtual nodes match: conhash_del_node leaves no virtual     *)
(* node behind that would point to a freed node_s, and                     *)
(* conhash_add_node leaves no replica out that does not collide.           *)
THEOREM VnodesMatchMembersHolds ==
  ASSUME ReAdd = FALSE
  PROVE  Spec => []VnodesMatchMembers
<1>2. Inv => MembersHaveTheirVnodes
  <2>. SUFFICES ASSUME Inv, node_mutex = Nil, NEW s \in Servers, nodes_map[s] # Nil,
                       NEW r \in 0..Replicas - 1
       PROVE  Placed(nodes_map[s], s, r)
    BY DEF MembersHaveTheirVnodes, Placed, Reps
  <2>1. ~BeingDeleted(s)
    BY ConHashAssumption DEF Inv, MutexHeld, BeingDeleted, ConHashAssumption
  <2>. QED BY <2>1 DEF Inv, AllPlaced, Reps
<1>3. Inv => VnodesMatchMembers BY Owned, <1>2 DEF Inv, VnodesMatchMembers
<1>. QED BY <1>3, InvHolds, PTL

(* ivnodes, by which conhash_lookup knows an empty ring, is the number of  *)
(* virtual nodes, whatever collides and whoever is in a loop.              *)
THEOREM CountMatchesTreeHolds ==
  ASSUME ReAdd = FALSE
  PROVE  Spec => []CountMatchesTree
<1>1. Inv => CountMatchesTree BY DEF Inv
<1>. QED BY <1>1, InvHolds, PTL

-----------------------------------------------------------------------------
(* What util_rbtree_lookup finds *)

(* q is the first of the positions U at or after h, around the ring *)
First(U, h, q) ==
    LET after == {p \in U : p >= h}
        from == IF after # {} THEN after ELSE U
    IN  q \in from /\ \A r \in from : q <= r

(* Every set of natural numbers has a least one: the initial segments up   *)
(* to its numbers are finite sets, one of them contains no other.          *)
LEMMA Least ==
  ASSUME NEW S \in SUBSET Nat, S # {}
  PROVE  \E m \in S : \A k \in S : m <= k
<1>. DEFINE T == {0..m : m \in S}
            R == StrictSubsetOrdering(Nat)
<1>1. IsWellFoundedOn(R, FiniteSubsetsOf(Nat)) BY FS_StrictSubsetOrderingWellFounded
<1>2. T \subseteq FiniteSubsetsOf(Nat) /\ T # {}
  <2>1. \A m \in S : IsFiniteSet(0..m) /\ 0..m \subseteq Nat BY FS_Interval
  <2>. QED BY <2>1 DEF FiniteSubsetsOf
<1>3. PICK x \in T : \A y \in T : ~(<<y, x>> \in R)
  <2>. HIDE DEF T, R
  <2>. QED BY <1>1, <1>2, WFMin
<1>4. PICK m \in S : x = 0..m OBVIOUS
<1>5. ASSUME NEW k \in S PROVE m <= k
  <2>1. CASE k < m
    <3>1. 0..k \subseteq 0..m /\ 0..k # 0..m /\ 0..m \in SUBSET Nat /\ 0..k \in SUBSET Nat
      <4>1. m \in 0..m /\ ~(m \in 0..k) BY <2>1
      <4>. QED BY <2>1, <4>1
    <3>2. <<0..k, 0..m>> \in R BY <3>1 DEF StrictSubsetOrdering
    <3>3. 0..k \in T OBVIOUS
    <3>. QED BY <1>3, <1>4, <3>2, <3>3
  <2>. QED BY <2>1
<1>. QED BY <1>5

(* A ring that is not empty has a first position from anywhere *)
LEMMA FirstExists ==
  ASSUME NEW U \in SUBSET Positions, U # {}, NEW h \in Positions
  PROVE  \E q \in U : First(U, h, q)
<1>. DEFINE after == {p \in U : p >= h}
            from == IF after # {} THEN after ELSE U
<1>1. from \in SUBSET Nat /\ from # {} /\ from \subseteq U
  <2>1. U \subseteq Nat BY ConHashAssumption DEF Positions, ConHashAssumption
  <2>2. CASE after # {} BY <2>1, <2>2
  <2>3. CASE after = {} BY <2>1, <2>3
  <2>. QED BY <2>2, <2>3
<1>2. PICK q \in from : \A r \in from : q <= r
  <2>. HIDE DEF from
  <2>. QED BY <1>1, Least
<1>. QED BY <1>1, <1>2 DEF First

(* The least number is the one CHOOSE finds *)
LEMMA LeastIsUnique ==
  ASSUME NEW S, S \subseteq Int, NEW q \in S, \A r \in S : q <= r
  PROVE  (CHOOSE p \in S : \A r \in S : p <= r) = q
<1>. DEFINE c == CHOOSE p \in S : \A r \in S : p <= r
<1>1. c \in S /\ \A r \in S : c <= r OBVIOUS
<1>2. c <= q /\ q <= c /\ c \in Int /\ q \in Int BY <1>1
<1>. HIDE DEF c
<1>3. c = q BY <1>2
<1>. QED BY <1>3 DEF c

(* util_rbtree_lookup finds the first position *)
LEMMA LookupIsFirst ==
  ASSUME NEW tree, NEW h \in Positions, NEW q,
         First({p \in Positions : tree[p] # Nil}, h, q)
  PROVE  util_rbtree_lookup(tree, h) = q
<1>. DEFINE used == {p \in Positions : tree[p] # Nil}
            after == {p \in used : p >= h}
            from == IF after # {} THEN after ELSE used
<1>1. q \in from /\ \A r \in from : q <= r BY DEF First
<1>2. from \subseteq Int BY DEF Positions
<1>3. (CHOOSE p \in from : \A r \in from : p <= r) = q
  <2>. HIDE DEF from
  <2>. QED BY <1>1, <1>2, LeastIsUnique
<1>. QED BY <1>3 DEF util_rbtree_lookup

(* A position that is not the first may go *)
LEMMA FirstOfLess ==
  ASSUME NEW U \in SUBSET Positions, NEW h \in Positions, NEW p, NEW q,
         First(U, h, q), q # p
  PROVE  First(U \ {p}, h, q)
BY DEF First

-----------------------------------------------------------------------------
(* What a lookup answers *)

LEMMA UsedIsFinite == IsFiniteSet(Used)
<1>1. IsFiniteSet(Positions)
  BY FS_Interval, ConHashAssumption DEF Positions, ConHashAssumption
<1>. QED BY <1>1, FS_Subset DEF Used

(* The address whose virtual node comes first; before and after a step *)
LEMMA Answer ==
  ASSUME TypeOK, CountMatchesTree, NEW h \in Positions
  PROVE  /\ Used = {} => conhash_get_CacheServer(h) = Nil
         /\ \A q \in Positions : First(Used, h, q) /\ q \in Used =>
              conhash_get_CacheServer(h) = iden[vnode_tree[q]]
<1>1. Used = {} <=> ivnodes = 0
  BY UsedIsFinite, FS_EmptySet DEF CountMatchesTree, Used
<1>2. CASE Used = {}
  BY <1>1, <1>2 DEF conhash_get_CacheServer, conhash_lookup
<1>3. ASSUME NEW q \in Positions, First(Used, h, q), q \in Used
      PROVE  conhash_get_CacheServer(h) = iden[vnode_tree[q]]
  <2>1. util_rbtree_lookup(vnode_tree, h) = q BY <1>3, LookupIsFirst DEF Used
  <2>2. conhash_lookup(h) = vnode_tree[q] BY <1>1, <1>3, <2>1 DEF conhash_lookup
  <2>. QED BY <1>3, <2>2 DEF conhash_get_CacheServer, Used
<1>. QED BY <1>2, <1>3

(* The same in the next state *)
LEMMA AnswerAfter ==
  ASSUME TypeOK', CountMatchesTree', NEW h \in Positions
  PROVE  /\ Used' = {} => conhash_get_CacheServer(h)' = Nil
         /\ \A q \in Positions : First(Used', h, q) /\ q \in Used' =>
              conhash_get_CacheServer(h)' = iden'[vnode_tree'[q]]
<1>1. Used' = {} <=> ivnodes' = 0
  <2>1. IsFiniteSet(Used')
    <3>1. IsFiniteSet(Positions)
      BY FS_Interval, ConHashAssumption DEF Positions, ConHashAssumption
    <3>. QED BY <3>1, FS_Subset DEF Used
  <2>. QED BY <2>1, FS_EmptySet DEF CountMatchesTree, Used
<1>2. CASE Used' = {}
  BY <1>1, <1>2 DEF conhash_get_CacheServer, conhash_lookup
<1>3. ASSUME NEW q \in Positions, First(Used', h, q), q \in Used'
      PROVE  conhash_get_CacheServer(h)' = iden'[vnode_tree'[q]]
  <2>1. util_rbtree_lookup(vnode_tree', h) = q BY <1>3, LookupIsFirst DEF Used
  <2>2. conhash_lookup(h)' = vnode_tree'[q] BY <1>1, <1>3, <2>1 DEF conhash_lookup
  <2>. QED BY <1>3, <2>2 DEF conhash_get_CacheServer, Used
<1>. QED BY <1>2, <1>3

(* A step that leaves the tree and its nodes alone moves no key *)
LEMMA SameAnswer ==
  ASSUME Inv, Inv', UNCHANGED vnode_tree, NEW h \in Positions,
         \A q \in Positions : vnode_tree[q] # Nil => iden'[vnode_tree[q]] = iden[vnode_tree[q]]
  PROVE  conhash_get_CacheServer(h)' = conhash_get_CacheServer(h)
<1>1. Used' = Used BY DEF Used
<1>2. CASE Used = {} BY <1>1, <1>2, Answer, AnswerAfter DEF Inv
<1>3. CASE Used # {}
  <2>1. PICK q \in Used : First(Used, h, q) BY <1>3, FirstExists DEF Used
  <2>2. q \in Positions /\ vnode_tree[q] # Nil BY DEF Used
  <2>3. conhash_get_CacheServer(h) = iden[vnode_tree[q]] BY <2>1, <2>2, Answer DEF Inv
  <2>4. conhash_get_CacheServer(h)' = iden'[vnode_tree'[q]]
    BY <1>1, <2>1, <2>2, AnswerAfter DEF Inv
  <2>. QED BY <2>2, <2>3, <2>4
<1>. QED BY <1>2, <1>3

(* A new virtual node takes only keys for its own server *)
LEMMA AddedAnswer ==
  ASSUME Inv, Inv', UNCHANGED iden, NEW p \in Positions, NEW n \in Nodes, vnode_tree[p] = Nil,
         vnode_tree' = [vnode_tree EXCEPT ![p] = n], NEW h \in Positions
  PROVE  \/ conhash_get_CacheServer(h)' = conhash_get_CacheServer(h)
         \/ conhash_get_CacheServer(h)' = iden[n]
<1>1. /\ vnode_tree'[p] = n /\ n # Nil
      /\ \A q \in Positions \ {p} : vnode_tree'[q] = vnode_tree[q]
  BY ConHashAssumption DEF Inv, TypeOK, ConHashAssumption
<1>2. p \in Used' /\ Used' \subseteq Positions /\ Used = Used' \ {p} BY <1>1 DEF Used
<1>3. PICK q \in Used' : First(Used', h, q) BY <1>2, FirstExists
<1>4. q \in Positions BY <1>2
<1>5. conhash_get_CacheServer(h)' = iden'[vnode_tree'[q]]
  BY <1>3, <1>4, AnswerAfter DEF Inv
<1>6. CASE q = p BY <1>1, <1>5, <1>6
<1>7. CASE q # p
  <2>1. First(Used, h, q) BY <1>2, <1>3, <1>7, FirstOfLess
  <2>2. conhash_get_CacheServer(h) = iden[vnode_tree[q]]
    BY <1>2, <1>4, <1>7, <2>1, Answer DEF Inv
  <2>. QED BY <1>1, <1>4, <1>5, <1>7, <2>2
<1>. QED BY <1>6, <1>7

(* A virtual node that goes frees only keys of its own server *)
LEMMA RemovedAnswer ==
  ASSUME Inv, Inv', UNCHANGED iden, NEW p \in Positions, NEW n, vnode_tree[p] = n, n # Nil,
         vnode_tree' = [vnode_tree EXCEPT ![p] = Nil], NEW h \in Positions
  PROVE  \/ conhash_get_CacheServer(h)' = conhash_get_CacheServer(h)
         \/ conhash_get_CacheServer(h) = iden[n]
<1>1. /\ vnode_tree'[p] = Nil
      /\ \A q \in Positions \ {p} : vnode_tree'[q] = vnode_tree[q]
  BY DEF Inv, TypeOK
<1>2. p \in Used /\ Used \subseteq Positions /\ Used' = Used \ {p} BY <1>1 DEF Used
<1>3. PICK q \in Used : First(Used, h, q) BY <1>2, FirstExists
<1>4. q \in Positions BY <1>2
<1>5. conhash_get_CacheServer(h) = iden[vnode_tree[q]]
  BY <1>3, <1>4, Answer DEF Inv
<1>6. CASE q = p BY <1>5, <1>6
<1>7. CASE q # p
  <2>1. First(Used', h, q) BY <1>2, <1>3, <1>7, FirstOfLess
  <2>2. conhash_get_CacheServer(h)' = iden'[vnode_tree'[q]]
    BY <1>2, <1>3, <1>4, <1>7, <2>1, AnswerAfter DEF Inv
  <2>. QED BY <1>1, <1>4, <1>5, <1>7, <2>2
<1>. QED BY <1>6, <1>7

(* The steps that touch no virtual node *)
LEMMA OtherSteps ==
  ASSUME Inv, Inv', NEW t \in Threads, NEW h \in Positions,
         \/ \E s \in Servers : AddBegin(t, s) \/ DelBegin(t, s)
         \/ AddLock(t) \/ AddEnd(t) \/ DelLock(t) \/ DelEnd(t)
  PROVE  conhash_get_CacheServer(h)' = conhash_get_CacheServer(h)
<1>1. UNCHANGED vnode_tree BY DEF AddBegin, DelBegin, AddLock, AddEnd, DelLock, DelEnd
<1>2. ASSUME NEW q \in Positions, NEW n, n = vnode_tree[q], n # Nil
      PROVE  iden'[n] = iden[n]
  <2>1. n \in Nodes /\ Alive(n)
    BY <1>2, Owned DEF Inv, TypeOK, VnodesAreOwned
  <2>2. CASE \E s \in Servers : AddBegin(t, s)
    BY <2>1, <2>2 DEF AddBegin, Inv, TypeOK
  <2>3. CASE (\E s \in Servers : DelBegin(t, s)) \/ AddLock(t) \/ DelLock(t)
    BY <2>3 DEF DelBegin, AddLock, DelLock
  <2>4. CASE AddEnd(t)
    <3>1. Release(nodes_map[call[t].server]) BY <2>4 DEF AddEnd
    <3>2. nodes_map[call[t].server] = Nil
      BY <2>4 DEF AddEnd, Inv, Calls, CallOK, AddsAlone, Adds
    <3>. QED BY <2>1, <3>1, <3>2, ConHashAssumption DEF Release, ConHashAssumption
  <2>5. CASE DelEnd(t)
    <3>1. Release(call[t].node) BY <2>5 DEF DelEnd
    <3>2. n # call[t].node BY <1>2, <2>5, NoVnodeLeft DEF DelEnd
    <3>. QED BY <2>1, <3>1, <3>2 DEF Release
  <2>. QED BY <2>2, <2>3, <2>4, <2>5
<1>. QED BY <1>1, <1>2, SameAnswer

(* What makes the hash consistent: conhash_add_node moves keys only to the *)
(* server it adds, conhash_del_node only keys of the one it deletes, at    *)
(* every turn of their loops, whoever looks up meanwhile.                  *)
THEOREM OnlyItsKeysMoveHolds ==
  ASSUME ReAdd = FALSE
  PROVE  Spec => OnlyItsKeysMove
<1>. DEFINE Moves ==
       \A h \in Positions :
         LET before == conhash_get_CacheServer(h)
             after == conhash_get_CacheServer(h)'
         IN  before # after =>
               \/ \E t \in Threads : call[t].at = "loop" /\
                    \/ call[t].op = "add" /\ after = call[t].server
                    \/ call[t].op = "del" /\ before = call[t].server
               \/ Rebuild
<1>1. Inv /\ [Next]_vars => [Moves]_vars
  <2>. SUFFICES ASSUME Inv, Next PROVE Moves
    OBVIOUS
  <2>. SUFFICES ASSUME NEW h \in Positions, NEW before, NEW after,
                       before = conhash_get_CacheServer(h),
                       after = conhash_get_CacheServer(h)', before # after
       PROVE  \/ \E t \in Threads : call[t].at = "loop" /\
                    \/ call[t].op = "add" /\ after = call[t].server
                    \/ call[t].op = "del" /\ before = call[t].server
              \/ Rebuild
    OBVIOUS
  <2>1. Inv' BY NextInv
  <2>2. ASSUME NEW t \in Threads,
               \/ \E s \in Servers : AddBegin(t, s) \/ DelBegin(t, s)
               \/ AddLock(t) \/ AddEnd(t) \/ DelLock(t) \/ DelEnd(t)
        PROVE  FALSE
    BY <2>1, <2>2, OtherSteps
  <2>3. ASSUME NEW t \in Threads, AddReplicas(t)
        PROVE  call[t].at = "loop" /\ call[t].op = "add" /\ after = call[t].server
    <3>1. /\ call[t].op = "add" /\ call[t].at = "loop" /\ call[t].i < Replicas
          /\ UNCHANGED iden
      BY <2>3 DEF AddReplicas
    <3>2. /\ call[t].node \in Nodes /\ call[t].server \in Servers /\ call[t].i \in Reps
          /\ iden[call[t].node] = call[t].server
      BY <3>1, ConHashAssumption
      DEF Inv, Calls, CallOK, AddsNode, Reps, TypeOK, ConHashAssumption
    <3>3. HashAt(call[t].server, call[t].i) \in Positions BY <3>2, HashType DEF Inv
    <3>4. PICK n \in Nodes, p \in Positions :
             n = call[t].node /\ p = HashAt(call[t].server, call[t].i)
      BY <3>2, <3>3
    <3>5. \/ vnode_tree[p] = Nil /\ vnode_tree' = [vnode_tree EXCEPT ![p] = n]
          \/ UNCHANGED vnode_tree
      BY <2>3, <3>2, <3>4 DEF AddReplicas
    <3>6. ~UNCHANGED vnode_tree BY <2>1, <3>1, SameAnswer
    <3>7. after = iden[n] BY <2>1, <3>1, <3>5, <3>6, AddedAnswer
    <3>. QED BY <3>1, <3>2, <3>4, <3>7
  <2>4. ASSUME NEW t \in Threads, DelReplicas(t)
        PROVE  call[t].at = "loop" /\ call[t].op = "del" /\ before = call[t].server
    <3>1. /\ call[t].op = "del" /\ call[t].at = "loop" /\ call[t].i < Replicas
          /\ UNCHANGED iden
      BY <2>4 DEF DelReplicas
    <3>2. /\ call[t].node \in Nodes /\ call[t].server \in Servers /\ call[t].i \in Reps
          /\ nodes_map[call[t].server] = call[t].node /\ call[t].node # Nil
      BY <3>1, ConHashAssumption
      DEF Inv, Calls, CallOK, DelsNode, InLoop, Reps, TypeOK, ConHashAssumption
    <3>3. iden[call[t].node] = call[t].server BY <3>2 DEF Inv, MapOK
    <3>4. HashAt(call[t].server, call[t].i) \in Positions BY <3>2, HashType DEF Inv
    <3>5. PICK n \in Nodes, p \in Positions :
             n = call[t].node /\ p = HashAt(call[t].server, call[t].i)
      BY <3>2, <3>4
    <3>6. \/ vnode_tree[p] = n /\ vnode_tree' = [vnode_tree EXCEPT ![p] = Nil]
          \/ UNCHANGED vnode_tree
      BY <2>4, <3>3, <3>5 DEF DelReplicas
    <3>7. ~UNCHANGED vnode_tree BY <2>1, <3>1, SameAnswer
    <3>8. before = iden[n] BY <2>1, <3>1, <3>2, <3>5, <3>6, <3>7, RemovedAnswer
    <3>. QED BY <3>1, <3>3, <3>5, <3>8
  <2>. QED BY <2>2, <2>3, <2>4 DEF Next
<1>2. Spec => []Inv BY InvHolds
<1>. QED BY <1>1, <1>2, PTL DEF Spec, OnlyItsKeysMove

=============================================================================

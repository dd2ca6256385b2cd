------------------------------- MODULE RBTree -------------------------------
(***************************************************************************)
(* The red-black tree of virtual nodes (conhash/util_rbtree.c) at the      *)
(* level of pointers, as the ring uses it: the virtual nodes of a server   *)
(* are inserted one after the other, or deleted one after the other.       *)
(*                                                                         *)
(* A node is named by its key, so the cell of a freed node is used again   *)
(* for the same key only.  The search for a place is one step, and so is   *)
(* every turn of the loops that rebalance the tree.  Left and right are    *)
(* the same code mirrored, and one definition with a side here.            *)
(***************************************************************************)
EXTENDS Integers, FiniteSetsExt

CONSTANTS
    Keys,       \* hash values, the keys of the tree
    Servers,
    None,       \* no server
    Hashes      \* the hash functions considered: the positions of the virtual
                \* nodes of every server

ASSUME RBTreeAssumption ==
    /\ IsFiniteSet(Keys) /\ Keys \subseteq Nat \ {0}
    /\ None \notin Servers
    /\ \A f \in Hashes :
         /\ f \in [Servers -> SUBSET Keys]
         /\ \A s, u \in Servers : s # u => f[s] \cap f[u] = {}

Null == 0    \* the sentinel rbtree->null, whose parent pointer is used too
NIL == -1    \* a null pointer
Nodes == Keys \cup {Null}
Ptr == Nodes \cup {NIL}

VARIABLES
    hash,   \* hash[s]: the positions of the virtual nodes of s
    mem,    \* mem[n]: the node's parent, left, right and color
    root, size,
    ring,   \* the servers whose virtual nodes are all in the tree
    call    \* what is going on: kind ("add", "del", "fini" or "none"), the
            \* server, the virtual nodes it has still to do (todo), where it
            \* stands in the current one (at), and the local node of the fixup

vars == <<hash, mem, root, size, ring, call>>

Idle == [kind |-> "none", server |-> None, todo |-> {}, at |-> "next", node |-> NIL]

Fresh == [parent |-> NIL, left |-> NIL, right |-> NIL, color |-> "black"]

(* util_rbtree_init() *)
Init ==
    /\ hash \in Hashes
    /\ mem = [n \in Nodes |-> Fresh]
    /\ root = Null /\ size = 0
    /\ ring = {} /\ call = Idle

-----------------------------------------------------------------------------
(* Pointers                                                                *)

Other(side) == IF side = "left" THEN "right" ELSE "left"
IsRed(m, n) == m[n].color = "red"
Paint(m, S, c) == [n \in Nodes |-> IF n \in S THEN [m[n] EXCEPT !.color = c] ELSE m[n]]
SideOf(m, n) == IF n = m[m[n].parent].left THEN "left" ELSE "right"

(* rbtree_left_rotate(), rbtree_right_rotate(): the child c on the other   *)
(* side takes the place of n, and n becomes its child and takes over cc.   *)
Rotate(t, n, side) ==
    LET m == t.mem
        c == m[n][Other(side)]
        cc == m[c][side]
        p == m[n].parent
        turned == [m EXCEPT ![c].parent = p, ![c][side] = n,
                            ![n].parent = c, ![n][Other(side)] = cc]
        hung == IF n = t.root THEN turned ELSE [turned EXCEPT ![p][SideOf(m, n)] = c]
    IN  [mem |-> IF cc # Null THEN [hung EXCEPT ![cc].parent = n] ELSE hung,
         root |-> IF n = t.root THEN c ELSE t.root]

Tree(m, r) == [mem |-> m, root |-> r]
Become(t) == mem' = t.mem /\ root' = t.root

(* The loops that walk down from the root.                                 *)
RECURSIVE Search(_, _), LookupFrom(_, _, _), SubtreeMin(_), PlaceBelow(_, _)

(* util_rbtree_search() *)
Search(n, k) ==
    IF n = Null THEN NIL ELSE IF n = k THEN n
    ELSE Search(IF k < n THEN mem[n].left ELSE mem[n].right, k)
Found(k) == Search(root, k) # NIL

(* util_rbsubtree_min() *)
SubtreeMin(n) == IF mem[n].left = Null THEN n ELSE SubtreeMin(mem[n].left)

(* util_rbtree_lookup(): the last node on the way down that is not before  *)
(* h, else the minimum of the tree.                                        *)
LookupFrom(n, h, node) ==
    IF n = Null THEN (IF node = NIL THEN SubtreeMin(root) ELSE node)
    ELSE IF h <= n THEN LookupFrom(mem[n].left, h, n) ELSE LookupFrom(mem[n].right, h, node)

(* MUTANT: a hash that is the position of a virtual node goes to the next. *)
LookupAfter(h) == IF root = Null THEN NIL ELSE LookupFrom(root, h + 1, NIL)

Lookup(h) == IF root = Null THEN NIL ELSE LookupFrom(root, h, NIL)

(* util_rbtree_insert(): the node below which k goes.                      *)
PlaceBelow(n, k) ==
    LET c == IF k < n THEN mem[n].left ELSE mem[n].right
    IN  IF c = Null THEN n ELSE PlaceBelow(c, k)

-----------------------------------------------------------------------------
(* util_rbtree_insert()                                                    *)

Goto(at, n) == call' = [call EXCEPT !.at = at, !.node = n]

(* __conhash_add_replicas(): the node goes below the end of its way down,  *)
(* red and without children.                                               *)
Insert(k) ==
    /\ call.kind = "add" /\ call.at = "next" /\ k \in call.todo
    /\ ~Found(k)
    /\ LET y == IF root = Null THEN Null ELSE PlaceBelow(root, k)
           new == [mem EXCEPT ![k] = [parent |-> y, left |-> Null, right |-> Null,
                                      color |-> "red"]]
       IN  IF root = Null THEN Become(Tree(new, k))
           ELSE Become(Tree([new EXCEPT ![y][IF k < y THEN "left" ELSE "right"] = k], root))
    /\ call' = [call EXCEPT !.todo = @ \ {k}, !.at = "insert_fixup", !.node = k]
    /\ UNCHANGED <<hash, size, ring>>

(* One turn of rbtree_insert_fixup(): the parent p and the node are red.   *)
(* With a red uncle u the conflict moves up to the grandparent; otherwise  *)
(* one or two rotations end it (inner: the node is the inner grandchild).  *)
InsertFixup ==
    /\ call.at = "insert_fixup" /\ IsRed(mem, mem[call.node].parent)
    /\ LET n == call.node
           p == mem[n].parent
           g == mem[p].parent
           side == SideOf(mem, p)
           u == mem[g][Other(side)]
           inner == n = mem[p][Other(side)]
       IN  IF IsRed(mem, u)
             THEN /\ mem' = Paint(Paint(mem, {u, p}, "black"), {g}, "red")
                  /\ root' = root
                  /\ Goto("insert_fixup", g)
             ELSE LET t1 == IF inner THEN Rotate(Tree(mem, root), p, side) ELSE Tree(mem, root)
                      n1 == IF inner THEN p ELSE n
                      p1 == t1.mem[n1].parent
                      g1 == t1.mem[p1].parent
                      m1 == Paint(Paint(t1.mem, {p1}, "black"), {g1}, "red")
                  IN  /\ Become(Rotate(Tree(m1, t1.root), g1, Other(side)))
                      /\ Goto("insert_fixup", n1)
    /\ UNCHANGED <<hash, size, ring>>

InsertEnd ==
    /\ call.at = "insert_fixup" /\ ~IsRed(mem, mem[call.node].parent)
    /\ mem' = Paint(mem, {root}, "black")
    /\ size' = size + 1
    /\ Goto("next", NIL)
    /\ UNCHANGED <<hash, root, ring>>

-----------------------------------------------------------------------------
(* util_rbtree_delete()                                                    *)

(* temp, the node whose place is given up, and subst, its only child; temp *)
(* then takes the place of the node to delete, which is cleared and freed. *)
(* A root without two children is replaced by its child, whose parent      *)
(* pointer the code leaves alone.  What is forgotten differs in mutants.   *)
DeleteBut(k, forgotten) ==
    /\ call.at = "next" /\ k \in call.todo /\ Found(k)
    /\ \/ call.kind = "del"
       \/ call.kind = "fini" /\ k = root
    /\ LET temp == IF Null \in {mem[k].left, mem[k].right} THEN k
                   ELSE SubtreeMin(mem[k].right)
           subst == IF mem[temp].left # Null THEN mem[temp].left ELSE mem[temp].right
           p == mem[temp].parent
           cut == [mem EXCEPT ![subst].parent = IF p = k THEN temp ELSE p,
                              ![p][SideOf(mem, temp)] = subst]
           put == [cut EXCEPT ![temp] =
                     IF forgotten = "left" THEN [cut[k] EXCEPT !.left = Null] ELSE cut[k]]
           hung == IF k = root THEN put ELSE [put EXCEPT ![put[k].parent][SideOf(mem, k)] = temp]
           moved == [n \in Nodes |->
                       IF n # Null /\ n \in {hung[temp].left, hung[temp].right}
                         THEN [hung[n] EXCEPT !.parent = temp] ELSE hung[n]]
           t == CASE temp = root -> Tree(Paint(mem, {subst}, "black"), subst)
                  [] temp # root /\ temp = k -> Tree(cut, root)
                  [] OTHER -> Tree(moved, IF k = root THEN temp ELSE root)
           fix == temp # root /\ ~IsRed(mem, temp)
       IN  /\ Become(Tree([t.mem EXCEPT ![k] = Fresh], t.root))
           /\ call' = [call EXCEPT !.todo = @ \ {k},
                                   !.at = IF fix THEN "delete_fixup" ELSE "next",
                                   !.node = IF fix THEN subst ELSE NIL]
    /\ size' = size - 1
    /\ UNCHANGED <<hash, ring>>

(* MUTANT: temp does not take over the left child of the node. *)
DeleteLosesLeft(k) == DeleteBut(k, "left")

Delete(k) == DeleteBut(k, "nothing")

(* One turn of rbtree_delete_fixup(): the way through the node is one      *)
(* black node short, and w is its sibling.  A red w is rotated away; with  *)
(* two black children w is painted red and the shortage moves up to the    *)
(* parent; otherwise w takes the parent's place, after its inner child has *)
(* been rotated outside if that is the red one.                            *)
FixupBut(forgotten) ==
    /\ call.at = "delete_fixup" /\ call.node # root /\ ~IsRed(mem, call.node)
    /\ LET p == mem[call.node].parent
           in == SideOf(mem, call.node)
           out == Other(in)
           Sibling(t) == t.mem[p][out]
           w == mem[p][out]
           t1 == IF IsRed(mem, w)
                   THEN Rotate(Tree(Paint(Paint(mem, {w}, "black"), {p}, "red"), root), p, in)
                   ELSE Tree(mem, root)
           w1 == Sibling(t1)
           near == t1.mem[w1][in]
           far == t1.mem[w1][out]
           t2 == IF IsRed(t1.mem, far) THEN t1
                 ELSE Rotate(Tree(Paint(Paint(t1.mem, {near}, "black"), {w1}, "red"), t1.root),
                             w1, out)
           w2 == Sibling(t2)
           m3 == Paint([t2.mem EXCEPT ![w2].color = IF forgotten = "color" THEN @ ELSE t2.mem[p].color],
                       {p, t2.mem[w2][out]}, "black")
           t3 == Rotate(Tree(m3, t2.root), p, in)
       IN  IF ~IsRed(t1.mem, near) /\ ~IsRed(t1.mem, far)
             THEN Become(Tree(Paint(t1.mem, {w1}, "red"), t1.root)) /\ Goto("delete_fixup", p)
             ELSE Become(t3) /\ Goto("delete_fixup", t3.root)
    /\ UNCHANGED <<hash, size, ring>>

(* MUTANT: w keeps its own color when it takes the place of the parent.    *)
DeleteFixupKeepsColor == FixupBut("color")

DeleteFixup == FixupBut("nothing")

DeleteEnd ==
    /\ call.at = "delete_fixup" /\ (call.node = root \/ IsRed(mem, call.node))
    /\ mem' = Paint(mem, {call.node}, "black")
    /\ Goto("next", NIL)
    /\ UNCHANGED <<hash, root, size, ring>>

-----------------------------------------------------------------------------
(* The callers                                                             *)

Start(kind, s, todo) == call' = [Idle EXCEPT !.kind = kind, !.server = s, !.todo = todo]

(* conhash_add_node() *)
AddNode(s) ==
    /\ call.kind = "none" /\ s \notin ring
    /\ Start("add", s, hash[s])
    /\ UNCHANGED <<hash, mem, root, size, ring>>

(* conhash_del_node() *)
DelNode(s) ==
    /\ call.kind = "none" /\ s \in ring
    /\ Start("del", s, hash[s])
    /\ ring' = ring \ {s}
    /\ UNCHANGED <<hash, mem, root, size>>

(* conhash_fini(), which deletes whatever is at the root until the tree is *)
(* empty: the servers empty their ring this way before they rebuild it.    *)
FiniNode ==
    /\ call.kind = "none" /\ ring # {}
    /\ Start("fini", None, UNION {hash[s] : s \in ring})
    /\ ring' = {}
    /\ UNCHANGED <<hash, mem, root, size>>

(* The call returns; after conhash_fini(), conhash_init() makes a new tree. *)
Return ==
    /\ call.kind # "none" /\ call.at = "next" /\ call.todo = {}
    /\ call' = Idle
    /\ ring' = IF call.kind = "add" THEN ring \cup {call.server} ELSE ring
    /\ mem' = IF call.kind = "fini" THEN [n \in Nodes |-> Fresh] ELSE mem
    /\ UNCHANGED <<hash, root, size>>

Next ==
    \/ \E s \in Servers : AddNode(s) \/ DelNode(s)
    \/ \E k \in Keys : Insert(k) \/ Delete(k)
    \/ InsertFixup \/ InsertEnd
    \/ DeleteFixup \/ DeleteEnd
    \/ FiniNode \/ Return

Spec == Init /\ [][Next]_vars

-----------------------------------------------------------------------------
(* Properties                                                              *)

(* Every variable has its type; size counts no more nodes than there are   *)
(* keys and never goes below zero.                                         *)
TypeOK ==
    /\ mem \in [Nodes -> [parent : Ptr, left : Ptr, right : Ptr, color : {"red", "black"}]]
    /\ root \in Nodes /\ size \in 0..Cardinality(Keys)
    /\ ring \subseteq Servers
    /\ call.kind \in {"none", "add", "del", "fini"} /\ call.todo \subseteq Keys
    /\ call.at \in {"next", "insert_fixup", "delete_fixup"} /\ call.node \in Ptr

(* The keys that the calls so far have put into the tree. *)
Held ==
    UNION {hash[s] : s \in ring}
      \cup (IF call.kind = "add" THEN hash[call.server] \ call.todo ELSE call.todo)

(* The ways down from a node to the sentinel: every node met, with the     *)
(* number of black nodes above it.                                         *)
RECURSIVE Ways(_, _)
Ways(n, black) ==
    {<<n, black>>} \cup
      (IF n = Null THEN {}
       ELSE UNION {Ways(mem[n][side], black + (IF IsRed(mem, n) THEN 0 ELSE 1)) :
                     side \in {"left", "right"}})

Reachable == {w[1] : w \in Ways(root, 0)} \ {Null}

(* Through every rotation and replacement of util_rbtree_insert() and      *)
(* util_rbtree_delete(), the searches of the ring stay exact:              *)
(* util_rbtree_search() finds the keys inserted and not deleted and no     *)
(* other, and util_rbtree_lookup() the first of them at or after a hash,   *)
(* or the smallest when there is none, or NULL when the tree is empty.     *)
LookupIsFirstAfter ==
    LET held == Held
        First(h) == IF held = {} THEN NIL
                    ELSE LET after == {k \in held : h <= k}
                         IN  Min(IF after # {} THEN after ELSE held)
    IN  /\ \A k \in Keys : Found(k) <=> k \in held
        /\ \A h \in {0} \cup {k + 1 : k \in Keys} : Lookup(h) = First(h)

(* Between two calls of the tree it is red and black by the book: the root *)
(* is black, a red node has no red child and every way down to the         *)
(* sentinel passes the same number of black nodes, which is what keeps     *)
(* conhash_lookup() logarithmic however servers come and go.               *)
Balanced ==
    call.at = "next" =>
      LET ways == Ways(root, 0)
      IN  /\ ~IsRed(mem, root)
          /\ \A w \in ways : IsRed(mem, w[1]) =>
               ~IsRed(mem, mem[w[1]].left) /\ ~IsRed(mem, mem[w[1]].right)
          /\ \A v, w \in ways : v[1] = Null /\ w[1] = Null => v[2] = w[2]

(* No link of the tree leads to a freed node: the parent of a child is the *)
(* node itself, and the parent of the root is the sentinel, unless all     *)
(* that is left is about to be deleted: util_rbtree_delete() does not      *)
(* correct the parent of a child that becomes the root.                    *)
LinksAgree ==
    /\ \A n \in Reachable : \A side \in {"left", "right"} :
         mem[n][side] # Null => mem[mem[n][side]].parent = n
    /\ root = Null \/ mem[root].parent = Null \/ Held \subseteq call.todo

(* The red-black tree of a textbook, between any two calls. *)
RedBlackTree == TypeOK /\ LinksAgree /\ Balanced

(* Seen through its child links, the tree is a set that gains or loses one *)
(* key at a time: no step of a rebalancing drops or duplicates a subtree.  *)
Abstract == INSTANCE KeySet WITH keys <- Reachable
ImplementsSet == Abstract!SetSpec
=============================================================================

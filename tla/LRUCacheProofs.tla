--------------------------- MODULE LRUCacheProofs ---------------------------
(***************************************************************************)
(* The list and the map of LRUCache, for any keys and values, any capacity *)
(* and any number of nodes.                                                *)
(***************************************************************************)
EXTENDS LRUHistory, LRUOpsProofs, FiniteSetTheorems, WellFoundedInduction

-----------------------------------------------------------------------------
(* Walk, a recursive function, is what its definition says                 *)

(* Every set of natural numbers has a least one: the initial segments up   *)
(* to its numbers are finite sets, one of them contains no other.          *)
LEMMA Least ==
  ASSUME NEW S \in SUBSET Nat, S # {}
  PROVE  \E m \in S : \A k \in S : m <= k
<1>. DEFINE T == {0..m : m \in S}
            R == StrictSubsetOrdering(Nat)
<1>1. IsWellFoundedOn(R, FiniteSubsetsOf(Nat)) BY FS_StrictSubsetOrderingWellFounded
<1>2. T \subseteq FiniteSubsetsOf(Nat) /\ T # {}
  <2>1. \A m \in S : IsFiniteSet(0..m) /\ 0..m \subseteq Nat BY FS_Interval
  <2>. QED BY <2>1 DEF FiniteSubsetsOf
<1>3. PICK x \in T : \A y \in T : ~(<<y, x>> \in R)
  <2>. HIDE DEF T, R
  <2>. QED BY <1>1, <1>2, WFMin
<1>4. PICK m \in S : x = 0..m OBVIOUS
<1>5. ASSUME NEW k \in S PROVE m <= k
  <2>1. CASE k < m
    <3>1. 0..k \subseteq 0..m /\ 0..k # 0..m /\ 0..m \in SUBSET Nat /\ 0..k \in SUBSET Nat
      <4>1. m \in 0..m /\ ~(m \in 0..k) BY <2>1
      <4>. QED BY <2>1, <4>1
    <3>2. <<0..k, 0..m>> \in R BY <3>1 DEF StrictSubsetOrdering
    <3>3. 0..k \in T OBVIOUS
    <3>. QED BY <1>3, <1>4, <3>2, <3>3
  <2>. QED BY <2>1
<1>. QED BY <1>5

(* One turn of the loop of lru_keys_oneshot(), when n turns are left and f *)
(* is what the turns after it give                                         *)
Links == Cells \cup {nullptr}
Turn(n, f) ==
    [x \in Links |-> IF n = 0 \/ x \in {head, tail, nullptr} THEN <<>> ELSE <<x>> \o f[next[x]]]
Walks(m, f) == f = [n \in 0..m |-> Turn(n, f[n - 1])]

(* There is a function that takes any number of turns: one more can be     *)
(* added to it                                                             *)
LEMMA WalkExists ==
  ASSUME NEW m \in Nat
  PROVE  \E f : Walks(m, f)
<1>. DEFINE S == {n \in Nat : ~\E f : Walks(n, f)}
<1>1. SUFFICES ASSUME S # {} PROVE FALSE OBVIOUS
<1>2. PICK n \in S : \A k \in S : n <= k
  <2>. S \in SUBSET Nat OBVIOUS
  <2>. HIDE DEF S
  <2>. QED BY <1>1, Least
<1>3. CASE n = 0
  <2>. DEFINE g == [i \in 0..0 |-> Turn(0, <<>>)]
  <2>1. Turn(0, <<>>) = Turn(0, g[-1]) BY DEF Turn
  <2>2. g = [i \in 0..0 |-> Turn(i, g[i - 1])]
    <3>1. \A i \in 0..0 : i = 0 OBVIOUS
    <3>. QED BY <2>1, <3>1
  <2>3. Walks(0, g) BY <2>2 DEF Walks
  <2>. QED BY <1>3, <2>3
<1>4. CASE n # 0
  <2>1. n - 1 \in Nat /\ n - 1 \notin S BY <1>2, <1>4
  <2>2. PICK f : Walks(n - 1, f) BY <2>1
  <2>. DEFINE g == [i \in 0..n |-> IF i = n THEN Turn(n, f[n - 1]) ELSE f[i]]
  <2>3. ASSUME NEW i \in 0..n
        PROVE  g[i] = Turn(i, g[i - 1])
    <3>1. CASE i = n
      <4>1. n - 1 \in 0..n /\ n - 1 # n BY <2>1
      <4>2. g[n - 1] = f[n - 1] BY <4>1
      <4>. QED BY <3>1, <4>2
    <3>2. CASE i \in 1..n - 1
      <4>1. i - 1 \in 0..n /\ i - 1 # n /\ i \in 0..n - 1 BY <2>1, <3>2
      <4>2. g[i - 1] = f[i - 1] /\ g[i] = f[i] BY <3>2, <4>1
      <4>3. f[i] = Turn(i, f[i - 1]) BY <2>2, <4>1 DEF Walks
      <4>. QED BY <4>2, <4>3
    <3>3. CASE i = 0 /\ n # 0
      <4>1. 0 \in 0..n - 1 /\ 0 \in 0..n BY <2>1
      <4>2. f[0] = Turn(0, f[0 - 1]) BY <2>2, <4>1 DEF Walks
      <4>3. g[0] = f[0] BY <3>3, <4>1
      <4>4. Turn(0, f[0 - 1]) = Turn(0, g[0 - 1]) BY DEF Turn
      <4>. QED BY <3>3, <4>2, <4>3, <4>4
    <3>. QED BY <1>4, <2>1, <3>1, <3>2, <3>3
  <2>4. g = [i \in 0..n |-> g[i]] OBVIOUS
  <2>. HIDE DEF g
  <2>5. Walks(n, g) BY <2>3, <2>4 DEF Walks
  <2>. QED BY <2>5
<1>. QED BY <1>3, <1>4

Turns == Cardinality(Nodes) + 1

(* Walk is that function for as many turns as it may need *)
LEMMA WalkIs ==
  /\ Turns \in Nat
  /\ \A n \in 0..Turns : Walk[n] = Turn(n, Walk[n - 1])
<1>1. Turns \in Nat BY NodesAssumption, FS_CardinalityType DEF NodesAssumption, Turns
<1>2. Walk = CHOOSE f : Walks(Turns, f) BY DEF Walk, Walks, Turn, Turns, Links
<1>3. \E f : Walks(Turns, f) BY <1>1, WalkExists
<1>4. Walks(Turns, Walk) BY <1>2, <1>3
<1>5. ASSUME NEW n \in 0..Turns PROVE Walk[n] = Turn(n, Walk[n - 1])
  BY <1>4 DEF Walks
<1>. QED BY <1>1, <1>5
-----------------------------------------------------------------------------
(* The doubly linked list                                                  *)

(* The i-th stop on the way from head to tail through the nodes of s *)
Stop(s, i) == IF i = 0 THEN head ELSE IF i = Len(s) + 1 THEN tail ELSE s[i]

(* The links of l lead through the nodes of s, once through each, and back *)
Linked(l, s) ==
    /\ l.next \in [Cells -> Links] /\ l.prev \in [Cells -> Links]
    /\ s \in Seq(Nodes)
    /\ \A i, j \in 1..Len(s) : s[i] = s[j] => i = j
    /\ l.size = Len(s)
    /\ \A i \in 0..Len(s) : /\ l.next[Stop(s, i)] = Stop(s, i + 1)
                            /\ l.prev[Stop(s, i + 1)] = Stop(s, i)

(* The stops are cells, each another one *)
LEMMA Stops ==
  ASSUME NEW s \in Seq(Nodes), \A i, j \in 1..Len(s) : s[i] = s[j] => i = j
  PROVE  /\ \A i \in 0..Len(s) + 1 : Stop(s, i) \in Cells
         /\ \A i, j \in 0..Len(s) + 1 : Stop(s, i) = Stop(s, j) => i = j
         /\ \A i \in 1..Len(s) : Stop(s, i) = s[i] /\ s[i] \in Nodes
         /\ Stop(s, 0) = head /\ Stop(s, Len(s) + 1) = tail
<1>1. Len(s) \in Nat OBVIOUS
<1>2. \A i \in 1..Len(s) : Stop(s, i) = s[i] /\ s[i] \in Nodes BY <1>1 DEF Stop
<1>3. Stop(s, 0) = head /\ Stop(s, Len(s) + 1) = tail BY <1>1 DEF Stop
<1>4. head \notin Nodes /\ tail \notin Nodes /\ head # tail
  BY NodesAssumption DEF NodesAssumption
<1>5. \A i \in 0..Len(s) + 1 : i = 0 \/ i = Len(s) + 1 \/ i \in 1..Len(s) BY <1>1
<1>6. \A i \in 0..Len(s) + 1 : Stop(s, i) \in Cells BY <1>2, <1>3, <1>5 DEF Cells
<1>7. ASSUME NEW i \in 0..Len(s) + 1, NEW j \in 0..Len(s) + 1, Stop(s, i) = Stop(s, j)
      PROVE  i = j
  <2>1. CASE i \in 1..Len(s) /\ j \in 1..Len(s) BY <1>2, <1>7, <2>1
  <2>2. CASE i = 0 BY <1>2, <1>3, <1>4, <1>5, <1>7, <2>2
  <2>3. CASE i = Len(s) + 1 BY <1>2, <1>3, <1>4, <1>5, <1>7, <2>3
  <2>4. CASE i \in 1..Len(s) /\ j \notin 1..Len(s) BY <1>2, <1>3, <1>4, <1>5, <1>7, <2>4
  <2>. QED BY <1>5, <2>1, <2>2, <2>3, <2>4
<1>. QED BY <1>2, <1>3, <1>6, <1>7

(* A list has at most as many nodes as there are *)
LEMMA Length ==
  ASSUME NEW s \in Seq(Nodes), \A i, j \in 1..Len(s) : s[i] = s[j] => i = j
  PROVE  Len(s) \in Nat /\ Len(s) <= Cardinality(Nodes)
<1>1. Len(s) \in Nat OBVIOUS
<1>2. s \in [1..Len(s) -> Nodes] OBVIOUS
<1>3. s \in Injection(1..Len(s), Nodes) BY <1>2 DEF Injection, IsInjective
<1>4. Cardinality(1..Len(s)) <= Cardinality(Nodes)
  BY <1>3, FS_Injection, NodesAssumption DEF NodesAssumption
<1>5. Cardinality(1..Len(s)) = Len(s)
  <2>1. 1 \in Int /\ Len(s) \in Int BY <1>1
  <2>2. Cardinality(1..Len(s)) = IF 1 > Len(s) THEN 0 ELSE Len(s) - 1 + 1 BY <2>1, FS_Interval
  <2>. QED BY <1>1, <2>2
<1>. QED BY <1>1, <1>4, <1>5

(* Following the links from head meets the nodes of s in their order *)
LEMMA ChainIs ==
  ASSUME NEW s, Linked(List, s)
  PROVE  Chain = s
<1>1. /\ s \in Seq(Nodes) /\ Len(s) \in Nat /\ Len(s) <= Cardinality(Nodes)
      /\ Turns \in Nat /\ Len(s) < Turns /\ Cardinality(Nodes) \in Nat
  BY Length, WalkIs, FS_CardinalityType, NodesAssumption DEF Linked, Turns, NodesAssumption
<1>2. \A i \in 0..Len(s) : next[Stop(s, i)] = Stop(s, i + 1) BY DEF Linked, List
<1>3. /\ \A i \in 0..Len(s) + 1 : Stop(s, i) \in Cells
      /\ \A i \in 1..Len(s) : Stop(s, i) = s[i] /\ s[i] \in Nodes
      /\ Stop(s, 0) = head /\ Stop(s, Len(s) + 1) = tail
  BY Stops DEF Linked
<1>. DEFINE Bad == {d \in 0..Len(s) : \E n \in d..Turns :
                      Walk[n][Stop(s, Len(s) + 1 - d)] # SubSeq(s, Len(s) + 1 - d, Len(s))}
<1>4. Bad = {}
  <2>1. SUFFICES ASSUME Bad # {} PROVE FALSE OBVIOUS
  <2>2. PICK d \in Bad : \A e \in Bad : d <= e
    <3>1. Bad \in SUBSET Nat BY <1>1
    <3>. HIDE DEF Bad
    <3>. QED BY <2>1, <3>1, Least
  <2>3. PICK n \in d..Turns :
           Walk[n][Stop(s, Len(s) + 1 - d)] # SubSeq(s, Len(s) + 1 - d, Len(s))
    OBVIOUS
  <2>4. d \in 0..Len(s) /\ n \in 0..Turns BY <1>1
  <2>5. Walk[n] = Turn(n, Walk[n - 1]) BY <2>4, WalkIs
  <2>6. CASE d = 0
    <3>1. Walk[n][tail] = <<>> BY <2>5 DEF Turn, Links, Cells
    <3>2. SubSeq(s, Len(s) + 1, Len(s)) = <<>> BY <1>1, SubSeqEmpty
    <3>3. Len(s) + 1 - d = Len(s) + 1 BY <1>1, <2>6
    <3>. QED BY <1>3, <2>3, <3>1, <3>2, <3>3
  <2>7. CASE d # 0
    <3>1. PICK i \in 1..Len(s) : i = Len(s) + 1 - d BY <1>1, <2>4, <2>7
    <3>2. n # 0 /\ n - 1 \in d - 1..Turns /\ d - 1 \in 0..Len(s) BY <1>1, <2>4, <2>7
    <3>3. d - 1 \notin Bad
      <4>1. ~(d <= d - 1) BY <2>4
      <4>. HIDE DEF Bad
      <4>. QED BY <2>2, <4>1
    <3>4. Walk[n - 1][Stop(s, Len(s) + 1 - (d - 1))]
             = SubSeq(s, Len(s) + 1 - (d - 1), Len(s))
      BY <3>2, <3>3
    <3>5. Len(s) + 1 - (d - 1) = i + 1 BY <1>1, <2>4, <3>1
    <3>6. next[s[i]] = Stop(s, i + 1)
      <4>1. i \in 0..Len(s) BY <1>1
      <4>2. next[Stop(s, i)] = Stop(s, i + 1) BY <1>2, <4>1
      <4>. QED BY <1>3, <4>2
    <3>7. s[i] \in Links /\ s[i] \notin {head, tail, nullptr}
      BY <1>3, NodesAssumption DEF NodesAssumption, Links, Cells
    <3>8. Walk[n][s[i]] = <<s[i]>> \o Walk[n - 1][next[s[i]]]
      BY <2>5, <3>2, <3>7 DEF Turn
    <3>9. SubSeq(s, i, Len(s)) = <<s[i]>> \o SubSeq(s, i + 1, Len(s))
      <4>1. i \in 1..Len(s) /\ Len(s) \in i..Len(s) BY <1>1
      <4>. QED BY <1>1, <4>1, SubSeqRecursiveFirst
    <3>. QED BY <1>3, <2>3, <3>1, <3>4, <3>5, <3>6, <3>8, <3>9
  <2>. QED BY <2>6, <2>7
<1>5. Walk[Turns][Stop(s, 1)] = SubSeq(s, 1, Len(s))
  <2>1. Len(s) \in 0..Len(s) /\ Turns \in Len(s)..Turns /\ Len(s) + 1 - Len(s) = 1 BY <1>1
  <2>. QED BY <1>4, <2>1
<1>6. next[head] = Stop(s, 1)
  <2>1. 0 \in 0..Len(s) BY <1>1
  <2>. QED BY <1>2, <1>3, <2>1
<1>. QED BY <1>1, <1>5, <1>6, SubSeqFull DEF Chain, Turns

(* remove() of a node leaves a list of the others *)
LEMMA RemoveLinked ==
  ASSUME NEW l, NEW s, Linked(l, s), NEW a \in 1..Len(s)
  PROVE  /\ Linked(remove(l, s[a]), RemoveAt(s, a))
         /\ ToSet(RemoveAt(s, a)) = ToSet(s) \ {s[a]}
<1>. DEFINE t == RemoveAt(s, a)
            r == remove(l, s[a])
<1>1. s \in Seq(Nodes) /\ Len(s) \in Nat /\ a \in Nat /\ l.size = Len(s) BY DEF Linked
<1>2. /\ t \in Seq(Nodes) /\ Len(t) = Len(s) - 1 /\ Len(t) \in Nat
      /\ \A j \in 1..Len(s) - 1 : t[j] = IF j < a THEN s[j] ELSE s[j + 1]
  BY <1>1, RemoveCells
<1>3. /\ \A i \in 0..Len(s) + 1 : Stop(s, i) \in Cells
      /\ \A i, j \in 0..Len(s) + 1 : Stop(s, i) = Stop(s, j) => i = j
      /\ \A i \in 1..Len(s) : Stop(s, i) = s[i] /\ s[i] \in Nodes
      /\ Stop(s, 0) = head /\ Stop(s, Len(s) + 1) = tail
  BY Stops DEF Linked
<1>. HIDE DEF t
<1>4. ASSUME NEW i \in 0..Len(s)
      PROVE  Stop(t, i) = IF i < a THEN Stop(s, i) ELSE Stop(s, i + 1)
  <2>1. CASE i = 0 BY <1>1, <1>2, <1>3, <2>1 DEF Stop
  <2>2. CASE i = Len(s)
    <3>1. i = Len(t) + 1 /\ i # 0 BY <1>1, <1>2, <2>2
    <3>2. Stop(t, i) = tail BY <3>1 DEF Stop
    <3>. QED BY <1>1, <1>3, <2>2, <3>2
  <2>3. CASE i \in 1..Len(s) - 1
    <3>1. i # 0 /\ i # Len(t) + 1 /\ i \in 1..Len(s) /\ i + 1 \in 1..Len(s)
      BY <1>1, <1>2, <2>3
    <3>2. Stop(t, i) = t[i] BY <3>1 DEF Stop
    <3>. QED BY <1>2, <1>3, <2>3, <3>1, <3>2
  <2>. QED BY <1>1, <2>1, <2>2, <2>3
<1>5. /\ l.prev[s[a]] = Stop(s, a - 1) /\ l.next[s[a]] = Stop(s, a + 1)
      /\ Stop(s, a - 1) \in Cells /\ Stop(s, a + 1) \in Cells
  <2>1. a \in 0..Len(s) /\ a - 1 \in 0..Len(s) /\ (a - 1) + 1 = a
        /\ a - 1 \in 0..Len(s) + 1 /\ a + 1 \in 0..Len(s) + 1
    BY <1>1
  <2>. QED BY <1>3, <2>1 DEF Linked
<1>6. /\ r.next = [l.next EXCEPT ![Stop(s, a - 1)] = Stop(s, a + 1)]
      /\ r.prev = [l.prev EXCEPT ![Stop(s, a + 1)] = Stop(s, a - 1)]
      /\ r.size = Len(t)
  BY <1>1, <1>2, <1>5 DEF remove
<1>. HIDE DEF r
<1>7. r.next \in [Cells -> Links] /\ r.prev \in [Cells -> Links]
  BY <1>5, <1>6 DEF Linked, Links
<1>8. \A i, j \in 1..Len(t) : t[i] = t[j] => i = j
  <2>1. SUFFICES ASSUME NEW i \in 1..Len(t), NEW j \in 1..Len(t), t[i] = t[j] PROVE i = j
    OBVIOUS
  <2>2. /\ i \in 1..Len(s) - 1 /\ j \in 1..Len(s) - 1 /\ i \in 1..Len(s) /\ j \in 1..Len(s)
        /\ i + 1 \in 1..Len(s) /\ j + 1 \in 1..Len(s)
    BY <1>1, <1>2
  <2>3. t[i] = (IF i < a THEN s[i] ELSE s[i + 1]) /\ t[j] = (IF j < a THEN s[j] ELSE s[j + 1])
    BY <1>2, <2>2
  <2>4. \A p, q \in 1..Len(s) : s[p] = s[q] => p = q BY DEF Linked
  <2>5. CASE i < a /\ j < a BY <2>1, <2>2, <2>3, <2>4, <2>5
  <2>6. CASE i < a /\ ~(j < a)
    <3>1. i = j + 1 BY <2>1, <2>2, <2>3, <2>4, <2>6
    <3>. QED BY <1>1, <2>2, <2>6, <3>1
  <2>7. CASE ~(i < a) /\ j < a
    <3>1. j = i + 1 BY <2>1, <2>2, <2>3, <2>4, <2>7
    <3>. QED BY <1>1, <2>2, <2>7, <3>1
  <2>8. CASE ~(i < a) /\ ~(j < a)
    <3>1. i + 1 = j + 1 BY <2>1, <2>2, <2>3, <2>4, <2>8
    <3>. QED BY <2>2, <3>1
  <2>. QED BY <2>5, <2>6, <2>7, <2>8
<1>9. ASSUME NEW i \in 0..Len(t)
      PROVE  r.next[Stop(t, i)] = Stop(t, i + 1) /\ r.prev[Stop(t, i + 1)] = Stop(t, i)
  <2>1. /\ i \in 0..Len(s) /\ i + 1 \in 0..Len(s) /\ i \in 0..Len(s) + 1
        /\ i + 1 \in 0..Len(s) + 1 /\ i + 2 \in 0..Len(s) + 1 /\ (i + 1) + 1 = i + 2
        /\ a - 1 \in 0..Len(s) + 1 /\ a + 1 \in 0..Len(s) + 1
    BY <1>1, <1>2
  <2>2. /\ l.next[Stop(s, i)] = Stop(s, i + 1) /\ l.prev[Stop(s, i + 1)] = Stop(s, i)
        /\ l.next[Stop(s, i + 1)] = Stop(s, i + 2) /\ l.prev[Stop(s, i + 2)] = Stop(s, i + 1)
    BY <2>1 DEF Linked
  <2>3. CASE i < a - 1
    <3>1. i < a /\ i + 1 < a /\ i # a - 1 /\ i + 1 # a + 1 BY <1>1, <2>1, <2>3
    <3>2. Stop(t, i) = Stop(s, i) /\ Stop(t, i + 1) = Stop(s, i + 1) BY <1>4, <2>1, <3>1
    <3>3. Stop(s, i) # Stop(s, a - 1) /\ Stop(s, i + 1) # Stop(s, a + 1) BY <1>3, <2>1, <3>1
    <3>. QED BY <1>3, <1>6, <2>1, <2>2, <3>2, <3>3 DEF Linked
  <2>4. CASE i = a - 1
    <3>1. i < a /\ ~(i + 1 < a) /\ i + 2 = a + 1 BY <1>1, <2>1, <2>4
    <3>2. Stop(t, i) = Stop(s, a - 1) /\ Stop(t, i + 1) = Stop(s, a + 1)
      BY <1>4, <2>1, <2>4, <3>1
    <3>. QED BY <1>5, <1>6, <3>2 DEF Linked
  <2>5. CASE i > a - 1
    <3>1. ~(i < a) /\ ~(i + 1 < a) /\ i + 1 # a - 1 /\ i + 2 # a + 1 BY <1>1, <2>1, <2>5
    <3>2. Stop(t, i) = Stop(s, i + 1) /\ Stop(t, i + 1) = Stop(s, i + 2) BY <1>4, <2>1, <3>1
    <3>3. Stop(s, i + 1) # Stop(s, a - 1) /\ Stop(s, i + 2) # Stop(s, a + 1) BY <1>3, <2>1, <3>1
    <3>. QED BY <1>3, <1>6, <2>1, <2>2, <3>2, <3>3 DEF Linked
  <2>. QED BY <1>1, <2>1, <2>3, <2>4, <2>5
<1>10. Linked(r, t) BY <1>2, <1>6, <1>7, <1>8, <1>9 DEF Linked
<1>11. ToSet(t) = ToSet(s) \ {s[a]}
  <2>1. DOMAIN s = 1..Len(s) /\ DOMAIN t = 1..Len(s) - 1 BY <1>1, <1>2
  <2>2. ASSUME NEW x \in ToSet(t) PROVE x \in ToSet(s) \ {s[a]}
    <3>1. PICK j \in 1..Len(s) - 1 : x = t[j] BY <2>1 DEF ToSet
    <3>2. j \in 1..Len(s) /\ j + 1 \in 1..Len(s) /\ (j < a => j # a) /\ (~(j < a) => j + 1 # a)
      BY <1>1, <3>1
    <3>3. PICK m \in 1..Len(s) : m # a /\ x = s[m] BY <1>2, <3>1, <3>2
    <3>4. x # s[a] BY <3>3 DEF Linked
    <3>. QED BY <2>1, <3>3, <3>4 DEF ToSet
  <2>3. ASSUME NEW x \in ToSet(s) \ {s[a]} PROVE x \in ToSet(t)
    <3>1. PICK j \in 1..Len(s) : x = s[j] /\ j # a BY <2>1 DEF ToSet
    <3>2. CASE j < a
      <4>1. j \in 1..Len(s) - 1 BY <1>1, <3>2
      <4>. QED BY <1>2, <2>1, <3>1, <3>2, <4>1 DEF ToSet
    <3>3. CASE j > a
      <4>1. j - 1 \in 1..Len(s) - 1 /\ ~(j - 1 < a) /\ (j - 1) + 1 = j BY <1>1, <3>3
      <4>2. t[j - 1] = x BY <1>2, <3>1, <4>1
      <4>. QED BY <2>1, <4>1, <4>2 DEF ToSet
    <3>. QED BY <1>1, <3>1, <3>2, <3>3
  <2>. QED BY <2>2, <2>3
<1>. QED BY <1>10, <1>11 DEF r, t

(* addLast() puts a node that is not in the list at its end *)
LEMMA AddLinked ==
  ASSUME NEW l, NEW s, Linked(l, s), NEW x \in Nodes, x \notin ToSet(s)
  PROVE  /\ Linked(addLast(l, x), Append(s, x))
         /\ ToSet(Append(s, x)) = ToSet(s) \cup {x}
<1>. DEFINE t == Append(s, x)
            r == addLast(l, x)
<1>1. s \in Seq(Nodes) /\ Len(s) \in Nat /\ l.size = Len(s) BY DEF Linked
<1>2. /\ t \in Seq(Nodes) /\ Len(t) = Len(s) + 1
      /\ \A j \in 1..Len(s) : t[j] = s[j]
      /\ t[Len(s) + 1] = x
  BY <1>1
<1>3. /\ \A i \in 0..Len(s) + 1 : Stop(s, i) \in Cells
      /\ \A i, j \in 0..Len(s) + 1 : Stop(s, i) = Stop(s, j) => i = j
      /\ \A i \in 1..Len(s) : Stop(s, i) = s[i] /\ s[i] \in Nodes
      /\ Stop(s, 0) = head /\ Stop(s, Len(s) + 1) = tail
  BY Stops DEF Linked
<1>. HIDE DEF t
<1>4. /\ \A i \in 0..Len(s) : Stop(t, i) = Stop(s, i)
      /\ Stop(t, Len(s) + 1) = x /\ Stop(t, Len(s) + 2) = tail
  <2>1. ASSUME NEW i \in 0..Len(s) PROVE Stop(t, i) = Stop(s, i)
    <3>1. CASE i = 0 BY <1>1, <1>2, <3>1 DEF Stop
    <3>2. CASE i \in 1..Len(s)
      <4>1. i # 0 /\ i # Len(t) + 1 BY <1>1, <1>2, <3>2
      <4>. QED BY <1>2, <1>3, <3>2, <4>1 DEF Stop
    <3>. QED BY <1>1, <3>1, <3>2
  <2>2. Len(s) + 1 # 0 /\ Len(s) + 1 # Len(t) + 1 /\ Len(s) + 2 = Len(t) + 1 /\ Len(s) + 2 # 0
    BY <1>1, <1>2
  <2>. QED BY <1>2, <2>1, <2>2 DEF Stop
<1>5. /\ l.prev[tail] = Stop(s, Len(s)) /\ Stop(s, Len(s)) \in Cells
      /\ Stop(s, Len(s)) # x /\ Stop(s, Len(s)) # tail /\ x # tail /\ x \in Cells /\ tail \in Cells
  <2>1. Len(s) \in 0..Len(s) /\ Len(s) \in 0..Len(s) + 1 /\ Len(s) + 1 \in 0..Len(s) + 1
        /\ Len(s) # Len(s) + 1
    BY <1>1
  <2>2. x # tail /\ x # head /\ x \in Cells /\ tail \in Cells
    BY NodesAssumption DEF NodesAssumption, Cells
  <2>3. Stop(s, Len(s)) # x
    <3>1. CASE Len(s) = 0 BY <1>3, <2>2, <3>1
    <3>2. CASE Len(s) # 0
      <4>1. Len(s) \in 1..Len(s) BY <1>1, <3>2
      <4>. QED BY <1>1, <1>3, <4>1 DEF ToSet
    <3>. QED BY <3>1, <3>2
  <2>. QED BY <1>3, <2>1, <2>2, <2>3 DEF Linked
<1>6. /\ r.next = [l.next EXCEPT ![x] = tail, ![Stop(s, Len(s))] = x]
      /\ r.prev = [l.prev EXCEPT ![x] = Stop(s, Len(s)), ![tail] = x]
      /\ r.size = Len(t)
  BY <1>1, <1>2, <1>5 DEF addLast
<1>. HIDE DEF r
<1>7. r.next \in [Cells -> Links] /\ r.prev \in [Cells -> Links]
  BY <1>5, <1>6 DEF Linked, Links
<1>8. \A i, j \in 1..Len(t) : t[i] = t[j] => i = j
  <2>1. \A i \in 1..Len(t) : i \in 1..Len(s) \/ i = Len(s) + 1 BY <1>1, <1>2
  <2>2. \A i \in 1..Len(s) : s[i] # x BY <1>1 DEF ToSet
  <2>. QED BY <1>2, <2>1, <2>2 DEF Linked
<1>9. ASSUME NEW i \in 0..Len(t)
      PROVE  r.next[Stop(t, i)] = Stop(t, i + 1) /\ r.prev[Stop(t, i + 1)] = Stop(t, i)
  <2>1. CASE i < Len(s)
    <3>1. /\ i \in 0..Len(s) /\ i + 1 \in 1..Len(s) /\ i + 1 \in 0..Len(s) /\ i # Len(s)
          /\ i \in 0..Len(s) + 1 /\ Len(s) \in 0..Len(s) + 1 /\ i + 1 \in 0..Len(s) + 1
          /\ Len(s) + 1 \in 0..Len(s) + 1 /\ i # Len(s) + 1 /\ i + 1 # Len(s) + 1
      BY <1>1, <1>2, <2>1
    <3>2. /\ Stop(s, i) # x /\ Stop(s, i + 1) # x
      <4>1. \A j \in 0..Len(s) : Stop(s, j) # x
        <5>1. \A j \in 0..Len(s) : j = 0 \/ j \in 1..Len(s) BY <1>1
        <5>2. head # x BY NodesAssumption DEF NodesAssumption
        <5>3. \A j \in 1..Len(s) : s[j] # x BY <1>1 DEF ToSet
        <5>. QED BY <1>3, <5>1, <5>2, <5>3
      <4>. QED BY <3>1, <4>1
    <3>3. Stop(s, i) # Stop(s, Len(s)) /\ Stop(s, i + 1) # tail BY <1>3, <3>1
    <3>4. l.next[Stop(s, i)] = Stop(s, i + 1) /\ l.prev[Stop(s, i + 1)] = Stop(s, i)
      BY <3>1 DEF Linked
    <3>5. Stop(s, i) \in Cells /\ Stop(s, i + 1) \in Cells BY <1>3, <3>1
    <3>6. Stop(t, i) = Stop(s, i) /\ Stop(t, i + 1) = Stop(s, i + 1) BY <1>4, <3>1
    <3>. QED BY <1>6, <3>2, <3>3, <3>4, <3>5, <3>6 DEF Linked
  <2>2. CASE i = Len(s)
    <3>1. Stop(t, i) = Stop(s, Len(s)) /\ Stop(t, i + 1) = x BY <1>1, <1>4, <2>2
    <3>. QED BY <1>5, <1>6, <3>1 DEF Linked
  <2>3. CASE i = Len(s) + 1
    <3>1. i + 1 = Len(s) + 2 BY <1>1, <2>3
    <3>2. Stop(t, i) = x /\ Stop(t, i + 1) = tail BY <1>4, <2>3, <3>1
    <3>. QED BY <1>5, <1>6, <3>2 DEF Linked
  <2>. QED BY <1>1, <1>2, <2>1, <2>2, <2>3
<1>10. Linked(r, t) BY <1>2, <1>6, <1>7, <1>8, <1>9 DEF Linked
<1>11. ToSet(t) = ToSet(s) \cup {x}
  <2>1. DOMAIN s = 1..Len(s) /\ DOMAIN t = 1..Len(s) + 1 BY <1>1, <1>2
  <2>2. 1..Len(s) + 1 = (1..Len(s)) \cup {Len(s) + 1} BY <1>1
  <2>. QED BY <1>2, <2>1, <2>2 DEF ToSet
<1>. QED BY <1>10, <1>11 DEF r, t

-----------------------------------------------------------------------------
(* The invariant *)

(* The links are a list of the allocated nodes; a key leads to the node    *)
(* that has it, and every allocated node is the one its key leads to; in   *)
(* the middle of set() its key is absent and there is room for it.         *)
ListOK == Linked(List, Chain) /\ ToSet(Chain) = live
MapOK ==
    /\ \A k \in Keys : map[k] # nullptr => map[k] \in live /\ node[map[k]].key = k
    /\ \A x \in live : map[node[x].key] = x
PendingOK == ~Unlocked => map[pending[1]] = nullptr /\ size_ < Cap
Inv == TypeOK /\ ListOK /\ MapOK /\ PendingOK

(* What a chain is, in words of the variables *)
LEMMA ChainFacts ==
  ASSUME Inv
  PROVE  /\ Chain \in Seq(Nodes) /\ Len(Chain) \in Nat /\ size_ = Len(Chain)
         /\ DOMAIN Chain = 1..Len(Chain)
         /\ \A x \in live : \E a \in 1..Len(Chain) : Chain[a] = x
         /\ \A a \in 1..Len(Chain) : Chain[a] \in live
BY DEF Inv, ListOK, Linked, List, ToSet

(* The list after a step, once it is known what it is *)
LEMMA ChainNext ==
  ASSUME NEW l, NEW s, Linked(l, s), SetList(l),
         l = [next |-> l.next, prev |-> l.prev, size |-> l.size]
  PROVE  Linked(List', s) /\ Chain' = s
<1>1. List' = l BY DEF List, SetList
<1>2. Linked(List', s) BY <1>1
<1>3. (Linked(List, s) => Chain = s)' BY ChainIs, PTL
<1>. QED BY <1>2, <1>3

(* ... and the types of the links *)
LEMMA LinkTypes ==
  ASSUME NEW s, Linked(List', s)
  PROVE  /\ next' \in [Cells -> Cells \cup {nullptr}] /\ prev' \in [Cells -> Cells \cup {nullptr}]
         /\ size_' = Len(s)
BY DEF Linked, List, Links

(* The list stays as it is *)
LEMMA ChainKept ==
  ASSUME Inv, UNCHANGED <<next, prev, size_>>
  PROVE  Chain' = Chain /\ Linked(List', Chain')
<1>1. Linked(List, Chain) BY DEF Inv, ListOK
<1>2. List = [next |-> List.next, prev |-> List.prev, size |-> List.size] BY DEF List
<1>3. SetList(List) BY DEF SetList, List
<1>. QED BY <1>1, <1>2, <1>3, ChainNext

(* A key and its node are deleted: deleteKey(), or removeLeastRecently() *)
LEMMA Dropped ==
  ASSUME Inv, NEW q \in Keys, map[q] # nullptr, SetList(remove(List, map[q])),
         map' = [map EXCEPT ![q] = nullptr], live' = live \ {map[q]}, node' = node
  PROVE  /\ \E a \in 1..Len(Chain) : Chain[a] = map[q] /\ Chain' = RemoveAt(Chain, a)
         /\ ListOK' /\ MapOK'
         /\ map' \in [Keys -> Nodes \cup {nullptr}]
         /\ next' \in [Cells -> Cells \cup {nullptr}] /\ prev' \in [Cells -> Cells \cup {nullptr}]
         /\ size_' \in 0..Cap /\ size_' < Cap /\ live' \subseteq Nodes
<1>1. PICK x \in live : x = map[q] /\ node[x].key = q BY DEF Inv, MapOK
<1>2. PICK a \in 1..Len(Chain) : Chain[a] = x BY ChainFacts
<1>3. Linked(List, Chain) /\ ToSet(Chain) = live BY DEF Inv, ListOK
<1>4. /\ Linked(remove(List, x), RemoveAt(Chain, a))
      /\ ToSet(RemoveAt(Chain, a)) = live \ {x}
  BY <1>2, <1>3, RemoveLinked
<1>. DEFINE r == remove(List, x)
<1>5. r = [next |-> r.next, prev |-> r.prev, size |-> r.size] BY DEF remove
<1>6. SetList(r) BY <1>1
<1>. HIDE DEF r
<1>7. Linked(r, RemoveAt(Chain, a)) BY <1>4 DEF r
<1>8. PICK s : s = RemoveAt(Chain, a) OBVIOUS
<1>9. Linked(List', s) /\ Chain' = s BY <1>5, <1>6, <1>7, <1>8, ChainNext
<1>10. ListOK' BY <1>1, <1>4, <1>8, <1>9 DEF ListOK
<1>11. Len(Chain) \in Nat /\ size_ = Len(Chain) /\ size_ \in 0..Cap /\ Chain \in Seq(Nodes)
       /\ Cap \in Nat
  BY ChainFacts, NodesAssumption DEF Inv, TypeOK, NodesAssumption
<1>12. Len(s) = Len(Chain) - 1 BY <1>8, <1>11, RemoveCells
<1>13. size_' \in 0..Cap /\ size_' < Cap BY <1>2, <1>9, <1>11, <1>12, LinkTypes
<1>14. map' \in [Keys -> Nodes \cup {nullptr}] BY DEF Inv, TypeOK
<1>15. MapOK'
  <2>1. ASSUME NEW k \in Keys, map'[k] # nullptr
        PROVE  map'[k] \in live' /\ node'[map'[k]].key = k
    <3>1. k # q /\ map'[k] = map[k] BY <2>1 DEF Inv, TypeOK
    <3>2. map[k] \in live /\ node[map[k]].key = k BY <2>1, <3>1 DEF Inv, MapOK
    <3>. QED BY <1>1, <3>1, <3>2
  <2>2. ASSUME NEW y \in live'
        PROVE  map'[node'[y].key] = y
    <3>1. y \in live /\ y # x BY <1>1
    <3>2. map[node[y].key] = y BY <3>1 DEF Inv, MapOK
    <3>3. node[y].key # q BY <1>1, <3>1, <3>2
    <3>. QED BY <3>2, <3>3 DEF Inv, TypeOK
  <2>. QED BY <2>1, <2>2 DEF MapOK
<1>16. live' \subseteq Nodes BY DEF Inv, TypeOK
<1>. QED BY <1>1, <1>2, <1>8, <1>9, <1>10, <1>13, <1>14, <1>15, <1>16, LinkTypes

(* What set() does until it inserts: nothing, or the deletion of a node,   *)
(* that of the key or else the first of the list                           *)
LEMMA SetBeginCases ==
  ASSUME Inv, NEW k \in Keys, NEW v \in Vals, SetBegin(k, v)
  PROVE  \/ /\ UNCHANGED <<map, next, prev, size_, live>>
            /\ map[k] = nullptr /\ size_ < Cap
         \/ \E q \in Keys :
              /\ map[q] # nullptr /\ SetList(remove(List, map[q]))
              /\ map' = [map EXCEPT ![q] = nullptr] /\ live' = live \ {map[q]}
              /\ IF map[k] # nullptr THEN q = k
                 ELSE size_ = Cap /\ map[q] = Chain[1] /\ Len(Chain) # 0
<1>1. CASE map[k] # nullptr BY <1>1 DEF SetBegin
<1>2. CASE map[k] = nullptr /\ Cap = size_
  <2>1. Len(Chain) = Cap /\ Cap \in Nat /\ Cap # 0
    BY <1>2, ChainFacts, NodesAssumption DEF NodesAssumption
  <2>2. 0 \in 0..Len(Chain) /\ 1 \in 1..Len(Chain) /\ 1 # Len(Chain) + 1 BY <2>1
  <2>3. next[head] = Chain[1]
    <3>1. next[Stop(Chain, 0)] = Stop(Chain, 0 + 1) BY <2>2 DEF Inv, ListOK, Linked, List
    <3>2. Stop(Chain, 0) = head /\ Stop(Chain, 1) = Chain[1] BY <2>2 DEF Stop
    <3>. QED BY <3>1, <3>2
  <2>4. PICK x \in live : x = next[head] BY <2>2, <2>3, ChainFacts
  <2>5. PICK q \in Keys : q = node[x].key BY DEF Inv, TypeOK, Entry
  <2>6. map[q] = x /\ x # nullptr
    BY <2>5, NodesAssumption DEF Inv, MapOK, TypeOK, NodesAssumption
  <2>. QED BY <1>2, <2>1, <2>3, <2>4, <2>5, <2>6 DEF SetBegin
<1>3. CASE map[k] = nullptr /\ Cap # size_
  BY <1>3, NodesAssumption DEF SetBegin, Inv, TypeOK, NodesAssumption
<1>. QED BY <1>1, <1>2, <1>3

(* A set() that has begun keeps the invariant: its key is absent now, and  *)
(* there is room for it *)
LEMMA SetBeginInv ==
  ASSUME Inv, NEW k \in Keys, NEW v \in Vals, SetBegin(k, v)
  PROVE  Inv'
<1>1. pending' = <<k, v>> /\ UNCHANGED <<node, found>> /\ Unlocked BY DEF SetBegin
<1>2. pending' \in {<<>>} \cup (Keys \X Vals) /\ pending'[1] = k BY <1>1
<1>3. CASE UNCHANGED <<map, next, prev, size_, live>> /\ map[k] = nullptr /\ size_ < Cap
  <2>1. TypeOK' BY <1>1, <1>2, <1>3 DEF Inv, TypeOK
  <2>2. ListOK' BY <1>3, ChainKept DEF Inv, ListOK
  <2>3. MapOK' BY <1>1, <1>3 DEF Inv, MapOK
  <2>4. PendingOK' BY <1>2, <1>3 DEF PendingOK
  <2>. QED BY <2>1, <2>2, <2>3, <2>4 DEF Inv
<1>4. ASSUME NEW q \in Keys, map[q] # nullptr, SetList(remove(List, map[q])),
             map' = [map EXCEPT ![q] = nullptr], live' = live \ {map[q]},
             map[k] # nullptr => q = k
      PROVE  Inv'
  <2>1. /\ ListOK' /\ MapOK'
        /\ map' \in [Keys -> Nodes \cup {nullptr}]
        /\ next' \in [Cells -> Cells \cup {nullptr}] /\ prev' \in [Cells -> Cells \cup {nullptr}]
        /\ size_' \in 0..Cap /\ size_' < Cap /\ live' \subseteq Nodes
    BY <1>1, <1>4, Dropped
  <2>2. TypeOK' BY <1>1, <1>2, <2>1 DEF Inv, TypeOK
  <2>3. map'[k] = nullptr BY <1>4 DEF Inv, TypeOK
  <2>4. PendingOK' BY <1>2, <2>1, <2>3 DEF PendingOK
  <2>. QED BY <2>1, <2>2, <2>4 DEF Inv
<1>. QED BY <1>3, <1>4, SetBeginCases

(* The new node is inserted: SetEnd with the node it takes *)
EndWith(x) ==
    /\ live' = live \cup {x}
    /\ node' = [node EXCEPT ![x] = NewEntry(pending[1], pending[2])]
    /\ SetList(addLast(List, x))
    /\ map' = [map EXCEPT ![pending[1]] = x]

(* It becomes the last one of the list *)
LEMMA ChainAppended ==
  ASSUME Inv, NEW x \in Nodes \ live, EndWith(x)
  PROVE  /\ Chain' = Append(Chain, x) /\ Linked(List', Chain')
         /\ ToSet(Chain') = live \cup {x}
<1>1. Linked(List, Chain) /\ ToSet(Chain) = live BY DEF Inv, ListOK
<1>2. /\ Linked(addLast(List, x), Append(Chain, x))
      /\ ToSet(Append(Chain, x)) = live \cup {x}
  BY <1>1, AddLinked
<1>. DEFINE r == addLast(List, x)
<1>3. r = [next |-> r.next, prev |-> r.prev, size |-> r.size] BY DEF addLast
<1>4. SetList(r) BY DEF EndWith
<1>5. Linked(r, Append(Chain, x)) BY <1>2
<1>. HIDE DEF r
<1>6. PICK s : s = Append(Chain, x) OBVIOUS
<1>7. Linked(List', s) /\ Chain' = s BY <1>3, <1>4, <1>5, <1>6, ChainNext
<1>. QED BY <1>2, <1>6, <1>7

(* ... and so does its end, which takes a free node for the key *)
LEMMA SetEndInv ==
  ASSUME Inv, SetEnd
  PROVE  Inv'
<1>1. PICK x \in Nodes \ live : EndWith(x) BY DEF SetEnd, EndWith
<1>2. pending' = <<>> /\ pending # <<>> /\ UNCHANGED <<ret, found>> BY DEF SetEnd, Unlocked
<1>3. PICK k \in Keys, v \in Vals : pending = <<k, v>> BY <1>2 DEF Inv, TypeOK
<1>4. /\ live' = live \cup {x} /\ node' = [node EXCEPT ![x] = NewEntry(k, v)]
      /\ map' = [map EXCEPT ![k] = x]
  BY <1>1, <1>3 DEF EndWith
<1>5. NewEntry(k, v) \in Entry(Keys, Vals) /\ NewEntry(k, v).key = k BY DEF NewEntry, Entry
<1>6. map[k] = nullptr /\ size_ < Cap BY <1>2, <1>3 DEF Inv, PendingOK, Unlocked
<1>7. /\ Chain' = Append(Chain, x) /\ Linked(List', Chain')
      /\ ToSet(Chain') = live'
  BY <1>1, <1>4, ChainAppended
<1>8. size_' = size_ + 1
  <2>1. PICK s : s = Chain' OBVIOUS
  <2>2. size_' = Len(s) BY <1>7, <2>1, LinkTypes
  <2>3. Chain \in Seq(Nodes) /\ size_ = Len(Chain) BY ChainFacts
  <2>. QED BY <1>7, <2>1, <2>2, <2>3
<1>9. next' \in [Cells -> Cells \cup {nullptr}] /\ prev' \in [Cells -> Cells \cup {nullptr}]
  <2>1. PICK s : s = Chain' OBVIOUS
  <2>. QED BY <1>7, <2>1, LinkTypes
<1>10. TypeOK'
  BY <1>2, <1>4, <1>5, <1>6, <1>8, <1>9, NodesAssumption DEF Inv, TypeOK, NodesAssumption
<1>11. MapOK'
  <2>1. \A y \in live : y # x /\ node'[y] = node[y] /\ node[y].key # k
    BY <1>4, <1>6, NodesAssumption DEF Inv, MapOK, TypeOK, NodesAssumption
  <2>2. node'[x] = NewEntry(k, v) BY <1>4 DEF Inv, TypeOK
  <2>3. map'[k] = x /\ \A l \in Keys \ {k} : map'[l] = map[l] BY <1>4 DEF Inv, TypeOK
  <2>4. \A y \in live : node[y].key \in Keys BY DEF Inv, TypeOK, Entry
  <2>. QED BY <1>4, <1>5, <2>1, <2>2, <2>3, <2>4 DEF Inv, MapOK
<1>12. PendingOK' BY <1>2 DEF PendingOK, Unlocked
<1>. QED BY <1>7, <1>10, <1>11, <1>12 DEF Inv, ListOK

(* get() moves the node of its key to the end of the list *)
LEMMA Promoted ==
  ASSUME Inv, NEW k \in Keys, map[k] # nullptr,
         SetList(addLast(remove(List, map[k]), map[k]))
  PROVE  /\ Linked(List', Chain') /\ ToSet(Chain') = live
         /\ \E a \in 1..Len(Chain) : /\ Chain[a] = map[k]
                                     /\ Chain' = Append(RemoveAt(Chain, a), Chain[a])
<1>1. PICK x \in live : x = map[k] /\ x \in Nodes BY DEF Inv, MapOK, TypeOK
<1>2. PICK a \in 1..Len(Chain) : Chain[a] = x BY ChainFacts
<1>3. Linked(List, Chain) /\ ToSet(Chain) = live BY DEF Inv, ListOK
<1>. DEFINE l == remove(List, x)
            t == RemoveAt(Chain, a)
            r == addLast(l, x)
<1>4. Linked(l, t) /\ ToSet(t) = live \ {x} BY <1>2, <1>3, RemoveLinked
<1>5. r = [next |-> r.next, prev |-> r.prev, size |-> r.size] BY DEF addLast
<1>6. SetList(r) BY <1>1
<1>7. Linked(r, Append(t, x)) /\ ToSet(Append(t, x)) = ToSet(t) \cup {x}
  <2>. HIDE DEF l, t
  <2>. QED BY <1>1, <1>4, AddLinked
<1>. HIDE DEF l, r
<1>8. PICK s : s = Append(t, x) OBVIOUS
<1>9. Linked(List', s) /\ Chain' = s BY <1>5, <1>6, <1>7, <1>8, ChainNext
<1>. QED BY <1>1, <1>2, <1>4, <1>7, <1>8, <1>9

(* get() changes the order of the list and nothing else *)
LEMMA GetInv ==
  ASSUME Inv, NEW k \in Keys, Get(k)
  PROVE  Inv'
<1>1. /\ map[k] # nullptr /\ Unlocked /\ UNCHANGED <<map, node, live, pending, found>>
      /\ SetList(addLast(remove(List, map[k]), map[k]))
  BY DEF Get
<1>2. Linked(List', Chain') /\ ToSet(Chain') = live BY <1>1, Promoted
<1>3. PICK a \in 1..Len(Chain) : Chain' = Append(RemoveAt(Chain, a), Chain[a]) BY <1>1, Promoted
<1>4. PICK s : s = Chain' OBVIOUS
<1>5. size_' = size_
  <2>1. size_' = Len(s) BY <1>2, <1>4, LinkTypes
  <2>2. Chain \in Seq(Nodes) /\ size_ = Len(Chain) BY ChainFacts
  <2>3. RemoveAt(Chain, a) \in Seq(Nodes) /\ Len(RemoveAt(Chain, a)) = Len(Chain) - 1
    BY <2>2, RemoveCells
  <2>4. Len(s) = Len(RemoveAt(Chain, a)) + 1 BY <1>3, <1>4, <2>2, <2>3
  <2>. QED BY <2>1, <2>2, <2>3, <2>4
<1>6. next' \in [Cells -> Cells \cup {nullptr}] /\ prev' \in [Cells -> Cells \cup {nullptr}]
  BY <1>2, <1>4, LinkTypes
<1>7. TypeOK' BY <1>1, <1>5, <1>6 DEF Inv, TypeOK
<1>8. ListOK' BY <1>1, <1>2 DEF ListOK
<1>9. MapOK' /\ PendingOK' BY <1>1, <1>5 DEF Inv, MapOK, PendingOK, Unlocked
<1>. QED BY <1>7, <1>8, <1>9 DEF Inv

(* set_dirty() and set_clean() change no key *)
LEMMA MarkNodeInv ==
  ASSUME Inv, NEW k \in Keys, NEW d \in BOOLEAN, MarkNode(k, d)
  PROVE  Inv'
<1>1. /\ node' = IF map[k] # nullptr THEN [node EXCEPT ![map[k]].dirty = d] ELSE node
      /\ UNCHANGED <<map, next, prev, size_, live, pending, found>>
  BY DEF MarkNode
<1>2. \A x \in Nodes : node[x] \in Entry(Keys, Vals) BY DEF Inv, TypeOK
<1>3. node' \in [Nodes -> Entry(Keys, Vals)] /\ \A x \in Nodes : node'[x].key = node[x].key
  <2>1. CASE map[k] = nullptr BY <1>1, <2>1 DEF Inv, TypeOK
  <2>2. CASE map[k] # nullptr
    <3>1. PICK y \in Nodes : y = map[k] BY <2>2 DEF Inv, TypeOK
    <3>2. node' = [node EXCEPT ![y].dirty = d] BY <1>1, <2>2, <3>1
    <3>. QED BY <1>2, <3>2 DEF Inv, TypeOK, Entry
  <2>. QED BY <2>1, <2>2
<1>4. TypeOK' BY <1>1, <1>3 DEF Inv, TypeOK
<1>5. ListOK' BY <1>1, ChainKept DEF Inv, ListOK
<1>6. MapOK' BY <1>1, <1>3 DEF Inv, MapOK, TypeOK
<1>7. PendingOK' BY <1>1 DEF Inv, PendingOK, Unlocked
<1>. QED BY <1>4, <1>5, <1>6, <1>7 DEF Inv

(* The list is empty at first: next of head is tail *)
LEMMA InitInv ==
  ASSUME Init
  PROVE  Inv
<1>1. head # tail /\ nullptr \notin {head, tail} /\ {head, tail, nullptr} \cap Nodes = {}
      /\ Cap \in Nat \ {0}
  BY NodesAssumption DEF NodesAssumption
<1>2. node \in [Nodes -> Entry(Keys, Vals)]
  <2>1. PICK k \in Keys, v \in Vals : node = [x \in Nodes |-> NewEntry(k, v)] BY DEF Init
  <2>2. NewEntry(k, v) \in Entry(Keys, Vals) BY DEF NewEntry, Entry
  <2>. QED BY <2>1, <2>2
<1>3. TypeOK
  <2>1. next \in [Cells -> Cells \cup {nullptr}] /\ prev \in [Cells -> Cells \cup {nullptr}]
    BY DEF Init, Cells
  <2>2. map \in [Keys -> Nodes \cup {nullptr}] /\ size_ \in 0..Cap BY <1>1 DEF Init
  <2>3. live \subseteq Nodes /\ pending \in {<<>>} \cup (Keys \X Vals) /\ found \in BOOLEAN
    BY DEF Init
  <2>. QED BY <1>2, <2>1, <2>2, <2>3 DEF TypeOK
<1>4. Linked(List, <<>>)
  <2>1. /\ next[head] = tail /\ prev[tail] = head BY DEF Init, Cells
  <2>2. next \in [Cells -> Links] /\ prev \in [Cells -> Links] BY <1>3 DEF TypeOK, Links
  <2>3. Stop(<<>>, 0) = head /\ Stop(<<>>, 1) = tail BY DEF Stop
  <2>4. \A i \in 0..0 : i = 0 OBVIOUS
  <2>. QED BY <2>1, <2>2, <2>3, <2>4 DEF Linked, List, Init
<1>5. Chain = <<>> BY <1>4, ChainIs
<1>6. ListOK BY <1>4, <1>5 DEF ListOK, ToSet, Init
<1>7. MapOK /\ PendingOK BY DEF Init, MapOK, PendingOK, Unlocked
<1>. QED BY <1>3, <1>6, <1>7 DEF Inv

(* Every step keeps the invariant *)
LEMMA NextInv ==
  ASSUME Inv, [Next]_vars
  PROVE  Inv'
<1>1. ASSUME NEW k \in Keys, NEW v \in Vals, SetBegin(k, v) PROVE Inv'
  BY <1>1, SetBeginInv
<1>2. CASE SetEnd BY <1>2, SetEndInv
<1>3. ASSUME NEW k \in Keys, Get(k) PROVE Inv' BY <1>3, GetInv
<1>4. ASSUME NEW k \in Keys, set_dirty(k) \/ set_clean(k) PROVE Inv'
  BY <1>4, MarkNodeInv DEF set_dirty, set_clean
<1>5. ASSUME UNCHANGED <<map, node, next, prev, size_, live, pending>>, found' \in BOOLEAN
      PROVE  Inv'
  <2>1. TypeOK' BY <1>5 DEF Inv, TypeOK
  <2>2. ListOK' BY <1>5, ChainKept DEF Inv, ListOK
  <2>3. MapOK' /\ PendingOK' BY <1>5 DEF Inv, MapOK, PendingOK, Unlocked
  <2>. QED BY <2>1, <2>2, <2>3 DEF Inv
<1>6. ASSUME NEW k \in Keys, is_dirty(k) \/ hasKey(k) PROVE Inv'
  BY <1>5, <1>6 DEF is_dirty, hasKey, Inv, TypeOK
<1>7. CASE lru_keys_oneshot BY <1>5, <1>7 DEF lru_keys_oneshot, Inv, TypeOK
<1>8. CASE UNCHANGED vars BY <1>5, <1>8 DEF vars, Inv, TypeOK
<1>. QED BY <1>1, <1>2, <1>3, <1>4, <1>6, <1>7, <1>8 DEF Next

(* The invariant *)
LEMMA InvHolds == Spec => []Inv
<1>1. Init => Inv BY InitInv
<1>2. Inv /\ [Next]_vars => Inv' BY NextInv
<1>. QED BY <1>1, <1>2, PTL DEF Spec

(* Following next from head meets every allocated node once, prev leads    *)
(* back, the map leads to the nodes and size_ counts them (lru.h:42-113,   *)
(* 200-320).                                                               *)
THEOREM ListMatchesMapHolds == Spec => []ListMatchesMap
<1>1. ASSUME Inv PROVE ListMatchesMap
  <2>. USE <1>1
  <2>1. /\ TypeOK /\ Chain \in Seq(Nodes) /\ Len(Chain) \in Nat /\ size_ = Len(Chain)
        /\ DOMAIN Chain = 1..Len(Chain) /\ ToSet(Chain) = live
    BY ChainFacts DEF Inv, ListOK
  <2>2. IsInjective(Chain) BY <2>1 DEF Inv, ListOK, Linked, IsInjective
  <2>. DEFINE ring == <<head>> \o Chain \o <<tail>>
  <2>3. Len(ring) = Len(Chain) + 2 /\ \A i \in 1..Len(Chain) + 2 : ring[i] = Stop(Chain, i - 1)
    <3>. DEFINE b == <<head>> \o Chain
    <3>1. <<head>> \in Seq(Cells) /\ Chain \in Seq(Cells) /\ <<tail>> \in Seq(Cells)
      BY <2>1 DEF Cells
    <3>2. /\ b \in Seq(Cells) /\ Len(b) = Len(Chain) + 1
          /\ \A i \in 1..Len(Chain) + 1 : b[i] = IF i = 1 THEN head ELSE Chain[i - 1]
      BY <2>1, <3>1
    <3>. HIDE DEF b
    <3>3. /\ Len(b \o <<tail>>) = Len(Chain) + 2
          /\ \A i \in 1..Len(Chain) + 2 :
                (b \o <<tail>>)[i] = IF i <= Len(Chain) + 1 THEN b[i] ELSE tail
      BY <2>1, <3>1, <3>2
    <3>4. ASSUME NEW i \in 1..Len(Chain) + 2
          PROVE  (b \o <<tail>>)[i] = Stop(Chain, i - 1)
      <4>1. CASE i = 1 BY <2>1, <3>2, <3>3, <4>1 DEF Stop
      <4>2. CASE i = Len(Chain) + 2 BY <2>1, <3>3, <4>2 DEF Stop
      <4>3. CASE i \in 2..Len(Chain) + 1
        <5>1. i - 1 # 0 /\ i - 1 # Len(Chain) + 1 /\ i # 1 /\ i \in 1..Len(Chain) + 1
          BY <2>1, <4>3
        <5>2. (b \o <<tail>>)[i] = b[i] BY <2>1, <3>3, <5>1
        <5>3. b[i] = Chain[i - 1] BY <3>2, <5>1
        <5>4. Stop(Chain, i - 1) = Chain[i - 1] BY <5>1 DEF Stop
        <5>. QED BY <5>2, <5>3, <5>4
      <4>4. i = 1 \/ i = Len(Chain) + 2 \/ i \in 2..Len(Chain) + 1 BY <2>1
      <4>. QED BY <4>1, <4>2, <4>3, <4>4
    <3>. QED BY <3>3, <3>4 DEF b
  <2>. HIDE DEF ring
  <2>4. ASSUME NEW i \in 1..Len(ring) - 1
        PROVE  next[ring[i]] = ring[i + 1] /\ prev[ring[i + 1]] = ring[i]
    <3>1. i - 1 \in 0..Len(Chain) /\ i \in 1..Len(Chain) + 2 /\ i + 1 \in 1..Len(Chain) + 2
          /\ (i + 1) - 1 = (i - 1) + 1
      BY <2>1, <2>3
    <3>2. next[Stop(Chain, i - 1)] = Stop(Chain, (i - 1) + 1)
          /\ prev[Stop(Chain, (i - 1) + 1)] = Stop(Chain, i - 1)
      BY <3>1 DEF Inv, ListOK, Linked, List
    <3>. QED BY <2>3, <3>1, <3>2
  <2>5. ASSUME NEW k \in Keys
        PROVE  IF \E x \in live : node[x].key = k
                 THEN map[k] \in live /\ node[map[k]].key = k
                 ELSE map[k] = nullptr
    <3>1. CASE \E x \in live : node[x].key = k
      <4>1. PICK x \in live : node[x].key = k BY <3>1
      <4>2. map[k] = x BY <4>1 DEF Inv, MapOK
      <4>. QED BY <4>1, <4>2
    <3>2. CASE ~\E x \in live : node[x].key = k
      <4>. QED BY <3>2 DEF Inv, MapOK
    <3>. QED BY <3>1, <3>2
  <2>. QED BY <2>1, <2>2, <2>4, <2>5 DEF ListMatchesMap, ring
<1>. QED BY <1>1, InvHolds, PTL

-----------------------------------------------------------------------------
(* The list of entries                                                     *)

(* The entries that the nodes of s hold, in their order *)
Values(nd, s) == [i \in DOMAIN s |-> nd[s[i]]]

(* They are those of the nodes *)
LEMMA ValuesSeq ==
  ASSUME NEW s \in Seq(Nodes), NEW nd \in [Nodes -> Entry(Keys, Vals)]
  PROVE  /\ Values(nd, s) \in Seq(Entry(Keys, Vals)) /\ Len(Values(nd, s)) = Len(s)
         /\ DOMAIN Values(nd, s) = 1..Len(s) /\ Len(s) \in Nat /\ DOMAIN s = 1..Len(s)
         /\ \A i \in 1..Len(s) : Values(nd, s)[i] = nd[s[i]]
<1>1. DOMAIN s = 1..Len(s) /\ Len(s) \in Nat /\ \A i \in 1..Len(s) : s[i] \in Nodes OBVIOUS
<1>2. Values(nd, s) \in [1..Len(s) -> Entry(Keys, Vals)] BY <1>1 DEF Values
<1>3. Values(nd, s) \in Seq(Entry(Keys, Vals)) BY <1>1, <1>2
<1>. QED BY <1>1, <1>2, <1>3 DEF Values

(* A node less in the list is an entry less. *)
LEMMA ValuesRemove ==
  ASSUME NEW s \in Seq(Nodes), NEW nd \in [Nodes -> Entry(Keys, Vals)], NEW a \in 1..Len(s)
  PROVE  Values(nd, RemoveAt(s, a)) = RemoveAt(Values(nd, s), a)
<1>1. /\ Values(nd, s) \in Seq(Entry(Keys, Vals)) /\ Len(Values(nd, s)) = Len(s)
      /\ Len(s) \in Nat /\ \A i \in 1..Len(s) : Values(nd, s)[i] = nd[s[i]]
  BY ValuesSeq
<1>2. PICK t : t = RemoveAt(s, a) OBVIOUS
<1>3. /\ t \in Seq(Nodes) /\ Len(t) = Len(s) - 1
      /\ \A j \in 1..Len(s) - 1 : t[j] = IF j < a THEN s[j] ELSE s[j + 1]
  BY <1>2, RemoveCells
<1>4. PICK c : c = Values(nd, s) OBVIOUS
<1>5. PICK d : d = RemoveAt(c, a) OBVIOUS
<1>6. /\ d \in Seq(Entry(Keys, Vals)) /\ Len(d) = Len(s) - 1
      /\ \A j \in 1..Len(s) - 1 : d[j] = IF j < a THEN c[j] ELSE c[j + 1]
  <2>1. c \in Seq(Entry(Keys, Vals)) /\ Len(c) = Len(s) /\ a \in 1..Len(c) BY <1>1, <1>4
  <2>. HIDE DEF Values
  <2>2. /\ RemoveAt(c, a) \in Seq(Entry(Keys, Vals)) /\ Len(RemoveAt(c, a)) = Len(c) - 1
        /\ \A j \in 1..Len(c) - 1 : RemoveAt(c, a)[j] = IF j < a THEN c[j] ELSE c[j + 1]
    BY <2>1, RemoveCells
  <2>. QED BY <1>5, <2>1, <2>2
<1>7. PICK e : e = Values(nd, t) OBVIOUS
<1>8. /\ e \in Seq(Entry(Keys, Vals)) /\ Len(e) = Len(s) - 1
      /\ \A j \in 1..Len(s) - 1 : e[j] = nd[t[j]]
  <2>1. /\ Values(nd, t) \in Seq(Entry(Keys, Vals)) /\ Len(Values(nd, t)) = Len(t)
        /\ \A j \in 1..Len(t) : Values(nd, t)[j] = nd[t[j]]
    BY <1>3, ValuesSeq
  <2>2. Len(t) = Len(s) - 1 BY <1>3
  <2>. QED BY <1>7, <2>1, <2>2
<1>9. ASSUME NEW j \in 1..Len(s) - 1 PROVE e[j] = d[j]
  <2>1. j \in 1..Len(s) /\ j + 1 \in 1..Len(s) BY <1>1
  <2>. QED BY <1>1, <1>3, <1>4, <1>6, <1>8, <2>1
<1>10. e = d BY <1>6, <1>8, <1>9, SeqEqual
<1>. QED BY <1>2, <1>4, <1>5, <1>7, <1>10

(* A node more at its end is an entry more. *)
LEMMA ValuesAppend ==
  ASSUME NEW s \in Seq(Nodes), NEW nd \in [Nodes -> Entry(Keys, Vals)], NEW x \in Nodes
  PROVE  Values(nd, Append(s, x)) = Append(Values(nd, s), nd[x])
<1>1. PICK t : t = Append(s, x) OBVIOUS
<1>2. t \in Seq(Nodes) /\ Len(t) = Len(s) + 1 /\ t[Len(s) + 1] = x
      /\ \A i \in 1..Len(s) : t[i] = s[i]
  BY <1>1
<1>3. PICK c : c = Values(nd, s) OBVIOUS
<1>4. c \in Seq(Entry(Keys, Vals)) /\ Len(c) = Len(s) /\ Len(s) \in Nat
      /\ \A i \in 1..Len(s) : c[i] = nd[s[i]]
  BY <1>3, ValuesSeq
<1>5. PICK e : e = Values(nd, t) OBVIOUS
<1>6. e \in Seq(Entry(Keys, Vals)) /\ Len(e) = Len(s) + 1
      /\ \A i \in 1..Len(s) + 1 : e[i] = nd[t[i]]
  BY <1>2, <1>5, ValuesSeq
<1>7. PICK d : d = Append(c, nd[x]) OBVIOUS
<1>8. d \in Seq(Entry(Keys, Vals)) /\ Len(d) = Len(s) + 1 /\ d[Len(s) + 1] = nd[x]
      /\ \A i \in 1..Len(s) : d[i] = c[i]
  BY <1>4, <1>7
<1>9. ASSUME NEW i \in 1..Len(s) + 1 PROVE e[i] = d[i]
  <2>1. CASE i = Len(s) + 1 BY <1>2, <1>6, <1>8, <2>1
  <2>2. CASE i \in 1..Len(s) BY <1>2, <1>4, <1>6, <1>8, <2>2
  <2>3. i = Len(s) + 1 \/ i \in 1..Len(s) BY <1>4
  <2>. QED BY <2>1, <2>2, <2>3
<1>10. e = d BY <1>6, <1>8, <1>9, SeqEqual
<1>. QED BY <1>1, <1>3, <1>5, <1>7, <1>10

(* What the list holds, and where: a key is held iff it is in the map, in  *)
(* the cell that stands for its node.                                      *)
LEMMA Held ==
  ASSUME Inv, NEW c, c = Values(node, Chain)
  PROVE  /\ c \in Seq(Entry(Keys, Vals)) /\ Len(c) = Len(Chain) /\ DOMAIN c = 1..Len(c)
         /\ \A i \in 1..Len(Chain) : c[i] = node[Chain[i]]
         /\ \A k \in Keys : HasKey(c, k) <=> map[k] # nullptr
         /\ \A k \in Keys, a \in 1..Len(Chain) :
              map[k] # nullptr /\ Chain[a] = map[k] => At(c, k) = a
         /\ Distinct(c)
<1>1. node \in [Nodes -> Entry(Keys, Vals)] BY DEF Inv, TypeOK
<1>2. PICK s : s = Chain OBVIOUS
<1>3. /\ s \in Seq(Nodes) /\ size_ = Len(s)
      /\ \A x \in live : \E a \in 1..Len(s) : s[a] = x
      /\ \A a \in 1..Len(s) : s[a] \in live
      /\ \A i, j \in 1..Len(s) : s[i] = s[j] => i = j
  BY <1>2, ChainFacts DEF Inv, ListOK, Linked
<1>4. /\ c \in Seq(Entry(Keys, Vals)) /\ Len(c) = Len(s) /\ DOMAIN c = 1..Len(s)
      /\ \A i \in 1..Len(s) : c[i] = node[s[i]]
  BY <1>1, <1>2, <1>3, ValuesSeq
<1>5. ASSUME NEW k \in Keys, NEW i \in 1..Len(s)
      PROVE  c[i].key = k <=> map[k] # nullptr /\ s[i] = map[k]
  <2>1. s[i] \in live /\ s[i] # nullptr
    BY <1>3, NodesAssumption DEF Inv, TypeOK, NodesAssumption
  <2>2. node[s[i]].key = k => map[k] = s[i] BY <2>1 DEF Inv, MapOK
  <2>3. map[k] # nullptr => node[map[k]].key = k BY DEF Inv, MapOK
  <2>. QED BY <1>4, <2>1, <2>2, <2>3
<1>6. ASSUME NEW k \in Keys PROVE HasKey(c, k) <=> map[k] # nullptr
  <2>1. ASSUME HasKey(c, k) PROVE map[k] # nullptr BY <1>4, <1>5, <2>1 DEF HasKey
  <2>2. ASSUME map[k] # nullptr PROVE HasKey(c, k)
    <3>1. map[k] \in live BY <2>2 DEF Inv, MapOK
    <3>2. PICK a \in 1..Len(s) : s[a] = map[k] BY <1>3, <3>1
    <3>. QED BY <1>4, <1>5, <2>2, <3>2 DEF HasKey
  <2>. QED BY <2>1, <2>2
<1>7. ASSUME NEW k \in Keys, NEW a \in 1..Len(s), map[k] # nullptr, s[a] = map[k]
      PROVE  At(c, k) = a
  <2>1. At(c, k) \in 1..Len(s) /\ c[At(c, k)].key = k BY <1>4, <1>6, <1>7, AtIsIndex
  <2>2. s[At(c, k)] = map[k] BY <1>5, <2>1
  <2>. QED BY <1>3, <1>7, <2>1, <2>2
<1>8. Distinct(c)
  <2>1. \A i \in 1..Len(s) : c[i].key \in Keys
    <3>1. \A i \in 1..Len(s) : c[i] \in Entry(Keys, Vals) BY <1>4
    <3>. QED BY <3>1 DEF Entry
  <2>. QED BY <1>3, <1>4, <1>5, <2>1 DEF Distinct
<1>. QED BY <1>2, <1>4, <1>6, <1>7, <1>8

(* Without its first entry a list is its tail. *)
LEMMA DropFirst ==
  ASSUME NEW S, NEW c \in Seq(S), 1 \in 1..Len(c)
  PROVE  RemoveAt(c, 1) = Tail(c)
<1>1. PICK d : d = RemoveAt(c, 1) OBVIOUS
<1>2. /\ d \in Seq(S) /\ Len(d) = Len(c) - 1 /\ Len(c) \in Nat
      /\ \A j \in 1..Len(c) - 1 : d[j] = c[j + 1]
  <2>1. /\ RemoveAt(c, 1) \in Seq(S) /\ Len(RemoveAt(c, 1)) = Len(c) - 1
        /\ \A j \in 1..Len(c) - 1 : RemoveAt(c, 1)[j] = IF j < 1 THEN c[j] ELSE c[j + 1]
    BY RemoveCells
  <2>. QED BY <1>1, <2>1
<1>3. c # <<>> BY <1>2
<1>4. /\ Tail(c) \in Seq(S) /\ Len(Tail(c)) = Len(c) - 1
      /\ \A j \in 1..Len(c) - 1 : Tail(c)[j] = c[j + 1]
  BY <1>2, <1>3
<1>5. d = Tail(c) BY <1>2, <1>4, SeqEqual
<1>. QED BY <1>1, <1>5

(* The operators of the abstract cache are those of LRUOps. *)
LEMMA SameOperators ==
  ASSUME NEW c, NEW k, NEW v, NEW d, NEW cap
  PROVE  /\ Abstract!HasKey(c, k) <=> HasKey(c, k)
         /\ Abstract!SetKey(c, k, v, cap) = SetKey(c, k, v, cap)
         /\ Abstract!MakeRecently(c, k) = MakeRecently(c, k)
         /\ Abstract!ValueOf(c, k) = ValueOf(c, k)
         /\ Abstract!Mark(c, k, d) = Mark(c, k, d)
         /\ Abstract!IsDirty(c, k) <=> IsDirty(c, k)
         /\ Abstract!KeysOneshot(c) = KeysOneshot(c)
<1>1. Abstract!At(c, k) = At(c, k) BY DEF At, Abstract!At
<1>2. Abstract!HasKey(c, k) <=> HasKey(c, k) BY DEF HasKey, Abstract!HasKey
<1>3. Abstract!NewEntry(k, v) = NewEntry(k, v) BY DEF NewEntry, Abstract!NewEntry
<1>4. Abstract!Without(c, k) = Without(c, k)
  BY <1>1 DEF Without, Abstract!Without, RemoveAt, Abstract!RemoveAt
<1>5. Abstract!MakeRoom(c, k, cap) = MakeRoom(c, k, cap)
  BY <1>2, <1>4 DEF MakeRoom, Abstract!MakeRoom
<1>6. Abstract!SetKey(c, k, v, cap) = SetKey(c, k, v, cap)
  BY <1>3, <1>5 DEF SetKey, Abstract!SetKey
<1>7. Abstract!MakeRecently(c, k) = MakeRecently(c, k)
  BY <1>1, <1>4 DEF MakeRecently, Abstract!MakeRecently
<1>8. Abstract!ValueOf(c, k) = ValueOf(c, k) BY <1>1 DEF ValueOf, Abstract!ValueOf
<1>9. Abstract!Mark(c, k, d) = Mark(c, k, d) BY <1>1, <1>2 DEF Mark, Abstract!Mark
<1>10. Abstract!IsDirty(c, k) <=> IsDirty(c, k) BY <1>1, <1>2 DEF IsDirty, Abstract!IsDirty
<1>11. Abstract!KeysOneshot(c) = KeysOneshot(c) BY DEF KeysOneshot, Abstract!KeysOneshot
<1>. QED BY <1>2, <1>6, <1>7, <1>8, <1>9, <1>10, <1>11

(* set() has taken effect when it has made room. *)
LEMMA SetBeginSets ==
  ASSUME Inv, NEW k \in Keys, NEW v \in Vals, SetBegin(k, v)
  PROVE  Entries' = SetKey(Entries, k, v, Cap)
<1>1. /\ Unlocked /\ pending' = <<k, v>> /\ node' = node /\ ~Unlocked'
  <2>1. pending' = <<k, v>> /\ <<k, v>> # <<>> BY DEF SetBegin
  <2>. QED BY <2>1 DEF SetBegin, Unlocked
<1>2. PICK c : c = Values(node, Chain) OBVIOUS
<1>3. Entries = c BY <1>1, <1>2 DEF Entries, Values
<1>4. Entries' = Append(Values(node, Chain'), NewEntry(k, v)) BY <1>1 DEF Entries, Values
<1>5. /\ c \in Seq(Entry(Keys, Vals)) /\ Len(c) = Len(Chain) /\ DOMAIN c = 1..Len(c)
      /\ HasKey(c, k) <=> map[k] # nullptr
      /\ \A a \in 1..Len(Chain) : map[k] # nullptr /\ Chain[a] = map[k] => At(c, k) = a
  BY <1>2, Held
<1>6. /\ Chain \in Seq(Nodes) /\ size_ = Len(Chain) /\ node \in [Nodes -> Entry(Keys, Vals)]
      /\ \A i, j \in 1..Len(Chain) : Chain[i] = Chain[j] => i = j
  BY ChainFacts DEF Inv, TypeOK, ListOK, Linked
<1>7. Values(node, Chain') = MakeRoom(c, k, Cap)
  <2>1. CASE UNCHANGED <<map, next, prev, size_, live>> /\ map[k] = nullptr /\ size_ < Cap
    <3>1. Chain' = Chain BY <2>1, ChainKept
    <3>2. Len(c) # Cap
      <4>1. Len(c) < Cap /\ Len(c) \in Nat /\ Cap \in Nat
        BY <1>5, <1>6, <2>1, NodesAssumption DEF NodesAssumption
      <4>. QED BY <4>1
    <3>3. ~HasKey(c, k) BY <1>5, <2>1
    <3>. QED BY <1>2, <3>1, <3>2, <3>3 DEF MakeRoom
  <2>2. ASSUME NEW q \in Keys, map[q] # nullptr, SetList(remove(List, map[q])),
               map' = [map EXCEPT ![q] = nullptr], live' = live \ {map[q]},
               IF map[k] # nullptr THEN q = k
               ELSE size_ = Cap /\ map[q] = Chain[1] /\ Len(Chain) # 0
        PROVE  Values(node, Chain') = MakeRoom(c, k, Cap)
    <3>1. PICK a \in 1..Len(Chain) : Chain[a] = map[q] /\ Chain' = RemoveAt(Chain, a)
      BY <1>1, <2>2, Dropped
    <3>2. Values(node, Chain') = RemoveAt(c, a) BY <1>2, <1>6, <3>1, ValuesRemove
    <3>3. CASE map[k] # nullptr
      <4>1. HasKey(c, k) /\ At(c, k) = a BY <1>5, <2>2, <3>1, <3>3
      <4>. QED BY <3>2, <4>1 DEF MakeRoom, Without
    <3>4. CASE map[k] = nullptr
      <4>1. ~HasKey(c, k) /\ Len(c) = Cap BY <1>5, <1>6, <2>2, <3>4
      <4>2. 1 \in 1..Len(Chain) BY <1>6, <3>1
      <4>3. a = 1 BY <1>6, <2>2, <3>1, <3>4, <4>2
      <4>4. RemoveAt(c, 1) = Tail(c) BY <1>5, <4>2, DropFirst
      <4>. QED BY <3>2, <4>1, <4>3, <4>4 DEF MakeRoom
    <3>. QED BY <3>3, <3>4
  <2>. QED BY <2>1, <2>2, SetBeginCases
<1>. QED BY <1>3, <1>4, <1>7 DEF SetKey

(* Its end changes nothing that the cache shows. *)
LEMMA SetEndStutters ==
  ASSUME Inv, SetEnd
  PROVE  Entries' = Entries /\ ret' = ret
<1>1. PICK x \in Nodes \ live : EndWith(x) BY DEF SetEnd, EndWith
<1>2. pending' = <<>> /\ ~Unlocked /\ Unlocked' /\ ret' = ret BY DEF SetEnd, Unlocked
<1>3. PICK k \in Keys, v \in Vals : pending = <<k, v>> BY <1>2 DEF Inv, TypeOK, Unlocked
<1>4. node' = [node EXCEPT ![x] = NewEntry(k, v)] BY <1>1, <1>3 DEF EndWith
<1>5. Chain' = Append(Chain, x) BY <1>1, ChainAppended
<1>6. /\ Chain \in Seq(Nodes) /\ node \in [Nodes -> Entry(Keys, Vals)]
      /\ \A a \in 1..Len(Chain) : Chain[a] \in live
  BY ChainFacts DEF Inv, TypeOK
<1>7. node' \in [Nodes -> Entry(Keys, Vals)] BY <1>2, <1>4, SetEndInv DEF Inv, TypeOK
<1>8. PICK nd \in [Nodes -> Entry(Keys, Vals)] : nd = node' BY <1>7
<1>9. nd[x] = NewEntry(k, v) /\ \A y \in live : nd[y] = node[y]
  BY <1>4, <1>6, <1>8 DEF Inv, TypeOK
<1>10. Entries' = Values(nd, Append(Chain, x)) BY <1>2, <1>5, <1>8 DEF Entries, Values
<1>11. Values(nd, Append(Chain, x)) = Append(Values(nd, Chain), NewEntry(k, v))
  BY <1>6, <1>9, ValuesAppend
<1>12. Values(nd, Chain) = Values(node, Chain)
  <2>1. \A a \in DOMAIN Chain : nd[Chain[a]] = node[Chain[a]] BY <1>6, <1>9
  <2>. QED BY <2>1 DEF Values
<1>13. Entries = Append(Values(node, Chain), NewEntry(k, v)) BY <1>2, <1>3 DEF Entries, Values
<1>. QED BY <1>2, <1>10, <1>11, <1>12, <1>13

(* get() makes the entry of its key the last and returns its value. *)
LEMMA GetPromotes ==
  ASSUME Inv, NEW k \in Keys, Get(k)
  PROVE  /\ HasKey(Entries, k) /\ Entries' = MakeRecently(Entries, k)
         /\ ret' = [op |-> "get", res |-> <<ValueOf(Entries, k)>>]
<1>1. /\ Unlocked /\ Unlocked' /\ map[k] # nullptr /\ node' = node
      /\ SetList(addLast(remove(List, map[k]), map[k]))
      /\ ret' = [op |-> "get", res |-> <<node[map[k]].val>>]
  BY DEF Get, Unlocked
<1>2. PICK c : c = Values(node, Chain) OBVIOUS
<1>3. Entries = c /\ Entries' = Values(node, Chain') BY <1>1, <1>2 DEF Entries, Values
<1>4. PICK a \in 1..Len(Chain) : /\ Chain[a] = map[k]
                                 /\ Chain' = Append(RemoveAt(Chain, a), Chain[a])
  BY <1>1, Promoted
<1>5. HasKey(c, k) /\ At(c, k) = a /\ c[a] = node[Chain[a]] BY <1>1, <1>2, <1>4, Held
<1>6. Chain \in Seq(Nodes) /\ node \in [Nodes -> Entry(Keys, Vals)] /\ Chain[a] \in Nodes
  BY ChainFacts DEF Inv, TypeOK
<1>7. PICK t : t = RemoveAt(Chain, a) OBVIOUS
<1>8. t \in Seq(Nodes) BY <1>6, <1>7, RemoveCells
<1>9. Values(node, Append(t, Chain[a])) = Append(Values(node, t), node[Chain[a]])
  BY <1>6, <1>8, ValuesAppend
<1>10. Values(node, t) = RemoveAt(c, a) BY <1>2, <1>6, <1>7, ValuesRemove
<1>11. Entries' = MakeRecently(c, k)
  BY <1>3, <1>4, <1>5, <1>7, <1>9, <1>10 DEF MakeRecently, Without
<1>. QED BY <1>1, <1>3, <1>4, <1>5, <1>11 DEF ValueOf

(* set_dirty() and set_clean() mark the entry of their key. *)
LEMMA MarkNodeMarks ==
  ASSUME Inv, NEW k \in Keys, NEW d \in BOOLEAN, MarkNode(k, d)
  PROVE  Entries' = Mark(Entries, k, d)
<1>1. /\ Unlocked /\ Unlocked' /\ UNCHANGED <<next, prev, size_>>
      /\ node' = IF map[k] # nullptr THEN [node EXCEPT ![map[k]].dirty = d] ELSE node
  BY DEF MarkNode, Unlocked
<1>2. Chain' = Chain BY <1>1, ChainKept
<1>3. PICK c : c = Values(node, Chain) OBVIOUS
<1>4. Entries = c /\ Entries' = Values(node', Chain) BY <1>1, <1>2, <1>3 DEF Entries, Values
<1>5. CASE map[k] = nullptr
  <2>1. ~HasKey(c, k) BY <1>3, <1>5, Held
  <2>. QED BY <1>1, <1>3, <1>4, <1>5, <2>1 DEF Mark
<1>6. CASE map[k] # nullptr
  <2>1. PICK y \in live : y = map[k] BY <1>6 DEF Inv, MapOK
  <2>2. PICK a \in 1..Len(Chain) : Chain[a] = y BY ChainFacts
  <2>3. /\ HasKey(c, k) /\ At(c, k) = a /\ DOMAIN c = DOMAIN Chain /\ c[a] = node[y]
        /\ a \in DOMAIN Chain /\ \A i \in DOMAIN Chain : c[i] = node[Chain[i]]
    BY <1>3, <1>6, <2>1, <2>2, Held, ChainFacts
  <2>4. PICK e : e = [node[y] EXCEPT !.dirty = d] OBVIOUS
  <2>5. node' = [node EXCEPT ![y] = e] BY <1>1, <1>6, <2>1, <2>4
  <2>6. \A i \in DOMAIN Chain : Chain[i] \in Nodes /\ (Chain[i] = y => i = a)
    BY <2>2, ChainFacts DEF Inv, TypeOK, ListOK, Linked
  <2>7. \A i \in DOMAIN Chain : node'[Chain[i]] = IF i = a THEN e ELSE c[i]
    BY <2>2, <2>3, <2>5, <2>6 DEF Inv, TypeOK
  <2>8. Mark(c, k, d) = [c EXCEPT ![a] = e] BY <2>3, <2>4 DEF Mark
  <2>9. c = [i \in DOMAIN Chain |-> c[i]] BY <1>3 DEF Values
  <2>10. [c EXCEPT ![a] = e] = [i \in DOMAIN Chain |-> IF i = a THEN e ELSE c[i]]
    BY <2>9
  <2>. QED BY <1>4, <2>7, <2>8, <2>10 DEF Values
<1>. QED BY <1>5, <1>6

(* The pointer manipulation implements the sequence of entries ordered by  *)
(* recency: set() takes effect when it has made room, every other          *)
(* operation at once, and hasKey() is none (lru.h:42-113, 200-320).        *)
THEOREM LRUCacheImplementsLRU == Spec => ImplementsLRU
<1>1. Init => Abstract!LRUInit
  <2>. SUFFICES ASSUME Init PROVE Abstract!LRUInit OBVIOUS
  <2>1. Inv /\ size_ = 0 /\ Unlocked /\ ret = NoResult BY InitInv DEF Init, Unlocked
  <2>2. Chain = <<>> BY <2>1, ChainFacts
  <2>3. Entries = <<>> BY <2>1, <2>2 DEF Entries
  <2>. QED BY <2>1, <2>3 DEF Abstract!LRUInit, NoResult, Abstract!NoResult
<1>2. Inv /\ [Next]_vars => [Abstract!LRUNext]_(Abstract!lruVars)
  <2>. SUFFICES ASSUME Inv, [Next]_vars PROVE [Abstract!LRUNext]_(Abstract!lruVars) OBVIOUS
  <2>. USE DEF Abstract!LRUNext, Abstract!lruVars
  <2>1. ASSUME UNCHANGED <<node, next, prev, size_, pending>>
        PROVE  Entries' = Entries
    <3>1. Chain' = Chain BY <2>1, ChainKept
    <3>. QED BY <2>1, <3>1 DEF Entries, Unlocked
  <2>2. ASSUME NEW k \in Keys, NEW v \in Vals, SetBegin(k, v) PROVE Abstract!Set(k, v)
    <3>1. Entries' = SetKey(Entries, k, v, Cap) BY <2>2, SetBeginSets
    <3>2. ret' = NoResult BY <2>2 DEF SetBegin
    <3>. QED BY <3>1, <3>2, SameOperators DEF Abstract!Set, NoResult, Abstract!NoResult
  <2>3. CASE SetEnd BY <2>3, SetEndStutters
  <2>4. ASSUME NEW k \in Keys, Get(k) PROVE Abstract!Get(k)
    BY <2>4, GetPromotes, SameOperators DEF Abstract!Get
  <2>5. ASSUME NEW k \in Keys, set_dirty(k) PROVE Abstract!SetDirty(k)
    <3>1. Entries' = Mark(Entries, k, TRUE) BY <2>5, MarkNodeMarks DEF set_dirty
    <3>2. ret' = NoResult BY <2>5 DEF set_dirty, MarkNode
    <3>. QED BY <3>1, <3>2, SameOperators DEF Abstract!SetDirty, NoResult, Abstract!NoResult
  <2>6. ASSUME NEW k \in Keys, set_clean(k) PROVE Abstract!SetClean(k)
    <3>1. Entries' = Mark(Entries, k, FALSE) BY <2>6, MarkNodeMarks DEF set_clean
    <3>2. ret' = NoResult BY <2>6 DEF set_clean, MarkNode
    <3>. QED BY <3>1, <3>2, SameOperators DEF Abstract!SetClean, NoResult, Abstract!NoResult
  <2>7. ASSUME NEW k \in Keys, is_dirty(k) PROVE Abstract!AskDirty(k)
    <3>1. PICK c : c = Values(node, Chain) OBVIOUS
    <3>2. Entries = c BY <2>7, <3>1 DEF is_dirty, Entries, Values
    <3>3. HasKey(c, k) <=> map[k] # nullptr BY <3>1, Held
    <3>4. (map[k] # nullptr /\ node[map[k]].dirty) <=> IsDirty(c, k)
      <4>1. CASE map[k] = nullptr BY <3>3, <4>1 DEF IsDirty
      <4>2. CASE map[k] # nullptr
        <5>1. PICK a \in 1..Len(Chain) : Chain[a] = map[k]
          <6>1. map[k] \in live BY <4>2 DEF Inv, MapOK
          <6>. QED BY <6>1, ChainFacts
        <5>2. At(c, k) = a /\ c[a] = node[map[k]] BY <3>1, <4>2, <5>1, Held
        <5>. QED BY <3>3, <4>2, <5>2 DEF IsDirty
      <4>. QED BY <4>1, <4>2
    <3>5. ret' = [op |-> "is_dirty", res |-> <<Abstract!IsDirty(Entries, k)>>]
      <4>1. ret' = [op |-> "is_dirty", res |-> <<map[k] # nullptr /\ node[map[k]].dirty>>]
        BY <2>7 DEF is_dirty
      <4>2. (map[k] # nullptr /\ node[map[k]].dirty) <=> Abstract!IsDirty(Entries, k)
        BY <3>2, <3>4, SameOperators
      <4>3. (map[k] # nullptr /\ node[map[k]].dirty) = Abstract!IsDirty(Entries, k)
        BY <4>2 DEF Abstract!IsDirty
      <4>. QED BY <4>1, <4>3, Zenon
    <3>6. Entries' = Entries BY <2>1, <2>7 DEF is_dirty
    <3>. QED BY <3>5, <3>6 DEF Abstract!AskDirty
  <2>8. CASE lru_keys_oneshot
    <3>1. Entries = Values(node, Chain) BY <2>8 DEF lru_keys_oneshot, Entries, Values
    <3>2. KeysOneshot(Entries) = [i \in DOMAIN Chain |-> node[Chain[i]].key]
      BY <3>1 DEF KeysOneshot, Values
    <3>3. ret' = [op |-> "keys", res |-> Abstract!KeysOneshot(Entries)]
      BY <2>8, <3>2, SameOperators DEF lru_keys_oneshot
    <3>4. Entries' = Entries BY <2>1, <2>8 DEF lru_keys_oneshot
    <3>. QED BY <3>3, <3>4 DEF Abstract!ListKeys
  <2>9. ASSUME NEW k \in Keys, hasKey(k) PROVE UNCHANGED Abstract!lruVars
    BY <2>1, <2>9 DEF hasKey
  <2>10. CASE UNCHANGED vars BY <2>1, <2>10 DEF vars
  <2>. QED BY <2>2, <2>3, <2>4, <2>5, <2>6, <2>7, <2>8, <2>9, <2>10 DEF Next
<1>. QED BY <1>1, <1>2, InvHolds, PTL DEF Spec, ImplementsLRU, Abstract!LRUSpec

-----------------------------------------------------------------------------
(* The replacement policy                                                  *)

(* The keys of c are the last of u, as many as fit *)
Recent(c, u) ==
    /\ c \in Seq(Entry(Keys, Vals))
    /\ u \in Seq(Keys) /\ \A i, j \in 1..Len(u) : u[i] = u[j] => i = j
    /\ Len(c) = IF Len(u) > Cap THEN Cap ELSE Len(u)
    /\ \A i \in 1..Len(c) : c[i].key = u[Len(u) - Len(c) + i]

(* c tells what each of its keys was given. *)
Current(c, g) == \A i \in DOMAIN c : <<c[i].val, c[i].dirty>> = g[c[i].key]

HistoryInv ==
    /\ Inv
    /\ given \in [Keys -> {<<>>} \cup (Vals \X BOOLEAN)]
    /\ Recent(Entries, used) /\ Current(Entries, given)

(* A key that is used again leaves its place in the order of use. *)
LEMMA UseAgain ==
  ASSUME NEW u \in Seq(Keys), \A i, j \in 1..Len(u) : u[i] = u[j] => i = j, NEW k
  PROVE  /\ \A p \in 1..Len(u) : u[p] = k => RemoveFirst(u, k) = RemoveAt(u, p)
         /\ (\A p \in 1..Len(u) : u[p] # k) => RemoveFirst(u, k) = u
<1>1. ASSUME NEW p \in 1..Len(u), u[p] = k PROVE RemoveFirst(u, k) = RemoveAt(u, p)
  <2>1. \A i \in 1..Len(u) : u[i] = k <=> i = p BY <1>1
  <2>2. {i \in 1..Len(u) : u[i] = k} = {p} BY <2>1
  <2>3. Min({p}) = p
    <3>1. p \in Nat /\ p <= p BY <1>1
    <3>. QED BY <3>1 DEF Min
  <2>4. SelectInSeq(u, LAMBDA v : v = k) = p BY <2>2, <2>3 DEF SelectInSeq
  <2>. QED BY <1>1, <2>4 DEF RemoveFirst
<1>2. ASSUME \A p \in 1..Len(u) : u[p] # k PROVE RemoveFirst(u, k) = u
  BY <1>2 DEF RemoveFirst
<1>. QED BY <1>1, <1>2

(* There is room for k in m, and m has the last keys of w, where k is not. *)
RoomFor(k, m, w) ==
    /\ m \in Seq(Entry(Keys, Vals)) /\ w \in Seq(Keys)
    /\ \A i, j \in 1..Len(w) : w[i] = w[j] => i = j
    /\ \A i \in 1..Len(w) : w[i] # k
    /\ Len(m) + 1 = IF Len(w) + 1 > Cap THEN Cap ELSE Len(w) + 1
    /\ \A j \in 1..Len(m) : m[j].key = w[Len(w) - Len(m) + j]

(* What makes room for a key in the cache takes it out of the order of     *)
(* use: the keys that stay are the last of the others.                     *)
LEMMA RoomRecent ==
  ASSUME NEW c, NEW u, Recent(c, u), Distinct(c), NEW k \in Keys,
         NEW m, m = MakeRoom(c, k, Cap), NEW w, w = RemoveFirst(u, k)
  PROVE  RoomFor(k, m, w)
<1>1. c \in Seq(Entry(Keys, Vals)) /\ u \in Seq(Keys) /\ DOMAIN c = 1..Len(c)
  BY DEF Recent
<1>2. /\ Len(c) \in Nat /\ Len(u) \in Nat /\ Cap \in Nat /\ Cap # 0
      /\ Len(c) = (IF Len(u) > Cap THEN Cap ELSE Len(u))
  BY <1>1, NodesAssumption DEF Recent, NodesAssumption
<1>3. PICK o \in Nat : Len(u) = o + Len(c)
  <2>1. Len(u) - Len(c) \in Nat /\ Len(u) = (Len(u) - Len(c)) + Len(c) BY <1>2
  <2>. QED BY <2>1
<1>4. \A i \in 1..Len(c) : c[i].key = u[o + i]
  <2>1. Len(u) - Len(c) = o BY <1>2, <1>3
  <2>. QED BY <2>1 DEF Recent
<1>5. \A i, j \in 1..Len(u) : u[i] = u[j] => i = j BY DEF Recent
<1>6. ASSUME NEW p \in 1..Len(u), u[p] = k
      PROVE  /\ w \in Seq(Keys) /\ Len(w) = Len(u) - 1
             /\ \A j \in 1..Len(u) - 1 : w[j] = IF j < p THEN u[j] ELSE u[j + 1]
  <2>1. w = RemoveAt(u, p) BY <1>1, <1>5, <1>6, UseAgain
  <2>. QED BY <1>1, <2>1, RemoveCells
<1>7. (\A p \in 1..Len(u) : u[p] # k) => w = u BY <1>1, <1>5, UseAgain
<1>8. /\ w \in Seq(Keys) /\ \A i, j \in 1..Len(w) : w[i] = w[j] => i = j
      /\ \A i \in 1..Len(w) : w[i] # k
  <2>1. CASE \A p \in 1..Len(u) : u[p] # k
    <3>1. w = u BY <1>7, <2>1
    <3>. QED BY <1>1, <1>5, <2>1, <3>1
  <2>2. CASE \E p \in 1..Len(u) : u[p] = k
    <3>1. PICK p \in 1..Len(u) : u[p] = k BY <2>2
    <3>2. /\ w \in Seq(Keys) /\ Len(w) = Len(u) - 1
          /\ \A j \in 1..Len(u) - 1 : w[j] = IF j < p THEN u[j] ELSE u[j + 1]
      BY <1>6, <3>1, Zenon
    <3>. DEFINE old(j) == IF j < p THEN j ELSE j + 1
    <3>3. \A j \in 1..Len(w) : old(j) \in 1..Len(u) /\ old(j) # p /\ w[j] = u[old(j)]
      BY <1>2, <3>2
    <3>4. \A i, j \in 1..Len(w) : old(i) = old(j) => i = j BY <1>2, <3>2
    <3>. HIDE DEF old
    <3>5. ASSUME NEW i \in 1..Len(w), NEW j \in 1..Len(w), w[i] = w[j] PROVE i = j
      <4>1. u[old(i)] = u[old(j)] BY <3>3, <3>5
      <4>2. old(i) = old(j) BY <1>5, <3>3, <4>1
      <4>. QED BY <3>4, <4>2
    <3>6. ASSUME NEW i \in 1..Len(w) PROVE w[i] # k
      <4>1. old(i) # p /\ w[i] = u[old(i)] /\ old(i) \in 1..Len(u) BY <3>3
      <4>. QED BY <1>5, <3>1, <4>1
    <3>. QED BY <3>2, <3>5, <3>6
  <2>. QED BY <2>1, <2>2
<1>9. CASE HasKey(c, k)
  <2>1. PICK a \in 1..Len(c) : a = At(c, k) /\ c[a].key = k BY <1>1, <1>9, AtIsIndex
  <2>2. PICK p \in 1..Len(u) : p = o + a /\ u[p] = k
    <3>1. o + a \in 1..Len(u) BY <1>2, <1>3, <2>1
    <3>. QED BY <1>4, <2>1, <3>1
  <2>3. /\ w \in Seq(Keys) /\ Len(w) = Len(u) - 1
        /\ \A j \in 1..Len(u) - 1 : w[j] = IF j < p THEN u[j] ELSE u[j + 1]
    BY <1>6, <2>2
  <2>4. m = RemoveAt(c, a) BY <1>9, <2>1 DEF MakeRoom, Without
  <2>5. /\ m \in Seq(Entry(Keys, Vals)) /\ Len(m) = Len(c) - 1
        /\ \A j \in 1..Len(c) - 1 : m[j] = IF j < a THEN c[j] ELSE c[j + 1]
    BY <1>1, <2>4, RemoveCells
  <2>6. Len(w) - Len(m) = o BY <1>2, <1>3, <2>3, <2>5
  <2>7. ASSUME NEW j \in 1..Len(m) PROVE m[j].key = w[o + j]
    <3>1. /\ j \in 1..Len(c) - 1 /\ j \in 1..Len(c) /\ j + 1 \in 1..Len(c)
          /\ o + j \in 1..Len(u) - 1 /\ (o + j) + 1 = o + (j + 1)
          /\ (o + j < p <=> j < a)
      BY <1>2, <1>3, <2>2, <2>5
    <3>2. c[j].key = u[o + j] /\ c[j + 1].key = u[o + (j + 1)] BY <1>4, <3>1
    <3>3. m[j] = IF j < a THEN c[j] ELSE c[j + 1] BY <2>5, <3>1
    <3>4. w[o + j] = IF j < a THEN u[o + j] ELSE u[o + (j + 1)] BY <2>3, <3>1
    <3>. QED BY <3>2, <3>3, <3>4
  <2>8. Len(m) + 1 = IF Len(w) + 1 > Cap THEN Cap ELSE Len(w) + 1
    <3>1. Len(w) + 1 = Len(u) /\ Len(m) + 1 = Len(c) BY <1>2, <2>3, <2>5
    <3>. QED BY <1>2, <3>1
  <2>. QED BY <1>8, <2>5, <2>6, <2>7, <2>8 DEF RoomFor
<1>10. CASE ~HasKey(c, k)
  <2>1. \A i \in 1..Len(c) : c[i].key # k BY <1>1, <1>10 DEF HasKey
  <2>2. ASSUME NEW p \in 1..Len(u), u[p] = k PROVE p <= o
    <3>1. SUFFICES ASSUME ~(p <= o) PROVE FALSE OBVIOUS
    <3>2. PICK i \in 1..Len(c) : o + i = p
      <4>1. p - o \in 1..Len(c) /\ o + (p - o) = p BY <1>2, <1>3, <3>1
      <4>. QED BY <4>1
    <3>. QED BY <1>4, <2>1, <2>2, <3>2
  <2>3. CASE Len(c) = Cap
    <3>1. m = Tail(c) /\ c # <<>> BY <1>1, <1>2, <1>10, <2>3 DEF MakeRoom
    <3>2. /\ m \in Seq(Entry(Keys, Vals)) /\ Len(m) = Len(c) - 1
          /\ \A j \in 1..Len(c) - 1 : m[j] = c[j + 1]
      BY <1>1, <3>1
    <3>3. \A j \in 1..Len(c) - 1 : j + 1 \in 1..Len(c) BY <1>2
    <3>4. \A j \in 1..Len(c) - 1 : m[j].key = u[o + (j + 1)] BY <1>4, <3>2, <3>3
    <3>5. Len(m) = Len(c) - 1 BY <3>2
    <3>6. CASE \E p \in 1..Len(u) : u[p] = k
      <4>1. PICK p \in 1..Len(u) : u[p] = k BY <3>6
      <4>2. p <= o BY <2>2, <4>1
      <4>3. /\ w \in Seq(Keys) /\ Len(w) = Len(u) - 1
            /\ \A j \in 1..Len(u) - 1 : w[j] = IF j < p THEN u[j] ELSE u[j + 1]
        BY <1>6, <4>1
      <4>4. Len(w) - Len(m) = o BY <1>2, <1>3, <3>2, <4>3
      <4>5. ASSUME NEW j \in 1..Len(m) PROVE m[j].key = w[o + j]
        <5>1. j \in 1..Len(c) - 1 /\ o + j \in 1..Len(u) - 1 /\ (o + j) + 1 = o + (j + 1)
          BY <1>2, <1>3, <3>5
        <5>2. ~(o + j < p) BY <4>2, <5>1
        <5>3. w[o + j] = u[o + (j + 1)] BY <4>3, <5>1, <5>2
        <5>. QED BY <3>4, <5>1, <5>3
      <4>6. Len(m) + 1 = IF Len(w) + 1 > Cap THEN Cap ELSE Len(w) + 1
        <5>1. Len(w) + 1 = Len(u) /\ Len(m) + 1 = Len(c) BY <1>2, <3>2, <4>3
        <5>. QED BY <1>2, <5>1
      <4>. QED BY <1>8, <3>2, <4>4, <4>5, <4>6 DEF RoomFor
    <3>7. CASE ~\E p \in 1..Len(u) : u[p] = k
      <4>1. w = u BY <1>7, <3>7
      <4>2. Len(w) - Len(m) = o + 1
        <5>1. Len(w) = o + Len(c) BY <1>3, <4>1
        <5>2. Len(c) \in Int /\ o \in Int BY <1>2, <1>3
        <5>. QED BY <3>5, <5>1, <5>2
      <4>3. ASSUME NEW j \in 1..Len(m) PROVE m[j].key = w[(o + 1) + j]
        <5>1. j \in 1..Len(c) - 1 /\ (o + 1) + j = o + (j + 1) BY <1>3, <3>2
        <5>. QED BY <3>4, <4>1, <5>1
      <4>4. Len(m) + 1 = IF Len(w) + 1 > Cap THEN Cap ELSE Len(w) + 1
        <5>1. Len(w) = Len(u) /\ Len(m) + 1 = Len(c) BY <1>2, <3>2, <4>1
        <5>. QED BY <1>2, <2>3, <5>1
      <4>. QED BY <1>8, <3>2, <4>2, <4>3, <4>4 DEF RoomFor
    <3>. QED BY <3>6, <3>7
  <2>4. CASE Len(c) # Cap
    <3>1. Len(c) = Len(u) /\ Len(u) + 1 <= Cap BY <1>2, <2>4
    <3>2. o = 0 BY <1>2, <1>3, <3>1
    <3>3. m = c BY <1>10, <2>4 DEF MakeRoom
    <3>4. w = u
      <4>1. \A p \in 1..Len(u) : ~(p <= 0) BY <1>2
      <4>. QED BY <1>7, <2>2, <3>2, <4>1
    <3>5. Len(m) + 1 = IF Len(w) + 1 > Cap THEN Cap ELSE Len(w) + 1
      BY <1>2, <3>1, <3>3, <3>4
    <3>6. Len(w) - Len(m) = 0 BY <1>2, <3>1, <3>3, <3>4
    <3>7. \A j \in 1..Len(m) : m[j].key = w[0 + j] BY <1>4, <3>2, <3>3, <3>4
    <3>. QED BY <1>1, <1>8, <3>3, <3>5, <3>6, <3>7 DEF RoomFor
  <2>. QED BY <2>3, <2>4
<1>. QED BY <1>9, <1>10

(* A key that is put at the end of both is the last to be evicted. *)
LEMMA AppendRecent ==
  ASSUME NEW k \in Keys, NEW m, NEW w, RoomFor(k, m, w),
         NEW e \in Entry(Keys, Vals), e.key = k
  PROVE  Recent(Append(m, e), Append(w, k))
<1>1. /\ m \in Seq(Entry(Keys, Vals)) /\ w \in Seq(Keys)
      /\ \A i, j \in 1..Len(w) : w[i] = w[j] => i = j
      /\ \A i \in 1..Len(w) : w[i] # k
      /\ Len(m) + 1 = IF Len(w) + 1 > Cap THEN Cap ELSE Len(w) + 1
      /\ \A j \in 1..Len(m) : m[j].key = w[Len(w) - Len(m) + j]
  BY DEF RoomFor
<1>2. Len(m) \in Nat /\ Len(w) \in Nat /\ Len(m) <= Len(w)
  BY <1>1, NodesAssumption DEF NodesAssumption
<1>3. PICK c, u : c = Append(m, e) /\ u = Append(w, k) OBVIOUS
<1>4. /\ c \in Seq(Entry(Keys, Vals)) /\ Len(c) = Len(m) + 1 /\ c[Len(m) + 1] = e
      /\ \A j \in 1..Len(m) : c[j] = m[j]
  BY <1>1, <1>3
<1>5. /\ u \in Seq(Keys) /\ Len(u) = Len(w) + 1 /\ u[Len(w) + 1] = k
      /\ \A j \in 1..Len(w) : u[j] = w[j]
  BY <1>1, <1>3
<1>6. \A i, j \in 1..Len(u) : u[i] = u[j] => i = j
  <2>1. \A i \in 1..Len(u) : i \in 1..Len(w) \/ i = Len(w) + 1 BY <1>2, <1>5
  <2>. QED BY <1>1, <1>5, <2>1
<1>7. Len(c) = IF Len(u) > Cap THEN Cap ELSE Len(u) BY <1>1, <1>4, <1>5
<1>8. ASSUME NEW i \in 1..Len(c) PROVE c[i].key = u[Len(u) - Len(c) + i]
  <2>1. Len(u) - Len(c) = Len(w) - Len(m) BY <1>2, <1>4, <1>5
  <2>2. CASE i = Len(m) + 1
    <3>1. Len(w) - Len(m) + i = Len(w) + 1 BY <1>2, <2>2
    <3>. QED BY <1>4, <1>5, <2>1, <2>2, <3>1
  <2>3. CASE i \in 1..Len(m)
    <3>1. Len(w) - Len(m) + i \in 1..Len(w) BY <1>2, <2>3
    <3>2. c[i] = m[i] BY <1>4, <2>3
    <3>3. u[Len(w) - Len(m) + i] = w[Len(w) - Len(m) + i] BY <1>5, <3>1
    <3>. QED BY <1>1, <2>1, <2>3, <3>2, <3>3
  <2>4. i \in 1..Len(m) \/ i = Len(m) + 1 BY <1>2, <1>4
  <2>. QED BY <2>2, <2>3, <2>4
<1>9. Recent(c, u) BY <1>4, <1>5, <1>6, <1>7, <1>8 DEF Recent
<1>. QED BY <1>3, <1>9

(* set() puts its key, and makeRecently() the one that was read, where     *)
(* they belong in the order of use.                                        *)
LEMMA UseRecent ==
  ASSUME NEW c, NEW u, Recent(c, u), Distinct(c), NEW k \in Keys, NEW v \in Vals
  PROVE  /\ Recent(SetKey(c, k, v, Cap), Append(RemoveFirst(u, k), k))
         /\ HasKey(c, k) => Recent(MakeRecently(c, k), Append(RemoveFirst(u, k), k))
<1>1. PICK m, w : m = MakeRoom(c, k, Cap) /\ w = RemoveFirst(u, k) OBVIOUS
<1>2. RoomFor(k, m, w) BY <1>1, RoomRecent
<1>3. ASSUME NEW e \in Entry(Keys, Vals), e.key = k PROVE Recent(Append(m, e), Append(w, k))
  BY <1>2, <1>3, AppendRecent
<1>4. NewEntry(k, v) \in Entry(Keys, Vals) /\ NewEntry(k, v).key = k BY DEF NewEntry, Entry
<1>5. Recent(SetKey(c, k, v, Cap), Append(w, k)) BY <1>1, <1>3, <1>4 DEF SetKey
<1>6. ASSUME HasKey(c, k) PROVE Recent(MakeRecently(c, k), Append(w, k))
  <2>1. c \in Seq(Entry(Keys, Vals)) /\ At(c, k) \in DOMAIN c /\ c[At(c, k)].key = k
    BY <1>6, AtIsIndex DEF Recent
  <2>2. c[At(c, k)] \in Entry(Keys, Vals) BY <2>1
  <2>3. MakeRecently(c, k) = Append(m, c[At(c, k)])
    BY <1>1, <1>6 DEF MakeRecently, MakeRoom
  <2>. QED BY <1>3, <2>1, <2>2, <2>3
<1>. QED BY <1>1, <1>5, <1>6

(* set() gives its key a value and no mark, and its eviction changes no    *)
(* other entry.                                                            *)
LEMMA SetCurrent ==
  ASSUME NEW c, NEW u, Recent(c, u), Distinct(c), NEW g, Current(c, g),
         NEW G, g \in [Keys -> G], NEW k \in Keys, NEW v \in Vals
  PROVE  Current(SetKey(c, k, v, Cap), [g EXCEPT ![k] = <<v, FALSE>>])
<1>1. PICK m : m = MakeRoom(c, k, Cap) OBVIOUS
<1>2. c \in Seq(Entry(Keys, Vals)) /\ Len(c) <= Cap /\ Cap \in Nat \ {0}
  <2>1. c \in Seq(Entry(Keys, Vals)) /\ u \in Seq(Keys) BY DEF Recent
  <2>2. Len(c) \in Nat /\ Len(u) \in Nat /\ Cap \in Nat \ {0}
    BY <2>1, NodesAssumption DEF NodesAssumption
  <2>. QED BY <2>1, <2>2 DEF Recent
<1>3. /\ m \in Seq(Entry(Keys, Vals)) /\ ~HasKey(m, k)
      /\ \A j \in DOMAIN m : \E i \in DOMAIN c : m[j] = c[i]
  BY <1>1, <1>2, MakeRoomKeeps
<1>4. PICK e : e = NewEntry(k, v) OBVIOUS
<1>5. e \in Entry(Keys, Vals) /\ e.key = k /\ e.val = v /\ e.dirty = FALSE
  BY <1>4 DEF NewEntry, Entry
<1>6. PICK d : d = Append(m, e) OBVIOUS
<1>7. /\ DOMAIN d = 1..Len(m) + 1 /\ Len(m) \in Nat /\ DOMAIN m = 1..Len(m)
      /\ d[Len(m) + 1] = e /\ \A j \in 1..Len(m) : d[j] = m[j]
  BY <1>3, <1>5, <1>6
<1>8. PICK h : h = [g EXCEPT ![k] = <<v, FALSE>>] OBVIOUS
<1>9. h[k] = <<v, FALSE>> /\ \A q \in Keys \ {k} : h[q] = g[q] BY <1>8
<1>10. ASSUME NEW j \in DOMAIN d PROVE <<d[j].val, d[j].dirty>> = h[d[j].key]
  <2>1. CASE j = Len(m) + 1 BY <1>5, <1>7, <1>9, <2>1
  <2>2. CASE j \in 1..Len(m)
    <3>1. PICK i \in DOMAIN c : m[j] = c[i] BY <1>3, <1>7, <2>2
    <3>2. c[i] \in Entry(Keys, Vals) BY <1>2
    <3>3. c[i].key \in Keys BY <3>2 DEF Entry
    <3>4. c[i].key # k BY <1>3, <1>7, <2>2, <3>1 DEF HasKey
    <3>5. <<c[i].val, c[i].dirty>> = g[c[i].key] BY DEF Current
    <3>. QED BY <1>7, <1>9, <2>2, <3>1, <3>3, <3>4, <3>5
  <2>3. j = Len(m) + 1 \/ j \in 1..Len(m) BY <1>7
  <2>. QED BY <2>1, <2>2, <2>3
<1>. QED BY <1>1, <1>4, <1>6, <1>8, <1>10 DEF Current, SetKey

(* makeRecently() moves an entry and changes none. *)
LEMMA PromoteCurrent ==
  ASSUME NEW c, NEW u, Recent(c, u), Distinct(c), NEW g, Current(c, g), NEW k, HasKey(c, k)
  PROVE  Current(MakeRecently(c, k), g)
<1>1. c \in Seq(Entry(Keys, Vals)) BY DEF Recent
<1>2. \A j \in DOMAIN MakeRecently(c, k) : \E i \in DOMAIN c : MakeRecently(c, k)[j] = c[i]
  BY <1>1, MakeRecentlyKeeps
<1>. QED BY <1>2 DEF Current

(* A mark is given to the entry of its key, if there is one, and to no     *)
(* other; the keys and their order stay.                                   *)
LEMMA MarkCurrent ==
  ASSUME NEW c, NEW u, Recent(c, u), Distinct(c), NEW g, Current(c, g),
         g \in [Keys -> {<<>>} \cup (Vals \X BOOLEAN)], NEW k \in Keys, NEW d \in BOOLEAN
  PROVE  /\ Recent(Mark(c, k, d), u)
         /\ Current(Mark(c, k, d),
                    [g EXCEPT ![k] = IF g[k] = <<>> THEN <<>> ELSE <<g[k][1], d>>])
<1>1. c \in Seq(Entry(Keys, Vals)) BY DEF Recent
<1>2. PICK m : m = Mark(c, k, d) OBVIOUS
<1>3. /\ m \in Seq(Entry(Keys, Vals)) /\ DOMAIN m = DOMAIN c /\ Len(m) = Len(c)
      /\ \A i \in DOMAIN c : m[i].key = c[i].key /\ m[i].val = c[i].val
  BY <1>1, <1>2, MarkKeeps
<1>4. Recent(m, u)
  <2>1. DOMAIN c = 1..Len(c) BY <1>1
  <2>. QED BY <1>3, <2>1 DEF Recent
<1>5. PICK h : h = [g EXCEPT ![k] = IF g[k] = <<>> THEN <<>> ELSE <<g[k][1], d>>] OBVIOUS
<1>6. h[k] = (IF g[k] = <<>> THEN <<>> ELSE <<g[k][1], d>>) /\ \A q \in Keys \ {k} : h[q] = g[q]
  BY <1>5
<1>7. ASSUME NEW i \in DOMAIN m PROVE <<m[i].val, m[i].dirty>> = h[m[i].key]
  <2>1. i \in DOMAIN c /\ m[i].key = c[i].key /\ m[i].val = c[i].val BY <1>3
  <2>2. c[i] \in Entry(Keys, Vals) BY <1>1, <2>1
  <2>3. c[i].key \in Keys BY <2>2 DEF Entry
  <2>4. <<c[i].val, c[i].dirty>> = g[c[i].key] BY <2>1 DEF Current
  <2>5. CASE c[i].key = k
    <3>1. HasKey(c, k) /\ At(c, k) = i BY <2>1, <2>5, EntryOfKey
    <3>2. m[i].dirty = d BY <1>1, <1>2, <2>1, <2>2, <3>1 DEF Mark, Entry
    <3>3. g[k] # <<>> /\ g[k][1] = c[i].val BY <2>4, <2>5
    <3>. QED BY <1>6, <2>1, <2>5, <3>2, <3>3
  <2>6. CASE c[i].key # k
    <3>1. m[i] = c[i]
      <4>1. CASE ~HasKey(c, k) BY <1>2, <4>1 DEF Mark
      <4>2. CASE HasKey(c, k)
        <5>1. At(c, k) # i BY <2>6, <4>2, AtIsIndex
        <5>. QED BY <1>1, <1>2, <2>1, <4>2, <5>1 DEF Mark
      <4>. QED BY <4>1, <4>2
    <3>. QED BY <1>6, <2>3, <2>4, <2>6, <3>1
  <2>. QED BY <2>5, <2>6
<1>. QED BY <1>2, <1>4, <1>5, <1>7 DEF Current

(* What a step of the cache does to its entries *)
LEMMA HistoryNextInv ==
  ASSUME HistoryInv, [HistoryNext]_<<vars, used, given>>
  PROVE  HistoryInv'
<1>1. /\ Inv /\ given \in [Keys -> {<<>>} \cup (Vals \X BOOLEAN)]
      /\ Recent(Entries, used) /\ Current(Entries, given)
  BY DEF HistoryInv
<1>2. PICK c, u, g : c = Entries /\ u = used /\ g = given OBVIOUS
<1>3. Unlocked => Distinct(c)
  <2>1. SUFFICES ASSUME Unlocked PROVE Distinct(c) OBVIOUS
  <2>2. Entries = Values(node, Chain) BY <2>1 DEF Entries, Values
  <2>. QED BY <1>1, <1>2, <2>2, Held
<1>4. ASSUME NEW k \in Keys, NEW v \in Vals, SetBegin(k, v), Use(k), Give(k, <<v, FALSE>>)
      PROVE  HistoryInv'
  <2>1. Inv' BY <1>1, <1>4, SetBeginInv
  <2>2. Unlocked /\ Distinct(c) BY <1>3, <1>4 DEF SetBegin
  <2>3. Entries' = SetKey(c, k, v, Cap) BY <1>1, <1>2, <1>4, SetBeginSets
  <2>4. used' = Append(RemoveFirst(u, k), k) BY <1>2, <1>4 DEF Use
  <2>5. given' = [g EXCEPT ![k] = <<v, FALSE>>] BY <1>2, <1>4 DEF Give
  <2>6. Recent(SetKey(c, k, v, Cap), Append(RemoveFirst(u, k), k)) BY <1>1, <1>2, <2>2, UseRecent
  <2>7. Current(SetKey(c, k, v, Cap), [g EXCEPT ![k] = <<v, FALSE>>])
    BY <1>1, <1>2, <2>2, SetCurrent
  <2>8. given' \in [Keys -> {<<>>} \cup (Vals \X BOOLEAN)] BY <1>1, <1>2, <2>5
  <2>9. Recent(Entries', used') /\ Current(Entries', given') BY <2>3, <2>4, <2>5, <2>6, <2>7
  <2>. QED BY <2>1, <2>8, <2>9 DEF HistoryInv, Recent, Current
<1>5. ASSUME NEW k \in Keys, Get(k), Use(k), given' = given PROVE HistoryInv'
  <2>1. Inv' BY <1>1, <1>5, GetInv
  <2>2. Unlocked /\ Distinct(c) BY <1>3, <1>5 DEF Get
  <2>3. HasKey(c, k) /\ Entries' = MakeRecently(c, k) BY <1>1, <1>2, <1>5, GetPromotes
  <2>4. used' = Append(RemoveFirst(u, k), k) BY <1>2, <1>5 DEF Use
  <2>5. Current(MakeRecently(c, k), g) BY <1>1, <1>2, <2>2, <2>3, PromoteCurrent
  <2>6. Recent(MakeRecently(c, k), Append(RemoveFirst(u, k), k))
    <3>1. PICK v \in Vals : TRUE
      <4>1. c \in Seq(Entry(Keys, Vals)) BY <1>1, <1>2 DEF Recent
      <4>2. PICK i \in DOMAIN c : c[i].key = k BY <2>3 DEF HasKey
      <4>3. c[i] \in Entry(Keys, Vals) BY <4>1
      <4>. QED BY <4>3 DEF Entry
    <3>. QED BY <1>1, <1>2, <2>2, <2>3, UseRecent
  <2>7. Recent(Entries', used') /\ Current(Entries', given')
    BY <1>2, <1>5, <2>3, <2>4, <2>5, <2>6
  <2>. QED BY <1>1, <1>5, <2>1, <2>7 DEF HistoryInv, Recent, Current
<1>6. ASSUME NEW k \in Keys, NEW d \in BOOLEAN, MarkNode(k, d), GiveMark(k, d), used' = used
      PROVE  HistoryInv'
  <2>1. Inv' BY <1>1, <1>6, MarkNodeInv
  <2>2. Unlocked /\ Distinct(c) BY <1>3, <1>6 DEF MarkNode
  <2>3. Entries' = Mark(c, k, d) BY <1>1, <1>2, <1>6, MarkNodeMarks
  <2>4. given' = [g EXCEPT ![k] = IF g[k] = <<>> THEN <<>> ELSE <<g[k][1], d>>]
    BY <1>2, <1>6 DEF GiveMark, Give
  <2>5. /\ Recent(Mark(c, k, d), u)
        /\ Current(Mark(c, k, d),
                   [g EXCEPT ![k] = IF g[k] = <<>> THEN <<>> ELSE <<g[k][1], d>>])
    <3>1. Recent(c, u) /\ Current(c, g) /\ g \in [Keys -> {<<>>} \cup (Vals \X BOOLEAN)]
      BY <1>1, <1>2
    <3>. QED BY <2>2, <3>1, MarkCurrent, Zenon
  <2>6. given' \in [Keys -> {<<>>} \cup (Vals \X BOOLEAN)]
    <3>1. g[k] # <<>> => g[k][1] \in Vals BY <1>1, <1>2
    <3>. QED BY <1>1, <1>2, <2>4, <3>1
  <2>7. Recent(Entries', used') /\ Current(Entries', given') BY <1>2, <1>6, <2>3, <2>4, <2>5
  <2>. QED BY <2>1, <2>6, <2>7 DEF HistoryInv, Recent, Current
<1>7. ASSUME Inv', Entries' = Entries, used' = used, given' = given PROVE HistoryInv'
  BY <1>1, <1>7 DEF HistoryInv, Recent, Current
<1>8. ASSUME UNCHANGED <<node, next, prev, size_, pending>> PROVE Entries' = Entries
  <2>1. Chain' = Chain BY <1>1, <1>8, ChainKept
  <2>. QED BY <1>8, <2>1 DEF Entries, Unlocked
<1>9. ASSUME NEW k \in Keys, is_dirty(k) \/ hasKey(k), UNCHANGED <<used, given>>
      PROVE  HistoryInv'
  <2>1. Inv'
    <3>1. Next BY <1>9 DEF Next
    <3>. QED BY <1>1, <3>1, NextInv
  <2>. QED BY <1>7, <1>8, <1>9, <2>1 DEF is_dirty, hasKey
<1>10. CASE SetEnd /\ UNCHANGED <<used, given>>
  BY <1>1, <1>7, <1>10, SetEndInv, SetEndStutters
<1>11. CASE lru_keys_oneshot /\ UNCHANGED <<used, given>>
  <2>1. Inv'
    <3>1. Next BY <1>11 DEF Next
    <3>. QED BY <1>1, <3>1, NextInv
  <2>. QED BY <1>7, <1>8, <1>11, <2>1 DEF lru_keys_oneshot
<1>12. CASE UNCHANGED <<vars, used, given>>
  <2>1. Inv' BY <1>1, <1>12, NextInv
  <2>. QED BY <1>7, <1>8, <1>12, <2>1 DEF vars
<1>. QED
  BY <1>4, <1>5, <1>6, <1>9, <1>10, <1>11, <1>12 DEF HistoryNext, set_dirty, set_clean

(* A cache with no entry has forgotten none. *)
LEMMA HistoryInitInv ==
  ASSUME HistoryInit
  PROVE  HistoryInv
<1>1. Init /\ used = <<>> /\ given = [k \in Keys |-> <<>>] BY DEF HistoryInit
<1>2. Inv /\ size_ = 0 /\ Unlocked BY <1>1, InitInv DEF Init, Unlocked
<1>3. Chain = <<>> BY <1>2, ChainFacts
<1>4. Entries = <<>> BY <1>2, <1>3 DEF Entries
<1>5. Cap \in Nat BY NodesAssumption DEF NodesAssumption
<1>6. Recent(<<>>, <<>>) BY <1>5 DEF Recent
<1>7. Current(<<>>, given) BY DEF Current
<1>. QED BY <1>1, <1>2, <1>4, <1>6, <1>7 DEF HistoryInv

(* set() and get() implement least-recently-used replacement: the cache    *)
(* holds the Cap keys used last, in the order of use, each with the value  *)
(* and the mark it was last given (lru.h:230-320).                         *)
THEOREM MatchesHistoryHolds == HistorySpec => []MatchesHistory
<1>1. HistoryInit => HistoryInv BY HistoryInitInv
<1>2. HistoryInv /\ [HistoryNext]_<<vars, used, given>> => HistoryInv' BY HistoryNextInv
<1>3. HistoryInv => MatchesHistory
  <2>1. SUFFICES ASSUME HistoryInv PROVE MatchesHistory OBVIOUS
  <2>2. PICK c, u : c = Entries /\ u = used OBVIOUS
  <2>3. Recent(c, u) /\ Current(c, given) BY <2>1, <2>2 DEF HistoryInv
  <2>4. /\ c \in Seq(Entry(Keys, Vals)) /\ u \in Seq(Keys) /\ DOMAIN c = 1..Len(c)
        /\ Len(c) \in Nat /\ Len(u) \in Nat /\ Cap \in Nat
    BY <2>3, NodesAssumption DEF Recent, NodesAssumption
  <2>. DEFINE from == IF Len(u) > Cap THEN Len(u) - Cap + 1 ELSE 1
  <2>5. from = Len(u) - Len(c) + 1 /\ from \in 1..Len(u) + 1
    <3>1. Len(c) = IF Len(u) > Cap THEN Cap ELSE Len(u) BY <2>3 DEF Recent
    <3>. QED BY <2>4, <3>1
  <2>. HIDE DEF from
  <2>6. KeysOneshot(c) = SubSeq(u, from, Len(u))
    <3>1. PICK ks, t : ks = KeysOneshot(c) /\ t = SubSeq(u, from, Len(u)) OBVIOUS
    <3>2. ks \in Seq(Keys) BY <2>4, <3>1, KeysOneshotType
    <3>3. DOMAIN ks = 1..Len(c) /\ \A i \in 1..Len(c) : ks[i] = c[i].key
      BY <2>4, <3>1 DEF KeysOneshot
    <3>4. Len(ks) = Len(c) BY <2>4, <3>2, <3>3
    <3>5. /\ t \in Seq(Keys) /\ Len(t) = Len(c)
          /\ \A i \in 1..Len(c) : t[i] = u[from + i - 1]
      BY <2>4, <2>5, <3>1
    <3>6. ASSUME NEW i \in 1..Len(c) PROVE ks[i] = t[i]
      <4>1. from + i - 1 = Len(u) - Len(c) + i BY <2>4, <2>5
      <4>2. c[i].key = u[Len(u) - Len(c) + i] BY <2>3 DEF Recent
      <4>. QED BY <3>3, <3>5, <4>1, <4>2
    <3>7. ks = t BY <3>2, <3>4, <3>5, <3>6, SeqEqual
    <3>. QED BY <3>1, <3>7
  <2>7. HoldsMostRecent BY <2>2, <2>6 DEF HoldsMostRecent, from
  <2>8. EntriesAreCurrent BY <2>2, <2>3 DEF Current, EntriesAreCurrent
  <2>. QED BY <2>7, <2>8 DEF MatchesHistory
<1>. QED BY <1>1, <1>2, <1>3, PTL DEF HistorySpec

=============================================================================

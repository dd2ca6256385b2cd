---------------------------- MODULE LRUOpsProofs ----------------------------
(***************************************************************************)
(* What the operations of a cache do to its entries, for every capacity    *)
(* and any keys and values.  A cache holds every key at most once; HasKey, *)
(* IsDirty and ValueOf then say what the one entry of a key says, wherever *)
(* it is, so that it is enough to know which entries an operation keeps.   *)
(***************************************************************************)
EXTENDS LRUOps, SequenceTheorems, TLAPS

(* No key has two entries: the unordered_map has one cell for each. *)
Distinct(c) == \A i, j \in DOMAIN c : c[i].key = c[j].key => i = j

(* The cell a key leads to *)
LEMMA AtIsIndex ==
  ASSUME NEW c, NEW k, HasKey(c, k)
  PROVE  At(c, k) \in DOMAIN c /\ c[At(c, k)].key = k
BY DEF HasKey, At

(* With distinct keys an entry is the one its key leads to. *)
LEMMA EntryOfKey ==
  ASSUME NEW c, Distinct(c), NEW i \in DOMAIN c
  PROVE  /\ HasKey(c, c[i].key)
         /\ At(c, c[i].key) = i
         /\ ValueOf(c, c[i].key) = c[i].val
         /\ IsDirty(c, c[i].key) <=> c[i].dirty
<1>1. HasKey(c, c[i].key)
  BY DEF HasKey
<1>2. At(c, c[i].key) = i
  BY <1>1, AtIsIndex DEF Distinct
<1> QED
  BY <1>1, <1>2 DEF ValueOf, IsDirty

(* deleteKey() moves the entries behind the deleted one up by a cell. *)
LEMMA RemoveCells ==
  ASSUME NEW S, NEW c \in Seq(S), NEW a \in 1..Len(c)
  PROVE  /\ RemoveAt(c, a) \in Seq(S)
         /\ Len(RemoveAt(c, a)) = Len(c) - 1
         /\ \A j \in 1..Len(c) - 1 :
              RemoveAt(c, a)[j] = IF j < a THEN c[j] ELSE c[j + 1]
<1> DEFINE s == SubSeq(c, 1, a - 1)
           t == SubSeq(c, a + 1, Len(c))
<1>1. s \in Seq(S) /\ Len(s) = a - 1 /\ \A j \in 1..a - 1 : s[j] = c[j]
  OBVIOUS
<1>2. t \in Seq(S) /\ Len(t) = Len(c) - a /\ \A j \in 1..Len(c) - a : t[j] = c[a + j]
  OBVIOUS
<1>3. RemoveAt(c, a) = s \o t
  BY DEF RemoveAt
<1> HIDE DEF s, t
<1>4. /\ s \o t \in Seq(S)
      /\ Len(s \o t) = Len(s) + Len(t)
      /\ \A j \in 1..Len(s) + Len(t) : (s \o t)[j] = IF j <= Len(s) THEN s[j] ELSE t[j - Len(s)]
  BY <1>1, <1>2, ConcatProperties
<1>5. ASSUME NEW j \in 1..Len(c) - 1
      PROVE  (s \o t)[j] = IF j < a THEN c[j] ELSE c[j + 1]
  <2>1. Len(c) \in Nat /\ j \in 1..Len(s) + Len(t)
    BY <1>1, <1>2
  <2>2. CASE j < a
    BY <1>1, <1>4, <2>1, <2>2
  <2>3. CASE ~(j < a)
    <3>1. j - (a - 1) \in 1..Len(c) - a /\ a + (j - (a - 1)) = j + 1 /\ ~(j <= Len(s))
      BY <1>1, <2>1, <2>3
    <3>2. (s \o t)[j] = t[j - (a - 1)]
      BY <1>1, <1>2, <1>4, <2>1, <3>1
    <3> QED
      BY <1>2, <2>3, <3>1, <3>2
  <2> QED
    BY <2>2, <2>3
<1> QED
  BY <1>3, <1>1, <1>2, <1>4, <1>5

(* makeRecently() moves one entry to the end. *)
LEMMA MoveToEnd ==
  ASSUME NEW S, NEW c \in Seq(S), NEW a \in 1..Len(c), Distinct(c)
  PROVE  /\ Append(RemoveAt(c, a), c[a]) \in Seq(S)
         /\ Len(Append(RemoveAt(c, a), c[a])) = Len(c)
         /\ Distinct(Append(RemoveAt(c, a), c[a]))
         /\ \A i \in DOMAIN c : \E j \in DOMAIN Append(RemoveAt(c, a), c[a]) :
              Append(RemoveAt(c, a), c[a])[j] = c[i]
         /\ \A j \in DOMAIN Append(RemoveAt(c, a), c[a]) : \E i \in DOMAIN c :
              Append(RemoveAt(c, a), c[a])[j] = c[i]
<1> DEFINE n == Len(c)
           w == RemoveAt(c, a)
           old(j) == IF j = n THEN a ELSE IF j < a THEN j ELSE j + 1
           m == Append(w, c[a])
<1>1. n \in Nat /\ a \in Nat /\ 1 <= a /\ a <= n /\ DOMAIN c = 1..n /\ c[a] \in S
  OBVIOUS
<1>0. /\ w \in Seq(S) /\ Len(w) = n - 1
      /\ \A j \in 1..n - 1 : w[j] = IF j < a THEN c[j] ELSE c[j + 1]
  BY RemoveCells
<1> HIDE DEF w, n
<1>2. /\ m \in Seq(S) /\ Len(m) = n /\ DOMAIN m = 1..n /\ m[n] = c[a]
      /\ \A j \in 1..n - 1 : m[j] = w[j]
  BY <1>0, <1>1, AppendProperties
<1> HIDE DEF m
<1>3. \A j \in 1..n : old(j) \in 1..n /\ m[j] = c[old(j)]
  <2> SUFFICES ASSUME NEW j \in 1..n PROVE old(j) \in 1..n /\ m[j] = c[old(j)]
    OBVIOUS
  <2>1. CASE j = n
    BY <1>1, <1>2, <2>1
  <2>2. CASE j # n
    <3>1. j \in 1..n - 1 /\ m[j] = w[j]
      BY <1>1, <1>2, <2>2
    <3> QED
      BY <1>1, <1>0, <2>2, <3>1
  <2> QED
    BY <2>1, <2>2
<1>4. \A i, j \in 1..n : old(i) = old(j) => i = j
  BY <1>1
<1>5. \A i \in 1..n : \E j \in 1..n : old(j) = i
  <2> SUFFICES ASSUME NEW i \in 1..n PROVE \E j \in 1..n : old(j) = i
    OBVIOUS
  <2>1. CASE i < a
    <3>1. old(i) = i
      BY <1>1, <2>1
    <3> QED
      BY <3>1
  <2>2. CASE i = a
    <3>1. old(n) = i /\ n \in 1..n
      BY <1>1, <2>2
    <3> QED
      BY <3>1
  <2>3. CASE i > a
    <3>1. old(i - 1) = i /\ i - 1 \in 1..n
      BY <1>1, <2>3
    <3> QED
      BY <3>1
  <2> QED
    BY <2>1, <2>2, <2>3
<1> HIDE DEF old
<1>6. ASSUME NEW i \in 1..n, NEW j \in 1..n, m[i].key = m[j].key
      PROVE  i = j
  <2>1. c[old(i)].key = c[old(j)].key /\ old(i) \in DOMAIN c /\ old(j) \in DOMAIN c
    BY <1>1, <1>3, <1>6
  <2>2. old(i) = old(j)
    BY <2>1 DEF Distinct
  <2> QED
    BY <1>4, <2>2
<1>7. ASSUME NEW i \in 1..n
      PROVE  \E j \in 1..n : m[j] = c[i]
  <2>1. PICK j \in 1..n : old(j) = i
    BY <1>5
  <2> QED
    BY <1>3, <2>1
<1> QED
  <2>1. Distinct(m)
    BY <1>2, <1>6 DEF Distinct
  <2>2. \A i \in DOMAIN c : \E j \in DOMAIN m : m[j] = c[i]
    BY <1>1, <1>2, <1>7
  <2>3. \A j \in DOMAIN m : \E i \in DOMAIN c : m[j] = c[i]
    BY <1>1, <1>2, <1>3
  <2>4. m \in Seq(S) /\ Len(m) = Len(c)
    BY <1>2 DEF n
  <2> QED
    BY <2>1, <2>2, <2>3, <2>4 DEF m, w

(* makeRecently() keeps all entries, and the keys distinct. *)
LEMMA MakeRecentlyKeeps ==
  ASSUME NEW S, NEW c \in Seq(S), NEW k, HasKey(c, k), Distinct(c)
  PROVE  /\ MakeRecently(c, k) \in Seq(S)
         /\ Len(MakeRecently(c, k)) = Len(c)
         /\ Distinct(MakeRecently(c, k))
         /\ \A i \in DOMAIN c : \E j \in DOMAIN MakeRecently(c, k) :
              MakeRecently(c, k)[j] = c[i]
         /\ \A j \in DOMAIN MakeRecently(c, k) : \E i \in DOMAIN c :
              MakeRecently(c, k)[j] = c[i]
<1>1. PICK a \in 1..Len(c) : a = At(c, k)
  BY AtIsIndex
<1>2. MakeRecently(c, k) = Append(RemoveAt(c, a), c[a])
  BY <1>1 DEF MakeRecently, Without
<1> DEFINE m == Append(RemoveAt(c, a), c[a])
<1>3. /\ m \in Seq(S) /\ Len(m) = Len(c) /\ Distinct(m)
      /\ \A i \in DOMAIN c : \E j \in DOMAIN m : m[j] = c[i]
      /\ \A j \in DOMAIN m : \E i \in DOMAIN c : m[j] = c[i]
  BY MoveToEnd, Zenon
<1> HIDE DEF m
<1> QED
  BY <1>2, <1>3 DEF m

(* Two caches with the same entries tell the same of every key. *)
LEMMA SameEntries ==
  ASSUME NEW c, NEW d, Distinct(c), Distinct(d), NEW k,
         \A i \in DOMAIN c : \E j \in DOMAIN d : d[j] = c[i],
         \A j \in DOMAIN d : \E i \in DOMAIN c : d[j] = c[i]
  PROVE  /\ HasKey(d, k) <=> HasKey(c, k)
         /\ IsDirty(d, k) <=> IsDirty(c, k)
         /\ HasKey(c, k) => ValueOf(d, k) = ValueOf(c, k)
<1>1. HasKey(d, k) <=> HasKey(c, k)
  BY DEF HasKey
<1>2. CASE ~HasKey(c, k)
  BY <1>1, <1>2 DEF IsDirty
<1>3. CASE HasKey(c, k)
  <2>1. PICK i \in DOMAIN c : c[i].key = k
    BY <1>3 DEF HasKey
  <2>2. PICK j \in DOMAIN d : d[j] = c[i]
    BY <2>1
  <2>3. At(c, k) = i /\ ValueOf(c, k) = c[i].val /\ (IsDirty(c, k) <=> c[i].dirty)
    BY <2>1, EntryOfKey
  <2>4. At(d, k) = j /\ ValueOf(d, k) = d[j].val /\ (IsDirty(d, k) <=> d[j].dirty)
    BY <2>1, <2>2, EntryOfKey
  <2> QED
    BY <1>1, <2>2, <2>3, <2>4
<1> QED
  BY <1>2, <1>3

(* set_dirty() and set_clean() write one mark and nothing else. *)
LEMMA MarkKeeps ==
  ASSUME NEW Keys, NEW Vals, NEW c \in Seq(Entry(Keys, Vals)), NEW k, NEW d \in BOOLEAN
  PROVE  /\ Mark(c, k, d) \in Seq(Entry(Keys, Vals))
         /\ DOMAIN Mark(c, k, d) = DOMAIN c
         /\ Len(Mark(c, k, d)) = Len(c)
         /\ \A i \in DOMAIN c :
              /\ Mark(c, k, d)[i].key = c[i].key
              /\ Mark(c, k, d)[i].val = c[i].val
              /\ Mark(c, k, d)[i].dirty \in {c[i].dirty, d}
         /\ Distinct(c) => Distinct(Mark(c, k, d))
<1>1. CASE ~HasKey(c, k)
  BY <1>1 DEF Mark
<1>2. CASE HasKey(c, k)
  <2>1. At(c, k) \in DOMAIN c
    BY <1>2, AtIsIndex
  <2>2. Mark(c, k, d) = [c EXCEPT ![At(c, k)].dirty = d]
    BY <1>2 DEF Mark
  <2>3. \A i \in DOMAIN c : c[i] \in Entry(Keys, Vals)
    OBVIOUS
  <2>4. /\ Mark(c, k, d) \in Seq(Entry(Keys, Vals))
        /\ DOMAIN Mark(c, k, d) = DOMAIN c
        /\ Len(Mark(c, k, d)) = Len(c)
    BY <2>1, <2>2, <2>3 DEF Entry
  <2>5. \A i \in DOMAIN c :
              /\ Mark(c, k, d)[i].key = c[i].key
              /\ Mark(c, k, d)[i].val = c[i].val
              /\ Mark(c, k, d)[i].dirty \in {c[i].dirty, d}
    BY <2>1, <2>2, <2>3 DEF Entry
  <2> QED
    BY <2>4, <2>5 DEF Distinct
<1> QED
  BY <1>1, <1>2

(* Before it inserts, set() has room for the entry, has removed the entry  *)
(* of the key, and has kept the others but for the oldest one.             *)
LEMMA MakeRoomKeeps ==
  ASSUME NEW S, NEW c \in Seq(S), NEW k, Distinct(c),
         NEW cap \in Nat \ {0}, Len(c) <= cap
  PROVE  /\ MakeRoom(c, k, cap) \in Seq(S)
         /\ Len(MakeRoom(c, k, cap)) < cap
         /\ Distinct(MakeRoom(c, k, cap))
         /\ ~HasKey(MakeRoom(c, k, cap), k)
         /\ \A j \in DOMAIN MakeRoom(c, k, cap) : \E i \in DOMAIN c :
              MakeRoom(c, k, cap)[j] = c[i]
<1> DEFINE m == MakeRoom(c, k, cap)
           n == Len(c)
<1>1. CASE HasKey(c, k)
  <2> DEFINE a == At(c, k)
             old(j) == IF j < a THEN j ELSE j + 1
  <2>1. n \in Nat \ {0} /\ a \in 1..n /\ DOMAIN c = 1..n /\ c[a].key = k
    BY <1>1, AtIsIndex
  <2>2. m \in Seq(S) /\ Len(m) = n - 1 /\ \A j \in 1..n - 1 : m[j] = c[old(j)]
    BY <1>1, <2>1, RemoveCells DEF MakeRoom, Without
  <2>3. \A j \in 1..n - 1 : old(j) \in 1..n /\ old(j) # a
    BY <2>1
  <2>4. \A i, j \in 1..n - 1 : old(i) = old(j) => i = j
    BY <2>1
  <2>5. DOMAIN m = 1..n - 1 /\ Len(m) < cap
    BY <2>1, <2>2
  <2> HIDE DEF m, a, old
  <2>6. Distinct(m)
    <3> SUFFICES ASSUME NEW i \in 1..n - 1, NEW j \in 1..n - 1, m[i].key = m[j].key
                 PROVE  i = j
      BY <2>5 DEF Distinct
    <3>1. c[old(i)].key = c[old(j)].key /\ old(i) \in DOMAIN c /\ old(j) \in DOMAIN c
      BY <2>1, <2>2, <2>3
    <3>2. old(i) = old(j)
      BY <3>1 DEF Distinct
    <3> QED
      BY <2>4, <3>2
  <2>7. ~HasKey(m, k)
    <3>1. ASSUME NEW j \in 1..n - 1, m[j].key = k
          PROVE  FALSE
      <4>1. /\ c[old(j)].key = c[a].key
            /\ old(j) \in DOMAIN c /\ a \in DOMAIN c /\ old(j) # a
        BY <2>1, <2>2, <2>3, <3>1
      <4> QED
        BY <4>1 DEF Distinct
    <3> QED
      BY <2>5, <3>1 DEF HasKey
  <2>8. \A j \in DOMAIN m : \E i \in DOMAIN c : m[j] = c[i]
    BY <2>1, <2>2, <2>3, <2>5
  <2> QED
    BY <2>2, <2>5, <2>6, <2>7, <2>8 DEF m
<1>2. CASE ~HasKey(c, k) /\ n = cap
  <2>1. m = Tail(c) /\ c # <<>>
    BY <1>2 DEF MakeRoom
  <2>2. /\ m \in Seq(S) /\ Len(m) = n - 1 /\ DOMAIN m = 1..n - 1
        /\ \A j \in 1..n - 1 : j + 1 \in DOMAIN c /\ m[j] = c[j + 1]
    BY <2>1
  <2> HIDE DEF m
  <2>3. \A j \in DOMAIN m : \E i \in DOMAIN c : m[j] = c[i]
    BY <2>2
  <2>4. ~HasKey(m, k)
    BY <1>2, <2>3 DEF HasKey
  <2>5. Distinct(m)
    <3> SUFFICES ASSUME NEW i \in 1..n - 1, NEW j \in 1..n - 1, m[i].key = m[j].key
                 PROVE  i = j
      BY <2>2 DEF Distinct
    <3>1. /\ c[i + 1].key = c[j + 1].key
          /\ i + 1 \in DOMAIN c /\ j + 1 \in DOMAIN c
      BY <2>2
    <3>2. i + 1 = j + 1
      BY <3>1 DEF Distinct
    <3> QED
      BY <3>2
  <2> QED
    BY <1>2, <2>2, <2>3, <2>4, <2>5 DEF m
<1>3. CASE ~HasKey(c, k) /\ n # cap
  BY <1>3 DEF MakeRoom
<1> QED
  BY <1>1, <1>2, <1>3

(* set() keeps the keys distinct and the capacity, and leaves an entry of  *)
(* another key as it was or evicts it.                                     *)
LEMMA SetKeyKeeps ==
  ASSUME NEW Keys, NEW Vals, NEW c \in Seq(Entry(Keys, Vals)), Distinct(c),
         NEW k \in Keys, NEW v \in Vals, NEW cap \in Nat \ {0}, Len(c) <= cap
  PROVE  /\ SetKey(c, k, v, cap) \in Seq(Entry(Keys, Vals))
         /\ Len(SetKey(c, k, v, cap)) <= cap
         /\ Distinct(SetKey(c, k, v, cap))
         /\ \A j \in DOMAIN SetKey(c, k, v, cap) :
              SetKey(c, k, v, cap)[j].key # k =>
                \E i \in DOMAIN c : SetKey(c, k, v, cap)[j] = c[i]
<1> DEFINE m == MakeRoom(c, k, cap)
           s == SetKey(c, k, v, cap)
           n == Len(m)
<1>1. /\ m \in Seq(Entry(Keys, Vals)) /\ n < cap
      /\ Distinct(m) /\ ~HasKey(m, k)
      /\ \A j \in DOMAIN m : \E i \in DOMAIN c : m[j] = c[i]
  BY MakeRoomKeeps
<1>2. NewEntry(k, v) \in Entry(Keys, Vals) /\ NewEntry(k, v).key = k
  BY DEF NewEntry, Entry
<1>3. s = Append(m, NewEntry(k, v))
  BY DEF SetKey
<1> HIDE DEF m, s
<1>4. /\ s \in Seq(Entry(Keys, Vals)) /\ n \in Nat /\ Len(s) = n + 1
      /\ DOMAIN m = 1..n /\ DOMAIN s = 1..n + 1
      /\ \A j \in 1..n : s[j] = m[j]
      /\ s[n + 1] = NewEntry(k, v)
  BY <1>1, <1>2, <1>3
<1>5. \A j \in 1..n : m[j].key # k
  BY <1>1, <1>4 DEF HasKey
<1>6. Distinct(s)
  BY <1>1, <1>2, <1>4, <1>5 DEF Distinct
<1>7. \A j \in DOMAIN s : s[j].key # k => \E i \in DOMAIN c : s[j] = c[i]
  BY <1>1, <1>2, <1>4
<1> QED
  BY <1>1, <1>4, <1>6, <1>7 DEF s

(* set_dirty() leaves the keys, the values and the marks of other keys.    *)
LEMMA MarkTells ==
  ASSUME NEW Keys, NEW Vals, NEW c \in Seq(Entry(Keys, Vals)), Distinct(c), NEW k, NEW x
  PROVE  /\ HasKey(Mark(c, k, TRUE), x) <=> HasKey(c, x)
         /\ IsDirty(c, x) => IsDirty(Mark(c, k, TRUE), x)
         /\ HasKey(c, x) => ValueOf(Mark(c, k, TRUE), x) = ValueOf(c, x)
<1> DEFINE m == Mark(c, k, TRUE)
<1>1. /\ DOMAIN m = DOMAIN c /\ Distinct(m)
      /\ \A i \in DOMAIN c : /\ m[i].key = c[i].key /\ m[i].val = c[i].val
                             /\ m[i].dirty \in {c[i].dirty, TRUE}
  <2>1. PICK d \in BOOLEAN : d = TRUE
    OBVIOUS
  <2>2. m = Mark(c, k, d)
    BY <2>1
  <2> HIDE DEF m
  <2>3. /\ DOMAIN m = DOMAIN c
        /\ \A i \in DOMAIN c : /\ m[i].key = c[i].key /\ m[i].val = c[i].val
                               /\ m[i].dirty \in {c[i].dirty, d}
        /\ Distinct(c) => Distinct(m)
    BY <2>2, MarkKeeps
  <2> QED
    BY <2>1, <2>3
<1> HIDE DEF m
<1>2. HasKey(m, x) <=> HasKey(c, x)
  BY <1>1 DEF HasKey
<1>3. CASE ~HasKey(c, x)
  BY <1>2, <1>3 DEF IsDirty, m
<1>4. CASE HasKey(c, x)
  <2>1. PICK i \in DOMAIN c : c[i].key = x
    BY <1>4 DEF HasKey
  <2>2. ValueOf(c, x) = c[i].val /\ (IsDirty(c, x) <=> c[i].dirty)
    BY <2>1, EntryOfKey
  <2>3. ValueOf(m, x) = m[i].val /\ (IsDirty(m, x) <=> m[i].dirty)
    <3>1. i \in DOMAIN m /\ m[i].key = x /\ Distinct(m)
      BY <1>1, <2>1
    <3> QED
      BY <3>1, EntryOfKey
  <2> QED
    BY <1>1, <1>2, <2>2, <2>3 DEF m
<1> QED
  BY <1>3, <1>4

(* set() of k says nothing new of another key, but that it may be evicted. *)
LEMMA SetKeyTells ==
  ASSUME NEW Keys, NEW Vals, NEW c \in Seq(Entry(Keys, Vals)), Distinct(c),
         NEW k \in Keys, NEW v \in Vals, NEW cap \in Nat \ {0}, Len(c) <= cap,
         NEW x, x # k, HasKey(SetKey(c, k, v, cap), x)
  PROVE  /\ HasKey(c, x)
         /\ IsDirty(SetKey(c, k, v, cap), x) <=> IsDirty(c, x)
         /\ ValueOf(SetKey(c, k, v, cap), x) = ValueOf(c, x)
<1> DEFINE s == SetKey(c, k, v, cap)
<1>1. /\ Distinct(s)
      /\ \A j \in DOMAIN s : s[j].key # k => \E i \in DOMAIN c : s[j] = c[i]
  BY SetKeyKeeps
<1> HIDE DEF s
<1>2. PICK j \in DOMAIN s : s[j].key = x
  BY DEF HasKey, s
<1>3. PICK i \in DOMAIN c : s[j] = c[i]
  BY <1>1, <1>2
<1>4. HasKey(c, x) /\ ValueOf(c, x) = c[i].val /\ (IsDirty(c, x) <=> c[i].dirty)
  BY <1>2, <1>3, EntryOfKey
<1>5. ValueOf(s, x) = s[j].val /\ (IsDirty(s, x) <=> s[j].dirty)
  BY <1>1, <1>2, EntryOfKey
<1> QED
  BY <1>3, <1>4, <1>5 DEF s

(* lru_keys_oneshot() lists keys. *)
LEMMA KeysOneshotType ==
  ASSUME NEW Keys, NEW Vals, NEW c \in Seq(Entry(Keys, Vals))
  PROVE  KeysOneshot(c) \in Seq(Keys)
<1>1. \A i \in DOMAIN c : c[i] \in Entry(Keys, Vals)
  OBVIOUS
<1>3. \A e \in Entry(Keys, Vals) : e.key \in Keys
  BY DEF Entry
<1>2. DOMAIN c = 1..Len(c) /\ Len(c) \in Nat
  OBVIOUS
<1> QED
  BY <1>1, <1>2, <1>3, IsASeq DEF KeysOneshot
=============================================================================

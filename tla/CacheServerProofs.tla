--------------------------- MODULE CacheServerProofs ---------------------------
(***************************************************************************)
(* As long as no backup is recovered, the two mutexes are kept, move()     *)
(* reads only what is there, and what it marked stays marked: for any      *)
(* number of workers, move() and update() threads, keys and servers, with  *)
(* the ring rebuilt at any time.  The last section is about EventLoop, the *)
(* loop of the same process, which reads what the master sends.            *)
(***************************************************************************)
EXTENDS CacheServer, EventLoop, LRUOpsProofs, FiniteSetTheorems

(* The labels at which move() is busy with the first key of its list *)
AtKey == {"m_get", "m_hash", "m_connect", "m_send", "m_mark"}

(* Every move() works on lru. *)
LruMoves ==
    /\ state = 0
    /\ \A b \in Background : Mode(b) = "lru" /\ pc[b] \notin {"m_unlock_backup", "m_reset"}

(* At a key the list is not empty. *)
Listed == \A b \in Background : pc[b] \in AtKey => local[b].keys # <<>>

(* A busy worker has a request. *)
HasRequest == \A w \in Workers : pc[w] # "idle" => request[w] \in Requests

(* Each cache has one entry for a key. *)
DistinctKeys == \A t \in Tables : Distinct(table[t])

(* A worker that is about to set a key has seen that it is not dirty, and  *)
(* holds the mutex since.                                                  *)
WritesClean == \A w \in Workers : pc[w] = "write" => ~IsDirty(table[T(w)], K(w))

(* No backup is recovered: the master sends no RECOVER_BACKUP. *)
NoRecovery == "recover_backup" \notin Commands

(* Where the threads are, and what the caches hold *)
Control == LruMoves /\ Listed /\ HasRequest /\ HolderInSection
Data == DistinctKeys /\ WritesClean /\ MoveReadsPresentKey
Inv == TypeOK /\ Control /\ Data

-----------------------------------------------------------------------------
(* The labels of the threads *)
PcOK ==
    /\ pc \in [Threads -> WorkerLabels \cup BackgroundLabels]
    /\ \A w \in Workers : pc[w] \in WorkerLabels
    /\ \A b \in Background : pc[b] \in BackgroundLabels

(* Where a worker and a detached thread may be *)
LEMMA Labels ==
  /\ \A l \in {"idle", "is_dirty", "has_key", "get", "answer", "lock", "check", "write",
               "unlock"} : l \in WorkerLabels
  /\ \A l \in {"idle", "m_state", "m_snapshot", "m_lock", "m_loop", "m_get", "m_hash",
               "m_connect", "m_send", "m_mark", "m_state_again", "m_unlock",
               "m_unlock_backup", "m_reset", "u_socket", "u_connect", "u_snapshot",
               "u_loop"} : l \in BackgroundLabels
BY DEF WorkerLabels, BackgroundLabels, MoveHolds

(* A worker that goes to one of its labels *)
LEMMA WorkerGoto ==
  ASSUME TypeOK, NEW w \in Workers, NEW l, l \in WorkerLabels, Goto(w, l)
  PROVE  PcOK' /\ \A y \in Threads : pc'[y] = IF y = w THEN l ELSE pc[y]
<1>1. PcOK
  BY DEF TypeOK, PcOK
<1> QED
  BY <1>1, CacheAssumption DEF PcOK, Goto, Threads

(* A detached thread that goes to one of its labels *)
LEMMA BackgroundGoto ==
  ASSUME TypeOK, NEW b \in Background, NEW l, l \in BackgroundLabels, Goto(b, l)
  PROVE  PcOK' /\ \A y \in Threads : pc'[y] = IF y = b THEN l ELSE pc[y]
<1>1. PcOK
  BY DEF TypeOK, PcOK
<1> QED
  BY <1>1, CacheAssumption DEF PcOK, Goto, Threads

(* Which thread of which kind is where *)
WorkerAt(w, l) ==
    /\ PcOK'
    /\ \A v \in Workers : pc'[v] = IF v = w THEN l ELSE pc[v]
    /\ \A b \in Background : pc'[b] = pc[b]

BackgroundAt(b, l) ==
    /\ PcOK'
    /\ \A d \in Background : pc'[d] = IF d = b THEN l ELSE pc[d]
    /\ \A w \in Workers : pc'[w] = pc[w]

(* The label a worker goes to is where it then is; nobody else moves. *)
LEMMA WorkerAtLabel ==
  ASSUME TypeOK, NEW w \in Workers,
         NEW l \in {"idle", "is_dirty", "has_key", "get", "answer", "lock", "check", "write",
               "unlock"}, Goto(w, l)
  PROVE  WorkerAt(w, l)
<1>1. l \in WorkerLabels
  BY Labels
<1> QED
  BY <1>1, WorkerGoto, CacheAssumption DEF WorkerAt, Threads

(* So is the label a detached thread goes to. *)
LEMMA BackgroundAtLabel ==
  ASSUME TypeOK, NEW b \in Background,
         NEW l \in {"idle", "m_state", "m_snapshot", "m_lock", "m_loop", "m_get", "m_hash",
               "m_connect", "m_send", "m_mark", "m_state_again", "m_unlock",
               "m_unlock_backup", "m_reset", "u_socket", "u_connect", "u_snapshot",
               "u_loop"}, Goto(b, l)
  PROVE  BackgroundAt(b, l)
<1>1. l \in BackgroundLabels
  BY Labels
<1> QED
  BY <1>1, BackgroundGoto, CacheAssumption DEF BackgroundAt, Threads

-----------------------------------------------------------------------------
(* The caches *)
TableOK ==
    /\ table \in [Tables -> Seq(Entry(Keys, Vals))]
    /\ \A t \in Tables : Len(table[t]) <= Cap
    /\ \A t \in Tables : Distinct(table[t])

(* Cache d tells the same as cache c, of all keys. *)
Tells(c, d) ==
    \A k : /\ HasKey(d, k) <=> HasKey(c, k)
           /\ IsDirty(d, k) <=> IsDirty(c, k)
           /\ HasKey(c, k) => ValueOf(d, k) = ValueOf(c, k)

(* A cache that nothing is done to tells the same. *)
LEMMA TellsItself ==
  ASSUME NEW c
  PROVE  Tells(c, c)
BY DEF Tells

(* A read changes the order of the keys, and nothing else. *)
LEMMA GetKeeps ==
  ASSUME TableOK, NEW t \in Tables, NEW k, GetOrCrash(t, k)
  PROVE  /\ TableOK'
         /\ \A u \in Tables : Tells(table[u], table'[u])
         /\ crashed' \in {crashed, "get"}
<1>1. CASE ~HasKey(table[t], k)
  BY <1>1, TellsItself DEF GetOrCrash, TableOK
<1>2. CASE HasKey(table[t], k)
  <2> DEFINE c == table[t]
             d == MakeRecently(c, k)
  <2>1. table' = [table EXCEPT ![t] = d] /\ crashed' = crashed
    BY <1>2 DEF GetOrCrash
  <2>2. c \in Seq(Entry(Keys, Vals)) /\ Len(c) <= Cap /\ Distinct(c)
    BY DEF TableOK
  <2>3. HasKey(c, k)
    BY <1>2
  <2> HIDE DEF c
  <2>4. /\ d \in Seq(Entry(Keys, Vals)) /\ Len(d) = Len(c) /\ Distinct(d)
        /\ \A i \in DOMAIN c : \E j \in DOMAIN d : d[j] = c[i]
        /\ \A j \in DOMAIN d : \E i \in DOMAIN c : d[j] = c[i]
    BY <2>2, <2>3, MakeRecentlyKeeps
  <2> HIDE DEF d
  <2>5. Tells(c, d)
    BY <2>2, <2>4, SameEntries DEF Tells
  <2>6. table'[t] = d /\ \A u \in Tables \ {t} : table'[u] = table[u]
    BY <2>1 DEF TableOK
  <2>7. TableOK'
    BY <2>1, <2>2, <2>4, <2>6 DEF TableOK
  <2>8. ASSUME NEW u \in Tables PROVE Tells(table[u], table'[u])
    BY <2>5, <2>6, TellsItself DEF c
  <2> QED
    BY <2>1, <2>7, <2>8
<1> QED
  BY <1>1, <1>2

(* What set() does to the cache it is applied to *)
LEMMA SetKeeps ==
  ASSUME TableOK, NEW t \in Tables, NEW k \in Keys, NEW v \in Vals,
         table' = [table EXCEPT ![t] = SetKey(@, k, v, Cap)]
  PROVE  /\ TableOK'
         /\ \A u \in Tables \ {t} : table'[u] = table[u]
         /\ \A x : x # k /\ HasKey(table'[t], x) =>
              /\ HasKey(table[t], x)
              /\ IsDirty(table'[t], x) <=> IsDirty(table[t], x)
              /\ ValueOf(table'[t], x) = ValueOf(table[t], x)
<1> DEFINE c == table[t]
           d == SetKey(c, k, v, Cap)
<1>1. table' = [table EXCEPT ![t] = d]
  OBVIOUS
<1>2. c \in Seq(Entry(Keys, Vals)) /\ Len(c) <= Cap /\ Distinct(c) /\ Cap \in Nat \ {0}
  BY CacheAssumption DEF TableOK
<1> HIDE DEF c
<1>3. d \in Seq(Entry(Keys, Vals)) /\ Len(d) <= Cap /\ Distinct(d)
  BY <1>2, SetKeyKeeps
<1>4. \A x : x # k /\ HasKey(d, x) =>
              /\ HasKey(c, x)
              /\ IsDirty(d, x) <=> IsDirty(c, x)
              /\ ValueOf(d, x) = ValueOf(c, x)
  BY <1>2, SetKeyTells
<1> HIDE DEF d
<1>5. table'[t] = d /\ \A u \in Tables \ {t} : table'[u] = table[u]
  BY <1>1 DEF TableOK
<1>6. TableOK'
  BY <1>1, <1>3, <1>5 DEF TableOK
<1> QED
  BY <1>4, <1>5, <1>6 DEF c

(* Cache d holds what cache c holds, with more keys marked. *)
Marks(c, d) ==
    \A k : /\ HasKey(d, k) <=> HasKey(c, k)
           /\ IsDirty(c, k) => IsDirty(d, k)
           /\ HasKey(c, k) => ValueOf(d, k) = ValueOf(c, k)

(* What move() does to lru when it marks a key *)
LEMMA MarkTable ==
  ASSUME TableOK, NEW k, table' = [table EXCEPT !["lru"] = Mark(@, k, TRUE)]
  PROVE  /\ TableOK'
         /\ table'["lru_backup"] = table["lru_backup"]
         /\ Marks(table["lru"], table'["lru"])
<1> DEFINE c == table["lru"]
           d == Mark(c, k, TRUE)
<1>0. "lru" \in Tables /\ "lru" # "lru_backup" /\ Tables = {"lru", "lru_backup"}
  BY DEF Tables
<1>1. table' = [table EXCEPT !["lru"] = d]
  OBVIOUS
<1>2. c \in Seq(Entry(Keys, Vals)) /\ Len(c) <= Cap /\ Distinct(c)
  BY <1>0 DEF TableOK
<1> HIDE DEF c
<1>3. d \in Seq(Entry(Keys, Vals)) /\ Len(d) = Len(c) /\ Distinct(d)
  <2>1. PICK e \in BOOLEAN : e = TRUE
    OBVIOUS
  <2>2. d = Mark(c, k, e)
    BY <2>1
  <2> HIDE DEF d
  <2> QED
    BY <1>2, <2>2, MarkKeeps
<1>4. Marks(c, d)
  BY <1>2, MarkTells DEF Marks
<1> HIDE DEF d
<1>5. table'["lru"] = d /\ table'["lru_backup"] = table["lru_backup"]
  BY <1>0, <1>1 DEF TableOK
<1>6. TableOK'
  BY <1>0, <1>1, <1>2, <1>3, <1>5 DEF TableOK
<1> QED
  BY <1>4, <1>5, <1>6 DEF c

-----------------------------------------------------------------------------
(* A step after which the caches tell the same, no worker is newly about   *)
(* to write, and no move() newly about to read.                            *)
LEMMA DataFrame ==
  ASSUME Data, TableOK', \A t \in Tables : Tells(table[t], table'[t]),
         \A w \in Workers : pc'[w] = "write" => pc[w] = "write" /\ request'[w] = request[w],
         \A b \in Background : pc'[b] = "m_get" => pc[b] = "m_get" /\ local'[b] = local[b]
  PROVE  Data'
<1>1. DistinctKeys'
  BY DEF TableOK, DistinctKeys
<1>2. ASSUME NEW w \in Workers, pc'[w] = "write"
      PROVE  ~IsDirty(table'[T(w)'], K(w)')
  <2>1. T(w)' = T(w) /\ K(w)' = K(w) /\ T(w) \in Tables
    BY <1>2 DEF T, K, TableOf, Tables
  <2>2. ~IsDirty(table[T(w)], K(w))
    BY <1>2 DEF Data, WritesClean
  <2> QED
    BY <2>1, <2>2 DEF Tells
<1>3. ASSUME NEW b \in Background, pc'[b] = "m_get"
      PROVE  HasKey(table'["lru"], Key(b)')
  <2>1. Key(b)' = Key(b) /\ "lru" \in Tables
    BY <1>3 DEF Key, Tables
  <2>2. HasKey(table["lru"], Key(b))
    BY <1>3 DEF Data, MoveReadsPresentKey
  <2> QED
    BY <2>1, <2>2 DEF Tells
<1> QED
  BY <1>1, <1>2, <1>3 DEF Data, WritesClean, MoveReadsPresentKey

(* The same for a step that touches no cache. *)
LEMMA DataFrameSame ==
  ASSUME Inv, UNCHANGED table,
         \A w \in Workers : pc'[w] = "write" => pc[w] = "write" /\ request'[w] = request[w],
         \A b \in Background : pc'[b] = "m_get" => pc[b] = "m_get" /\ local'[b] = local[b]
  PROVE  Data'
<1>1. TableOK' /\ Data
  BY DEF Inv, TypeOK, Data, DistinctKeys, TableOK
<1>2. \A t \in Tables : Tells(table[t], table'[t])
  BY TellsItself
<1> QED
  BY <1>1, <1>2, DataFrame

(* A worker's step leaves the detached threads alone, and what they do. *)
LEMMA WorkerControl ==
  ASSUME Inv, NEW w \in Workers, NEW l, WorkerAt(w, l), UnchangedByWorkers,
         \A v \in Workers \ {w} : request'[v] = request[v],
         l # "idle" => request'[w] \in Requests,
         HolderInSection'
  PROVE  Control'
<1>1. LruMoves'
  BY DEF Inv, Control, LruMoves, UnchangedByWorkers, WorkerAt, Mode
<1>2. Listed'
  BY DEF Inv, Control, Listed, UnchangedByWorkers, WorkerAt
<1>3. HasRequest'
  BY DEF Inv, Control, HasRequest, WorkerAt
<1> QED
  BY <1>1, <1>2, <1>3 DEF Control

(* The labels between lock() and unlock() *)
SetHolds == {"check", "write", "unlock"}

(* A worker that stays on its side of lock() and unlock() *)
LEMMA WorkerKeepsSection ==
  ASSUME Inv, NEW w \in Workers, NEW l, WorkerAt(w, l), UnchangedByWorkers, UNCHANGED mutex,
         \A v \in Workers \ {w} : request'[v] = request[v],
         \/ pc[w] \notin SetHolds /\ l \notin SetHolds
         \/ pc[w] \in SetHolds /\ l \in SetHolds /\ request'[w] = request[w]
  PROVE  HolderInSection'
<1>1. ASSUME NEW t \in Tables, NEW x \in Threads PROVE InSection(x, t)' <=> InSection(x, t)
  <2>1. CASE x = w
    BY <2>1, CacheAssumption DEF InSection, WorkerAt, SetHolds, T
  <2>2. CASE x # w
    BY <2>2 DEF InSection, WorkerAt, T, Mode, UnchangedByWorkers
  <2> QED
    BY <2>1, <2>2
<1> QED
  BY <1>1 DEF Inv, Control, HolderInSection

(* A detached thread's step leaves the workers alone, and the others. *)
LEMMA BackgroundControl ==
  ASSUME Inv, NEW b \in Background, NEW l, BackgroundAt(b, l), UNCHANGED <<state, request>>,
         l \notin {"m_unlock_backup", "m_reset"}, Mode(b)' = "lru",
         \A d \in Background \ {b} : local'[d] = local[d],
         l \in AtKey => local'[b].keys # <<>>,
         HolderInSection'
  PROVE  Control'
<1>1. LruMoves'
  BY DEF Inv, Control, LruMoves, BackgroundAt, Mode
<1>2. Listed'
  BY DEF Inv, Control, Listed, BackgroundAt
<1>3. HasRequest'
  BY DEF Inv, Control, HasRequest, BackgroundAt
<1> QED
  BY <1>1, <1>2, <1>3 DEF Control

(* A detached thread that stays on its side of lock() and unlock() *)
LEMMA BackgroundKeepsSection ==
  ASSUME Inv, NEW b \in Background, NEW l, BackgroundAt(b, l), UNCHANGED <<mutex, request>>,
         Mode(b)' = "lru",
         \A d \in Background \ {b} : local'[d] = local[d],
         pc[b] \in MoveHolds <=> l \in MoveHolds
  PROVE  HolderInSection'
<1>1. ASSUME NEW t \in Tables, NEW x \in Threads PROVE InSection(x, t)' <=> InSection(x, t)
  <2>1. CASE x = b
    <3>1. Mode(b) = "lru"
      BY DEF Inv, Control, LruMoves
    <3> QED
      BY <2>1, <3>1, CacheAssumption DEF InSection, BackgroundAt
  <2>2. CASE x # b
    BY <2>2 DEF InSection, BackgroundAt, T, Mode
  <2> QED
    BY <2>1, <2>2
<1> QED
  BY <1>1 DEF Inv, Control, HolderInSection

-----------------------------------------------------------------------------
(* The workers' steps keep the invariant. *)
LEMMA DispatchInv ==
  ASSUME Inv, NEW w \in Workers, Dispatch(w)
  PROVE  Inv'
<1>1. PICK op \in Ops, k \in Keys, v \in Vals :
        /\ request' = [request EXCEPT ![w] = [op |-> op, key |-> k, val |-> v]]
        /\ Goto(w, IF op \in {"set_value", "set_backup_value"} THEN "lock" ELSE "is_dirty")
  BY DEF Dispatch
<1>2. PICK l \in {"lock", "is_dirty"} : WorkerAt(w, l)
  BY <1>1, WorkerAtLabel DEF Inv
<1>3. /\ [op |-> op, key |-> k, val |-> v] \in Requests
      /\ request' \in [Workers -> Requests \cup {NoRequest}]
      /\ request'[w] \in Requests /\ \A u \in Workers \ {w} : request'[u] = request[u]
  BY <1>1, CacheAssumption DEF Inv, TypeOK, Requests
<1>4. TypeOK'
  BY <1>2, <1>3 DEF Dispatch, UnchangedByWorkers, Inv, TypeOK, WorkerAt, PcOK
<1>5. HolderInSection'
  BY <1>2, <1>3, WorkerKeepsSection DEF Dispatch, On, SetHolds
<1>6. Control'
  BY <1>2, <1>3, <1>5, WorkerControl DEF Dispatch
<1>7. Data'
  BY <1>2, <1>3, DataFrameSame DEF Dispatch, UnchangedByWorkers, WorkerAt
<1> QED
  BY <1>4, <1>6, <1>7 DEF Inv

(* getValue(): the look at the mark, ... *)
LEMMA GetIsDirtyInv ==
  ASSUME Inv, NEW w \in Workers, GetIsDirty(w)
  PROVE  Inv'
<1>1. PICK l \in {"answer", "has_key"} : WorkerAt(w, l)
  BY WorkerAtLabel DEF GetIsDirty, Inv
<1>2. crashed' \in {"no", "find"}
  BY DEF GetIsDirty, HasKeyCrash
<1>3. TypeOK'
  BY <1>1, <1>2 DEF GetIsDirty, UnchangedByWorkers, Inv, TypeOK, WorkerAt, PcOK
<1>4. request'[w] \in Requests
  BY DEF GetIsDirty, On, Inv, Control, HasRequest
<1>5. HolderInSection'
  BY <1>1, WorkerKeepsSection DEF GetIsDirty, On, SetHolds
<1>6. Control'
  BY <1>1, <1>4, <1>5, WorkerControl DEF GetIsDirty
<1>7. Data'
  BY <1>1, DataFrameSame DEF GetIsDirty, UnchangedByWorkers, WorkerAt
<1> QED
  BY <1>3, <1>6, <1>7 DEF Inv

(* setValue(): whoever finds the mutex free is the one in its section. *)
LEMMA SetLockInv ==
  ASSUME Inv, NEW w \in Workers, SetLock(w)
  PROVE  Inv'
<1>1. WorkerAt(w, "check") /\ T(w) \in Tables
  BY WorkerAtLabel DEF SetLock, Inv, T, TableOf, Tables
<1>2. /\ mutex' \in [Tables -> Threads \cup {Free}]
      /\ mutex'[T(w)] = w /\ mutex[T(w)] = Free
      /\ \A t \in Tables \ {T(w)} : mutex'[t] = mutex[t]
  BY <1>1 DEF SetLock, Inv, TypeOK, Threads
<1>3. TypeOK'
  BY <1>1, <1>2 DEF SetLock, UnchangedByWorkers, Inv, TypeOK, WorkerAt, PcOK
<1>4. request'[w] \in Requests
  BY DEF SetLock, On, Inv, Control, HasRequest
<1>5. ASSUME NEW t \in Tables, NEW x \in Threads PROVE InSection(x, t)' <=> mutex'[t] = x
  <2>1. InSection(x, t) <=> mutex[t] = x
    BY DEF Inv, Control, HolderInSection
  <2>2. T(w)' = T(w) /\ Free \notin Threads
    BY CacheAssumption DEF SetLock, T
  <2>3. CASE x = w
    BY <1>1, <1>2, <2>1, <2>2, <2>3, CacheAssumption DEF InSection, WorkerAt, SetLock, On
  <2>4. CASE x # w
    <3>1. InSection(x, t)' <=> InSection(x, t)
      BY <1>1, <2>4 DEF InSection, WorkerAt, T, Mode, SetLock, UnchangedByWorkers
    <3> QED
      BY <1>2, <2>1, <2>2, <2>4, <3>1
  <2> QED
    BY <2>3, <2>4
<1>6. Control'
  BY <1>1, <1>4, <1>5, WorkerControl DEF SetLock, HolderInSection
<1>7. Data'
  BY <1>1, DataFrameSame DEF SetLock, UnchangedByWorkers, WorkerAt
<1> QED
  BY <1>3, <1>6, <1>7 DEF Inv

(* ... the look for the key, ... *)
LEMMA GetHasKeyInv ==
  ASSUME Inv, NEW w \in Workers, GetHasKey(w)
  PROVE  Inv'
<1>1. PICK l \in {"get", "answer"} : WorkerAt(w, l)
  BY WorkerAtLabel DEF GetHasKey, Inv
<1>2. crashed' \in {"no", "find"}
  BY DEF GetHasKey, HasKeyCrash
<1>3. TypeOK'
  BY <1>1, <1>2 DEF GetHasKey, UnchangedByWorkers, Inv, TypeOK, WorkerAt, PcOK
<1>4. request'[w] \in Requests
  BY DEF GetHasKey, On, Inv, Control, HasRequest
<1>5. HolderInSection'
  BY <1>1, WorkerKeepsSection DEF GetHasKey, On, SetHolds
<1>6. Control'
  BY <1>1, <1>4, <1>5, WorkerControl DEF GetHasKey
<1>7. Data'
  BY <1>1, DataFrameSame DEF GetHasKey, UnchangedByWorkers, WorkerAt
<1> QED
  BY <1>3, <1>6, <1>7 DEF Inv

(* ... the read ... *)
LEMMA GetReadInv ==
  ASSUME Inv, NEW w \in Workers, GetRead(w)
  PROVE  Inv'
<1>1. WorkerAt(w, "answer") /\ T(w) \in Tables
  BY WorkerAtLabel DEF GetRead, Inv, T, TableOf, Tables
<1>2. TableOK' /\ (\A u \in Tables : Tells(table[u], table'[u])) /\ crashed' \in {"no", "get"}
  <2>1. TableOK /\ GetOrCrash(T(w), K(w)) /\ crashed = "no"
    BY DEF GetRead, On, Inv, TypeOK, Data, DistinctKeys, TableOK
  <2> QED
    BY <1>1, <2>1, GetKeeps
<1>3. TypeOK'
  BY <1>1, <1>2 DEF GetRead, UnchangedByWorkers, Inv, TypeOK, WorkerAt, PcOK, TableOK
<1>4. request'[w] \in Requests
  BY DEF GetRead, On, Inv, Control, HasRequest
<1>5. HolderInSection'
  BY <1>1, WorkerKeepsSection DEF GetRead, On, SetHolds
<1>6. Control'
  BY <1>1, <1>4, <1>5, WorkerControl DEF GetRead
<1>7. Data'
  BY <1>1, <1>2, DataFrame DEF GetRead, UnchangedByWorkers, WorkerAt, Inv
<1> QED
  BY <1>3, <1>6, <1>7 DEF Inv

(* ... and the answer *)
LEMMA GetAnswerInv ==
  ASSUME Inv, NEW w \in Workers, GetAnswer(w)
  PROVE  Inv'
<1>1. WorkerAt(w, "idle")
  BY WorkerAtLabel DEF GetAnswer, Done, Inv
<1>2. /\ request' \in [Workers -> Requests \cup {NoRequest}]
      /\ \A v \in Workers \ {w} : request'[v] = request[v]
  BY DEF GetAnswer, Done, Inv, TypeOK
<1>3. TypeOK'
  BY <1>1, <1>2 DEF GetAnswer, UnchangedByWorkers, Inv, TypeOK, WorkerAt, PcOK
<1>5. HolderInSection'
  BY <1>1, <1>2, WorkerKeepsSection DEF GetAnswer, On, SetHolds
<1>6. Control'
  BY <1>1, <1>2, <1>5, WorkerControl DEF GetAnswer
<1>7. Data'
  BY <1>1, <1>2, DataFrameSame DEF GetAnswer, UnchangedByWorkers, WorkerAt
<1> QED
  BY <1>3, <1>6, <1>7 DEF Inv

(* A key that is dirty is not written. *)
LEMMA SetCheckInv ==
  ASSUME Inv, NEW w \in Workers, SetCheck(w)
  PROVE  Inv'
<1>1. PICK l \in {"unlock", "write"} :
        WorkerAt(w, l) /\ (l = "write" => ~IsDirty(table[T(w)], K(w)))
  BY WorkerAtLabel DEF SetCheck, Inv
<1>3. TypeOK'
  BY <1>1 DEF SetCheck, UnchangedByWorkers, Inv, TypeOK, WorkerAt, PcOK
<1>4. request'[w] \in Requests
  BY DEF SetCheck, On, Inv, Control, HasRequest
<1>5. HolderInSection'
  BY <1>1, WorkerKeepsSection DEF SetCheck, On, SetHolds
<1>6. Control'
  BY <1>1, <1>4, <1>5, WorkerControl DEF SetCheck
<1>7. Data'
  BY <1>1 DEF SetCheck, UnchangedByWorkers, WorkerAt, Inv, Data, DistinctKeys, WritesClean,
              MoveReadsPresentKey, T, K, Key
<1> QED
  BY <1>3, <1>6, <1>7 DEF Inv

(* The holder of the mutex writes; nobody else relies on that cache. *)
LEMMA SetWriteInv ==
  ASSUME Inv, NEW w \in Workers, SetWrite(w)
  PROVE  Inv'
<1>1. WorkerAt(w, "unlock") /\ T(w) \in Tables
  BY WorkerAtLabel DEF SetWrite, Inv, T, TableOf, Tables
<1>2. request'[w] \in Requests /\ request[w] \in Requests
  BY DEF SetWrite, On, Inv, Control, HasRequest
<1>3. TableOK' /\ \A u \in Tables \ {T(w)} : table'[u] = table[u]
  <2>1. TableOK
    BY DEF Inv, TypeOK, Data, DistinctKeys, TableOK
  <2>2. K(w) \in Keys /\ request[w].val \in Vals
    BY <1>2 DEF K, Requests
  <2>3. table' = [table EXCEPT ![T(w)] = SetKey(@, K(w), request[w].val, Cap)]
    BY DEF SetWrite
  <2> QED
    BY <1>1, <2>1, <2>2, <2>3, SetKeeps
<1>4. TypeOK'
  BY <1>1, <1>3 DEF SetWrite, UnchangedByWorkers, Inv, TypeOK, WorkerAt, PcOK, TableOK
<1>5. HolderInSection'
  BY <1>1, WorkerKeepsSection DEF SetWrite, On, SetHolds
<1>6. Control'
  BY <1>1, <1>2, <1>5, WorkerControl DEF SetWrite
<1>7. mutex[T(w)] = w /\ w \in Threads
  BY <1>1 DEF Inv, Control, HolderInSection, InSection, SetWrite, On, Threads
<1>8. WritesClean'
  <2> SUFFICES ASSUME NEW v \in Workers, pc'[v] = "write"
               PROVE  ~IsDirty(table'[T(v)'], K(v)')
    BY DEF WritesClean
  <2>1. v # w /\ pc[v] = "write" /\ T(v)' = T(v) /\ K(v)' = K(v) /\ T(v) \in Tables
    BY <1>1 DEF WorkerAt, SetWrite, T, K, TableOf, Tables
  <2>2. mutex[T(v)] = v
    BY <2>1 DEF Inv, Control, HolderInSection, InSection, Threads
  <2>3. table'[T(v)] = table[T(v)]
    BY <1>3, <1>7, <2>1, <2>2
  <2> QED
    BY <2>1, <2>3 DEF Inv, Data, WritesClean
<1>9. MoveReadsPresentKey'
  <2> SUFFICES ASSUME NEW b \in Background, pc'[b] = "m_get"
               PROVE  HasKey(table'["lru"], Key(b)')
    BY DEF MoveReadsPresentKey
  <2>1. pc[b] = "m_get" /\ Key(b)' = Key(b) /\ "lru" \in Tables
    BY <1>1 DEF WorkerAt, SetWrite, UnchangedByWorkers, Key, Tables
  <2>2. mutex["lru"] = b
    BY <2>1 DEF Inv, Control, LruMoves, HolderInSection, InSection, Threads, MoveHolds
  <2>3. table'["lru"] = table["lru"]
    BY <1>3, <1>7, <2>1, <2>2, CacheAssumption
  <2> QED
    BY <2>1, <2>3 DEF Inv, Data, MoveReadsPresentKey
<1> QED
  BY <1>3, <1>4, <1>6, <1>8, <1>9 DEF Inv, Data, DistinctKeys, TableOK

(* The section is left with the mutex. *)
LEMMA SetUnlockInv ==
  ASSUME Inv, NEW w \in Workers, SetUnlock(w)
  PROVE  Inv'
<1>1. WorkerAt(w, "idle") /\ T(w) \in Tables
  BY WorkerAtLabel DEF SetUnlock, Done, Inv, T, TableOf, Tables
<1>2. /\ request' \in [Workers -> Requests \cup {NoRequest}]
      /\ \A v \in Workers \ {w} : request'[v] = request[v]
  BY DEF SetUnlock, Done, Inv, TypeOK
<1>3. /\ mutex' \in [Tables -> Threads \cup {Free}]
      /\ mutex'[T(w)] = Free
      /\ \A t \in Tables \ {T(w)} : mutex'[t] = mutex[t]
  BY <1>1 DEF SetUnlock, Unlock, Inv, TypeOK
<1>4. TypeOK'
  BY <1>1, <1>2, <1>3 DEF SetUnlock, UnchangedByWorkers, Inv, TypeOK, WorkerAt, PcOK
<1>5. ASSUME NEW t \in Tables, NEW x \in Threads PROVE InSection(x, t)' <=> mutex'[t] = x
  <2>1. (InSection(x, t) <=> mutex[t] = x) /\ (InSection(w, T(w)) <=> mutex[T(w)] = w)
    BY <1>1 DEF Inv, Control, HolderInSection, Threads
  <2>2. InSection(w, T(w)) /\ Free \notin Threads
    BY CacheAssumption DEF SetUnlock, On, InSection
  <2>3. CASE x = w
    <3>1. ~InSection(x, t)'
      BY <1>1, <2>3, CacheAssumption DEF InSection, WorkerAt
    <3>2. InSection(w, t) => t = T(w)
      BY CacheAssumption DEF InSection
    <3> QED
      BY <1>3, <2>1, <2>2, <2>3, <3>1, <3>2
  <2>4. CASE x # w
    <3>1. InSection(x, t)' <=> InSection(x, t)
      BY <1>1, <1>2, <2>4 DEF InSection, WorkerAt, T, Mode, UnchangedByWorkers, SetUnlock
    <3> QED
      BY <1>3, <2>1, <2>2, <2>4, <3>1
  <2> QED
    BY <2>3, <2>4
<1>6. Control'
  BY <1>1, <1>2, <1>5, WorkerControl DEF SetUnlock, HolderInSection
<1>7. Data'
  BY <1>1, <1>2, DataFrameSame DEF SetUnlock, UnchangedByWorkers, WorkerAt
<1> QED
  BY <1>4, <1>6, <1>7 DEF Inv

-----------------------------------------------------------------------------
(* The descriptors stay what they are, or one of them changes. *)
LEMMA SetFdType ==
  ASSUME TypeOK, NEW f, NEW s \in {"free", "open", "conn"}, SetFd(f, s)
  PROVE  fds' \in [Fds -> {"free", "open", "conn"}]
BY DEF TypeOK, SetFd

(* The fresh socket is a descriptor of the process, or -1. *)
LEMMA NewCfdType ==
  ASSUME TypeOK, NEW b \in Background, NEW f \in NewFd, local' = [local EXCEPT ![b].cfd = f]
  PROVE  /\ local' \in [Background -> Locals]
         /\ Mode(b)' = Mode(b) /\ local'[b].keys = local[b].keys
         /\ \A d \in Background \ {b} : local'[d] = local[d]
<1>1. f \in Fds \cup {NoFd}
  BY DEF NewFd
<1> QED
  BY <1>1 DEF TypeOK, Locals, Mode

(* The event loop's steps that start no thread change neither caches,      *)
(* mutexes nor threads.                                                    *)
LEMMA LoopFrame ==
  ASSUME Inv, UNCHANGED <<state, pc, local>>, UnchangedByLoop
  PROVE  Control' /\ Data'
BY DEF UnchangedByLoop, Inv, Control, Data, LruMoves, Listed, HasRequest, HolderInSection, InSection,
       DistinctKeys, WritesClean, MoveReadsPresentKey, Mode, Key, T, K

(* updateHash() and the loss of the master *)
LEMMA HashInv ==
  ASSUME Inv, HashDelete \/ HashNew \/ HashAdd \/ MasterCrashed
  PROVE  Inv'
<1> DEFINE Rings == [alive : BOOLEAN, members : SUBSET Servers]
           Loops == [at : {"poll", "new", "add", "no_master"}, todo : SUBSET Servers]
<1>0. ring \in Rings /\ loop \in Loops
  BY DEF Inv, TypeOK
<1>1. CASE HashDelete
  <2>1. ring' \in Rings
    BY <1>0, <1>1 DEF HashDelete
  <2>2. loop' \in Loops
    BY <1>1, CacheAssumption DEF HashDelete
  <2> QED
    BY <1>1, <2>1, <2>2, LoopFrame DEF HashDelete, UnchangedByLoop, Inv, TypeOK
<1>2. CASE HashNew
  <2>1. ring' \in Rings
    BY <1>2 DEF HashNew
  <2>2. loop' \in Loops
    BY <1>0, <1>2 DEF HashNew
  <2> QED
    BY <1>2, <2>1, <2>2, LoopFrame DEF HashNew, UnchangedByLoop, Inv, TypeOK
<1>3. CASE HashAdd
  <2>1. ring' \in Rings
    BY <1>0, <1>3 DEF HashAdd
  <2>2. loop' \in Loops
    BY <1>0, <1>3 DEF HashAdd
  <2> QED
    BY <1>3, <2>1, <2>2, LoopFrame DEF HashAdd, UnchangedByLoop, Inv, TypeOK
<1>4. CASE MasterCrashed
  <2>1. loop' \in Loops
    BY <1>0, <1>4 DEF MasterCrashed
  <2> QED
    BY <1>4, <2>1, LoopFrame DEF MasterCrashed, UnchangedByLoop, Inv, TypeOK
<1> QED
  BY <1>1, <1>2, <1>3, <1>4

(* A connection takes a descriptor. *)
LEMMA AcceptInv ==
  ASSUME Inv, Accept
  PROVE  Inv'
<1>1. fds' \in [Fds -> {"free", "open", "conn"}]
  BY SetFdType DEF Accept, Inv
<1> QED
  BY <1>1, LoopFrame DEF Accept, UnchangedByLoop, Inv, TypeOK

(* The commands that start a thread *)
LEMMA SpawnInv ==
  ASSUME Inv, MoveData \/ UpdateBackup
  PROVE  Inv'
<1>1. PICK b \in Background, l \in {"m_state", "u_socket"} : On(b, "idle") /\ BackgroundAt(b, l)
  BY BackgroundAtLabel DEF MoveData, UpdateBackup, Spawn, Inv
<1>2. UNCHANGED <<state, ring, loop, fds, local, table, mutex, backup_invalid, request, crashed>>
  BY DEF MoveData, UpdateBackup, UnchangedByLoop
<1>3. TypeOK'
  BY <1>1, <1>2 DEF Inv, TypeOK, BackgroundAt, PcOK
<1>4. Mode(b)' = "lru"
  BY <1>2 DEF Inv, Control, LruMoves, Mode
<1>5. HolderInSection'
  BY <1>1, <1>2, <1>4, BackgroundKeepsSection DEF On, MoveHolds
<1>6. Control'
  BY <1>1, <1>2, <1>4, <1>5, BackgroundControl DEF AtKey
<1>7. Data'
  BY <1>1, <1>2, DataFrameSame DEF BackgroundAt
<1> QED
  BY <1>3, <1>6, <1>7 DEF Inv

-----------------------------------------------------------------------------
(* What a detached thread keeps *)
LEMMA LocalIs ==
  ASSUME TypeOK, NEW b \in Background
  PROVE  local[b].mode \in Tables /\ local[b].keys \in Seq(Keys) /\ local[b].cfd \in Fds \cup {NoFd}
BY DEF TypeOK, Locals

(* A new list of keys leaves the rest of what the thread keeps. *)
LEMMA KeysType ==
  ASSUME TypeOK, NEW b \in Background, NEW s \in Seq(Keys), local' = [local EXCEPT ![b].keys = s]
  PROVE  /\ local' \in [Background -> Locals]
         /\ Mode(b)' = Mode(b) /\ local'[b].cfd = local[b].cfd
         /\ \A d \in Background \ {b} : local'[d] = local[d]
<1>1. local \in [Background -> Locals]
  BY DEF TypeOK
<1>2. /\ local' \in [Background -> Locals]
      /\ local'[b].mode = local[b].mode /\ local'[b].cfd = local[b].cfd
      /\ \A d \in Background \ {b} : local'[d] = local[d]
  BY ONLY <1>1, b \in Background, s \in Seq(Keys), local' = [local EXCEPT ![b].keys = s] DEF Locals
<1> QED
  BY <1>2 DEF Mode

(* The list without the key that is dealt with *)
LEMMA NextKeyType ==
  ASSUME TypeOK, NEW b \in Background, local[b].keys # <<>>, NextKey(b)
  PROVE  /\ local' \in [Background -> Locals]
         /\ Mode(b)' = Mode(b) /\ local'[b].cfd = local[b].cfd
         /\ \A d \in Background \ {b} : local'[d] = local[d]
<1>1. Tail(local[b].keys) \in Seq(Keys)
  BY LocalIs
<1> QED
  BY <1>1, KeysType DEF NextKey

(* A detached thread that ends *)
LEMMA EndType ==
  ASSUME TypeOK, NEW b \in Background, End(b)
  PROVE  /\ BackgroundAt(b, "idle")
         /\ local' \in [Background -> Locals]
         /\ Mode(b)' = "lru"
         /\ \A d \in Background \ {b} : local'[d] = local[d]
<1>1. BackgroundAt(b, "idle")
  BY BackgroundAtLabel DEF End
<1>2. NoLocal \in Locals
  BY DEF NoLocal, Locals, Tables
<1> QED
  BY <1>1, <1>2 DEF TypeOK, End, Mode, NoLocal

(* Without a recovery every move() works on lru. *)
LEMMA ModeIsLru ==
  ASSUME Inv, NEW b \in Background
  PROVE  Mode(b) = "lru" /\ local[b].mode = "lru" /\ state = 0
BY DEF Inv, Control, LruMoves, Mode

(* A step of a detached thread that touches no mutex and no cache, and     *)
(* stays on its side of lock() and unlock(). *)
LEMMA BackgroundStep ==
  ASSUME Inv, NEW b \in Background, NEW l, BackgroundAt(b, l),
         UNCHANGED <<table, mutex, state, ring, loop, request, backup_invalid>>,
         l \notin {"m_unlock_backup", "m_reset", "m_get"},
         pc[b] \in MoveHolds <=> l \in MoveHolds,
         l \in AtKey => local'[b].keys # <<>>,
         fds' \in [Fds -> {"free", "open", "conn"}],
         local' \in [Background -> Locals], Mode(b)' = "lru",
         \A d \in Background \ {b} : local'[d] = local[d],
         crashed' \in {"no", "get", "find", "ring", "sigpipe"}
  PROVE  Inv'
<1>1. TypeOK'
  BY DEF Inv, TypeOK, BackgroundAt, PcOK
<1>2. Control'
  BY BackgroundControl, BackgroundKeepsSection
<1>3. Data'
  BY DataFrameSame DEF BackgroundAt
<1> QED
  BY <1>1, <1>2, <1>3 DEF Inv

(* move(): state is 0, ... *)
LEMMA MoveReadStateInv ==
  ASSUME Inv, NEW b \in Background, MoveReadState(b)
  PROVE  Inv'
<1>1. BackgroundAt(b, "m_snapshot") /\ state = 0
  BY BackgroundAtLabel, ModeIsLru DEF MoveReadState, Inv
<1>2. /\ local' \in [Background -> Locals] /\ Mode(b)' = "lru"
      /\ \A d \in Background \ {b} : local'[d] = local[d]
  <2>1. local' = [local EXCEPT ![b].mode = "lru"] /\ "lru" \in Tables
    BY <1>1 DEF MoveReadState, Tables
  <2>2. local \in [Background -> Locals]
    BY DEF Inv, TypeOK
  <2> QED
    BY <2>1, <2>2 DEF Locals, Mode
<1> QED
  BY <1>1, <1>2, BackgroundStep
  DEF MoveReadState, UnchangedByThreads, On, MoveHolds, AtKey, Inv, TypeOK

(* ... the keys are listed before the lock, ... *)
LEMMA MoveSnapshotInv ==
  ASSUME Inv, NEW b \in Background, MoveSnapshot(b)
  PROVE  Inv'
<1>1. BackgroundAt(b, "m_lock")
  BY BackgroundAtLabel DEF MoveSnapshot, Inv
<1>2. KeysOneshot(table[Mode(b)]) \in Seq(Keys)
  <2>1. table[Mode(b)] \in Seq(Entry(Keys, Vals))
    BY LocalIs DEF Inv, TypeOK, Mode
  <2> QED
    BY <2>1, KeysOneshotType
<1>3. /\ local' \in [Background -> Locals] /\ Mode(b)' = "lru"
      /\ \A d \in Background \ {b} : local'[d] = local[d]
  BY <1>2, KeysType, ModeIsLru DEF MoveSnapshot, Inv
<1> QED
  BY <1>1, <1>3, BackgroundStep
  DEF MoveSnapshot, UnchangedByThreads, On, MoveHolds, AtKey, Inv, TypeOK

(* A connect() that fails leaves the loop with the mutex, ... *)
LEMMA MoveConnectInv ==
  ASSUME Inv, NEW b \in Background, MoveConnect(b)
  PROVE  Inv'
<1>1. PICK l \in {"m_send", "m_state_again"} : BackgroundAt(b, l)
  BY BackgroundAtLabel DEF MoveConnect, Inv
<1>2. fds' \in [Fds -> {"free", "open", "conn"}]
  BY SetFdType DEF MoveConnect, Inv, TypeOK
<1>3. local[b].keys # <<>>
  BY DEF MoveConnect, On, Inv, Control, Listed, AtKey
<1> QED
  BY <1>1, <1>2, <1>3, ModeIsLru, BackgroundStep
  DEF MoveConnect, UnchangedByThreads, On, MoveHolds, Inv, TypeOK, Mode

(* ... and so does a send(). *)
LEMMA MoveSendInv ==
  ASSUME Inv, NEW b \in Background, MoveSend(b)
  PROVE  Inv'
<1>1. PICK l \in {"m_mark", "m_state_again"} : BackgroundAt(b, l)
  BY BackgroundAtLabel DEF MoveSend, Inv
<1>2. crashed' \in {"no", "sigpipe"}
  BY DEF MoveSend, On
<1>3. local[b].keys # <<>>
  BY DEF MoveSend, On, Inv, Control, Listed, AtKey
<1> QED
  BY <1>1, <1>2, <1>3, ModeIsLru, BackgroundStep
  DEF MoveSend, UnchangedByThreads, On, MoveHolds, Inv, TypeOK, Mode

(* state is still 0, so that move() unlocks what it locked. *)
LEMMA MoveReadAgainInv ==
  ASSUME Inv, NEW b \in Background, MoveReadAgain(b)
  PROVE  Inv'
<1>1. BackgroundAt(b, "m_unlock")
  BY BackgroundAtLabel, ModeIsLru DEF MoveReadAgain, Inv
<1> QED
  BY <1>1, ModeIsLru, BackgroundStep
  DEF MoveReadAgain, UnchangedByThreads, On, MoveHolds, AtKey, Inv, TypeOK, Mode

(* update(): a socket, ... *)
LEMMA UpdateSocketInv ==
  ASSUME Inv, NEW b \in Background, UpdateSocket(b)
  PROVE  Inv'
<1>1. BackgroundAt(b, "u_connect")
  BY BackgroundAtLabel DEF UpdateSocket, Inv
<1>2. PICK f \in NewFd : SetFd(f, "open") /\ local' = [local EXCEPT ![b].cfd = f]
  BY DEF UpdateSocket
<1>3. fds' \in [Fds -> {"free", "open", "conn"}]
  BY <1>2, SetFdType DEF Inv
<1>4. /\ local' \in [Background -> Locals] /\ Mode(b)' = "lru"
      /\ \A d \in Background \ {b} : local'[d] = local[d]
  BY <1>2, NewCfdType, ModeIsLru DEF Inv
<1> QED
  BY <1>1, <1>3, <1>4, BackgroundStep
  DEF UpdateSocket, UnchangedByThreads, On, MoveHolds, AtKey, Inv, TypeOK

(* ... its connection ... *)
LEMMA UpdateConnectInv ==
  ASSUME Inv, NEW b \in Background, UpdateConnect(b)
  PROVE  Inv'
<1>1. CASE Goto(b, "u_snapshot") /\ SetFd(local[b].cfd, "conn") /\ UNCHANGED local
  <2>1. BackgroundAt(b, "u_snapshot")
    BY <1>1, BackgroundAtLabel DEF Inv
  <2>2. fds' \in [Fds -> {"free", "open", "conn"}]
    BY <1>1, SetFdType DEF Inv
  <2> QED
    BY <1>1, <2>1, <2>2, ModeIsLru, BackgroundStep
    DEF UpdateConnect, UnchangedByThreads, On, MoveHolds, AtKey, Inv, TypeOK, Mode
<1>2. CASE End(b) /\ UNCHANGED fds
  BY <1>2, EndType, BackgroundStep
  DEF UpdateConnect, UnchangedByThreads, On, MoveHolds, AtKey, Inv, TypeOK
<1> QED
  BY <1>1, <1>2 DEF UpdateConnect

(* ... and the list of keys *)
LEMMA UpdateSnapshotInv ==
  ASSUME Inv, NEW b \in Background, UpdateSnapshot(b)
  PROVE  Inv'
<1>1. BackgroundAt(b, "u_loop")
  BY BackgroundAtLabel DEF UpdateSnapshot, Inv
<1>2. KeysOneshot(table["lru"]) \in Seq(Keys)
  <2>1. table["lru"] \in Seq(Entry(Keys, Vals))
    BY DEF Inv, TypeOK, Tables
  <2> QED
    BY <2>1, KeysOneshotType
<1>3. /\ local' \in [Background -> Locals] /\ Mode(b)' = "lru"
      /\ \A d \in Background \ {b} : local'[d] = local[d]
  BY <1>2, KeysType, ModeIsLru DEF UpdateSnapshot, Inv
<1> QED
  BY <1>1, <1>3, BackgroundStep
  DEF UpdateSnapshot, UnchangedByThreads, On, MoveHolds, AtKey, Inv, TypeOK

(* move() enters the section of lru with lru_mutex. *)
LEMMA MoveLockInv ==
  ASSUME Inv, NEW b \in Background, MoveLock(b)
  PROVE  Inv'
<1>1. BackgroundAt(b, "m_loop") /\ Mode(b) = "lru" /\ "lru" \in Tables
  BY BackgroundAtLabel, ModeIsLru DEF MoveLock, Inv, Tables
<1>2. /\ mutex' \in [Tables -> Threads \cup {Free}]
      /\ mutex'["lru"] = b /\ mutex["lru"] = Free
      /\ \A t \in Tables \ {"lru"} : mutex'[t] = mutex[t]
  BY <1>1 DEF MoveLock, Inv, TypeOK, Threads
<1>3. TypeOK'
  BY <1>1, <1>2 DEF MoveLock, UnchangedByThreads, Inv, TypeOK, BackgroundAt, PcOK
<1>4. ASSUME NEW t \in Tables, NEW x \in Threads PROVE InSection(x, t)' <=> mutex'[t] = x
  <2>1. (InSection(x, t) <=> mutex[t] = x) /\ Free \notin Threads
    BY CacheAssumption DEF Inv, Control, HolderInSection
  <2>2. CASE x = b
    <3>1. Mode(b)' = Mode(b) /\ pc'[b] = "m_loop" /\ pc[b] = "m_lock"
      BY <1>1 DEF MoveLock, Mode, BackgroundAt, On
    <3>2. InSection(b, t)' <=> t = "lru"
      BY <1>1, <3>1, CacheAssumption DEF InSection, MoveHolds
    <3>3. ~InSection(b, t)
      BY <3>1, CacheAssumption DEF InSection, MoveHolds
    <3> QED
      BY <1>2, <2>1, <2>2, <3>2, <3>3
  <2>3. CASE x # b
    <3>1. InSection(x, t)' <=> InSection(x, t)
      BY <1>1, <2>3 DEF InSection, BackgroundAt, T, Mode, MoveLock, UnchangedByThreads
    <3> QED
      BY <1>2, <2>1, <2>3, <3>1
  <2> QED
    BY <2>2, <2>3
<1>5. Control'
  BY <1>1, <1>4, BackgroundControl
  DEF MoveLock, UnchangedByThreads, HolderInSection, Mode, AtKey
<1>6. Data'
  BY <1>1, DataFrameSame DEF MoveLock, UnchangedByThreads, BackgroundAt
<1> QED
  BY <1>3, <1>5, <1>6 DEF Inv

(* A key that is found is in lru when get() is called. *)
LEMMA MoveLoopInv ==
  ASSUME Inv, NEW b \in Background, MoveLoop(b)
  PROVE  Inv'
<1> USE DEF MoveLoop
<1>1. pc[b] = "m_loop" /\ UNCHANGED <<table, mutex, state, backup_invalid, ring, loop, request>>
  BY DEF On, UnchangedByThreads
<1>2. CASE local[b].keys = <<>>
  <2>1. BackgroundAt(b, "m_state_again") /\ UNCHANGED <<local, fds, crashed>>
    BY <1>2, BackgroundAtLabel DEF Inv
  <2> QED
    BY <1>1, <2>1, ModeIsLru, BackgroundStep DEF MoveHolds, AtKey, Inv, TypeOK, Mode
<1>3. CASE local[b].keys # <<>>
  <2>1. PICK f \in NewFd, found \in HasKeyResults("lru", Key(b)) :
          /\ SetFd(f, "open") /\ HasKeyCrash("lru")
          /\ IF found
               THEN Goto(b, "m_get") /\ local' = [local EXCEPT ![b].cfd = f]
               ELSE NextKey(b) /\ UNCHANGED pc
    BY <1>3
  <2>2. fds' \in [Fds -> {"free", "open", "conn"}] /\ crashed' \in {"no", "find"}
    BY <2>1, SetFdType DEF Inv, HasKeyCrash
  <2>3. CASE ~found
    <3>1. /\ local' \in [Background -> Locals] /\ Mode(b)' = "lru"
          /\ \A d \in Background \ {b} : local'[d] = local[d]
      BY <1>3, <2>1, <2>3, NextKeyType, ModeIsLru DEF Inv
    <3>2. BackgroundAt(b, "m_loop")
      BY <1>1, <2>1, <2>3 DEF BackgroundAt, PcOK, Inv, TypeOK
    <3> QED
      BY <1>1, <2>2, <3>1, <3>2, BackgroundStep DEF MoveHolds, AtKey
  <2>4. CASE found
    <3>1. BackgroundAt(b, "m_get")
      BY <2>1, <2>4, BackgroundAtLabel DEF Inv
    <3>2. /\ local' \in [Background -> Locals] /\ Mode(b)' = "lru"
          /\ local'[b].keys = local[b].keys
          /\ \A d \in Background \ {b} : local'[d] = local[d]
      BY <2>1, <2>4, NewCfdType, ModeIsLru DEF Inv
    <3>3. TypeOK'
      BY <1>1, <2>2, <3>1, <3>2 DEF Inv, TypeOK, BackgroundAt, PcOK
    <3>4. HolderInSection'
      BY <1>1, <3>1, <3>2, BackgroundKeepsSection DEF MoveHolds
    <3>5. Control'
      BY <1>1, <1>3, <3>1, <3>2, <3>4, BackgroundControl
    <3>6. HasKey(table["lru"], Key(b)) /\ Key(b)' = Key(b)
      BY <2>1, <2>4, <3>2 DEF HasKeyResults, Key
    <3>7. Data'
      BY <1>1, <3>1, <3>2, <3>6 DEF BackgroundAt, Inv, Data, DistinctKeys, WritesClean,
           MoveReadsPresentKey, T, K, Key
    <3> QED
      BY <3>3, <3>5, <3>7 DEF Inv
  <2> QED
    BY <2>3, <2>4
<1> QED
  BY <1>2, <1>3

(* The read moves the key to the end of lru. *)
LEMMA MoveGetInv ==
  ASSUME Inv, NEW b \in Background, MoveGet(b)
  PROVE  Inv'
<1>1. BackgroundAt(b, "m_hash") /\ Mode(b)' = "lru" /\ local[b].keys # <<>>
  BY BackgroundAtLabel, ModeIsLru DEF MoveGet, On, Mode, Inv, Control, Listed, AtKey
<1>2. TableOK' /\ (\A u \in Tables : Tells(table[u], table'[u])) /\ crashed' \in {"no", "get"}
  <2>1. TableOK /\ GetOrCrash("lru", Key(b)) /\ crashed = "no" /\ "lru" \in Tables
    BY DEF MoveGet, On, Inv, TypeOK, Data, DistinctKeys, TableOK, Tables
  <2> QED
    BY <2>1, GetKeeps
<1>3. TypeOK'
  BY <1>1, <1>2 DEF MoveGet, UnchangedByThreads, Inv, TypeOK, BackgroundAt, PcOK, TableOK
<1>4. HolderInSection'
  BY <1>1, BackgroundKeepsSection DEF MoveGet, On, UnchangedByThreads, MoveHolds
<1>5. Control'
  BY <1>1, <1>4, BackgroundControl DEF MoveGet, UnchangedByThreads
<1>6. Data'
  BY <1>1, <1>2, DataFrame DEF MoveGet, UnchangedByThreads, BackgroundAt, Inv
<1> QED
  BY <1>3, <1>5, <1>6 DEF Inv

(* The look-up in the ring, whatever it answers *)
LEMMA MoveHashInv ==
  ASSUME Inv, NEW b \in Background, MoveHash(b)
  PROVE  Inv'
<1>1. /\ pc[b] = "m_hash" /\ local[b].keys # <<>>
      /\ UNCHANGED <<table, mutex, state, backup_invalid, ring, loop, request>>
      /\ crashed' \in {"no", "ring"}
  BY DEF MoveHash, On, UnchangedByThreads, Inv, Control, Listed, AtKey
<1>2. CASE SetFd(local[b].cfd, "free") /\ Goto(b, "m_connect") /\ UNCHANGED local
  <2>1. BackgroundAt(b, "m_connect") /\ fds' \in [Fds -> {"free", "open", "conn"}]
    BY <1>2, BackgroundAtLabel, SetFdType DEF Inv
  <2> QED
    BY <1>1, <1>2, <2>1, ModeIsLru, BackgroundStep DEF MoveHolds, Inv, TypeOK, Mode
<1>3. CASE NextKey(b) /\ Goto(b, "m_loop") /\ UNCHANGED fds
  <2>1. BackgroundAt(b, "m_loop")
    BY <1>3, BackgroundAtLabel DEF Inv
  <2>2. /\ local' \in [Background -> Locals] /\ Mode(b)' = "lru"
        /\ \A d \in Background \ {b} : local'[d] = local[d]
    BY <1>1, <1>3, NextKeyType, ModeIsLru DEF Inv
  <2> QED
    BY <1>1, <1>3, <2>1, <2>2, BackgroundStep DEF MoveHolds, AtKey, Inv, TypeOK
<1> QED
  BY <1>2, <1>3 DEF MoveHash

(* The mark is set in the section; no worker is about to write to lru. *)
LEMMA MoveMarkInv ==
  ASSUME Inv, NEW b \in Background, MoveMark(b)
  PROVE  Inv'
<1>1. BackgroundAt(b, "m_loop") /\ local[b].keys # <<>> /\ "lru" \in Tables
  BY BackgroundAtLabel DEF MoveMark, On, Inv, Control, Listed, AtKey, Tables
<1>2. /\ local' \in [Background -> Locals] /\ Mode(b)' = "lru"
      /\ \A d \in Background \ {b} : local'[d] = local[d]
  BY <1>1, NextKeyType, ModeIsLru DEF MoveMark, Inv
<1>3. /\ TableOK' /\ table'["lru_backup"] = table["lru_backup"]
      /\ Marks(table["lru"], table'["lru"])
  <2>1. TableOK
    BY DEF Inv, TypeOK, Data, DistinctKeys, TableOK
  <2> QED
    BY <2>1, MarkTable DEF MoveMark
<1>4. TypeOK'
  BY <1>1, <1>2, <1>3 DEF MoveMark, UnchangedByThreads, Inv, TypeOK, BackgroundAt, PcOK, TableOK
<1>5. HolderInSection'
  BY <1>1, <1>2, BackgroundKeepsSection DEF MoveMark, On, UnchangedByThreads, MoveHolds
<1>6. Control'
  BY <1>1, <1>2, <1>5, BackgroundControl DEF MoveMark, UnchangedByThreads, AtKey
<1>7. mutex["lru"] = b /\ b \in Threads
  BY <1>1, ModeIsLru DEF Inv, Control, HolderInSection, InSection, MoveMark, On, Threads, MoveHolds
<1>8. WritesClean'
  <2> SUFFICES ASSUME NEW v \in Workers, pc'[v] = "write"
               PROVE  ~IsDirty(table'[T(v)'], K(v)')
    BY DEF WritesClean
  <2>1. pc[v] = "write" /\ T(v)' = T(v) /\ K(v)' = K(v)
    BY <1>1 DEF BackgroundAt, MoveMark, UnchangedByThreads, T, K
  <2>2. T(v) \in Tables
    BY DEF T, TableOf, Tables
  <2>3. mutex[T(v)] = v
    BY <2>1, <2>2 DEF Inv, Control, HolderInSection, InSection, Threads
  <2>4. table'[T(v)] = table[T(v)]
    BY <1>3, <1>7, <2>2, <2>3, CacheAssumption DEF Tables
  <2> QED
    BY <2>1, <2>4 DEF Inv, Data, WritesClean
<1>9. MoveReadsPresentKey'
  <2> SUFFICES ASSUME NEW d \in Background, pc'[d] = "m_get"
               PROVE  HasKey(table'["lru"], Key(d)')
    BY DEF MoveReadsPresentKey
  <2>1. d # b /\ pc[d] = "m_get" /\ Key(d)' = Key(d)
    BY <1>1, <1>2 DEF BackgroundAt, Key
  <2>2. HasKey(table["lru"], Key(d))
    BY <2>1 DEF Inv, Data, MoveReadsPresentKey
  <2> QED
    BY <1>3, <2>1, <2>2 DEF Marks
<1> QED
  BY <1>3, <1>4, <1>6, <1>8, <1>9 DEF Inv, Data, DistinctKeys, TableOK

(* The section is left with lru_mutex. *)
LEMMA MoveUnlockInv ==
  ASSUME Inv, NEW b \in Background, MoveUnlock(b)
  PROVE  Inv'
<1>1. /\ BackgroundAt(b, "idle") /\ Mode(b)' = "lru" /\ local' \in [Background -> Locals]
      /\ \A d \in Background \ {b} : local'[d] = local[d]
  BY EndType DEF MoveUnlock, Inv
<1>2. pc[b] = "m_unlock" /\ Mode(b) = "lru" /\ "lru" \in Tables
  BY ModeIsLru DEF MoveUnlock, On, Tables
<1>3. /\ mutex' \in [Tables -> Threads \cup {Free}]
      /\ mutex'["lru"] = Free
      /\ \A t \in Tables \ {"lru"} : mutex'[t] = mutex[t]
  BY <1>2 DEF MoveUnlock, Unlock, Inv, TypeOK
<1>4. TypeOK'
  BY <1>1, <1>3 DEF MoveUnlock, UnchangedByThreads, Inv, TypeOK, BackgroundAt, PcOK
<1>5. ASSUME NEW t \in Tables, NEW x \in Threads PROVE InSection(x, t)' <=> mutex'[t] = x
  <2>1. (InSection(x, t) <=> mutex[t] = x) /\ (InSection(b, "lru") <=> mutex["lru"] = b)
    BY <1>2 DEF Inv, Control, HolderInSection, Threads
  <2>2. InSection(b, "lru") /\ (InSection(b, t) => t = "lru") /\ Free \notin Threads
    BY <1>2, CacheAssumption DEF InSection, MoveHolds
  <2>3. CASE x = b
    <3>1. ~InSection(x, t)'
      BY <1>1, <2>3, CacheAssumption DEF InSection, BackgroundAt, MoveHolds
    <3> QED
      BY <1>3, <2>1, <2>2, <2>3, <3>1
  <2>4. CASE x # b
    <3>1. InSection(x, t)' <=> InSection(x, t)
      BY <1>1, <2>4 DEF InSection, BackgroundAt, T, Mode, MoveUnlock, UnchangedByThreads
    <3> QED
      BY <1>3, <2>1, <2>2, <2>4, <3>1
  <2> QED
    BY <2>3, <2>4
<1>6. Control'
  BY <1>1, <1>5, BackgroundControl DEF MoveUnlock, UnchangedByThreads, HolderInSection, AtKey
<1>7. Data'
  BY <1>1, DataFrameSame DEF MoveUnlock, UnchangedByThreads, BackgroundAt
<1> QED
  BY <1>4, <1>6, <1>7 DEF Inv

(* update() reads the keys of its list without the mutex. *)
LEMMA UpdateLoopInv ==
  ASSUME Inv, NEW b \in Background, UpdateLoop(b)
  PROVE  Inv'
<1>1. pc[b] = "u_loop" /\ UNCHANGED <<mutex, state, backup_invalid, fds, ring, loop, request>>
  BY DEF UpdateLoop, On, UnchangedByThreads
<1>2. CASE local[b].keys = <<>>
  <2>1. End(b) /\ UNCHANGED <<table, crashed>>
    BY <1>2 DEF UpdateLoop
  <2> QED
    BY <1>1, <2>1, EndType, BackgroundStep DEF MoveHolds, AtKey, Inv, TypeOK
<1>3. CASE local[b].keys # <<>>
  <2>1. /\ local' \in [Background -> Locals] /\ Mode(b)' = "lru"
        /\ \A d \in Background \ {b} : local'[d] = local[d]
    BY <1>3, NextKeyType, ModeIsLru DEF UpdateLoop, Inv
  <2>2. BackgroundAt(b, "u_loop")
    BY <1>1, <1>3 DEF UpdateLoop, BackgroundAt, PcOK, Inv, TypeOK
  <2>3. /\ TableOK' /\ \A u \in Tables : Tells(table[u], table'[u])
        /\ crashed' \in {"no", "get", "sigpipe"}
    <3>1. TableOK /\ crashed = "no" /\ "lru" \in Tables
      BY DEF UpdateLoop, On, Inv, TypeOK, Data, DistinctKeys, TableOK, Tables
    <3>2. CASE GetOrCrash("lru", Key(b))
      BY <3>1, <3>2, GetKeeps
    <3>3. CASE crashed' = "sigpipe" /\ UNCHANGED table
      BY <3>1, <3>3, TellsItself DEF TableOK
    <3> QED
      BY <1>3, <3>2, <3>3 DEF UpdateLoop
  <2>4. TypeOK'
    BY <1>1, <2>1, <2>2, <2>3 DEF Inv, TypeOK, BackgroundAt, PcOK, TableOK
  <2>5. HolderInSection'
    BY <1>1, <2>1, <2>2, BackgroundKeepsSection DEF MoveHolds
  <2>6. Control'
    BY <1>1, <2>1, <2>2, <2>5, BackgroundControl DEF AtKey
  <2>7. Data'
    BY <1>1, <2>1, <2>2, <2>3, DataFrame DEF BackgroundAt, Inv
  <2> QED
    BY <2>4, <2>6, <2>7 DEF Inv
<1> QED
  BY <1>2, <1>3

-----------------------------------------------------------------------------
(* The process starts with empty caches and idle threads. *)
LEMMA InitInv == Init => Inv
<1> SUFFICES ASSUME Init PROVE Inv
  OBVIOUS
<1>1. TypeOK
  <2>1. NoLocal \in Locals
    BY DEF NoLocal, Locals, Tables
  <2>2. Fds = 1..MaxFd /\ <<>> \in Seq(Entry(Keys, Vals)) /\ Len(<<>>) <= Cap
    BY CacheAssumption DEF Fds
  <2>3. "idle" \in WorkerLabels /\ "idle" \in BackgroundLabels
    BY Labels
  <2> QED
    BY <2>1, <2>2, <2>3, CacheAssumption DEF Init, TypeOK, Threads
<1>2. Control
  <2>1. \A x \in Threads : pc[x] = "idle"
    BY DEF Init
  <2>2. LruMoves /\ Listed /\ HasRequest
    BY <2>1 DEF Init, LruMoves, Listed, HasRequest, Mode, NoLocal, AtKey, Threads
  <2>3. HolderInSection
    BY <2>1, CacheAssumption DEF Init, HolderInSection, InSection, MoveHolds
  <2> QED
    BY <2>2, <2>3 DEF Control
<1>3. Data
  <2>1. \A t \in Tables : table[t] = <<>>
    BY DEF Init
  <2>2. \A x \in Threads : pc[x] = "idle"
    BY DEF Init
  <2>3. DistinctKeys
    BY <2>1 DEF DistinctKeys, Distinct
  <2> QED
    BY <2>2, <2>3 DEF Data, WritesClean, MoveReadsPresentKey, Threads
<1> QED
  BY <1>1, <1>2, <1>3 DEF Inv

(* Every step of the server without a recovery keeps the invariant. *)
LEMMA NextInv ==
  ASSUME NoRecovery, Inv, [Next]_vars
  PROVE  Inv'
<1>1. ASSUME NEW w \in Workers, Dispatch(w) \/ Worker(w)
      PROVE  Inv'
  BY <1>1, DispatchInv, GetIsDirtyInv, GetHasKeyInv, GetReadInv, GetAnswerInv,
     SetLockInv, SetCheckInv, SetWriteInv, SetUnlockInv DEF Worker
<1>2. CASE EventLoop
  <2>1. ~RecoverBackup
    BY DEF RecoverBackup, Spawn, NoRecovery
  <2> QED
    BY <1>2, <2>1, SpawnInv, HashInv, AcceptInv DEF EventLoop
<1>3. ASSUME NEW b \in Background, Move(b)
      PROVE  Inv'
  <2>1. ~MoveUnlockBackup(b) /\ ~MoveReset(b)
    BY DEF MoveUnlockBackup, MoveReset, On, Inv, Control, LruMoves
  <2> QED
    BY <1>3, <2>1, MoveReadStateInv, MoveSnapshotInv, MoveLockInv, MoveLoopInv, MoveGetInv,
       MoveHashInv, MoveConnectInv, MoveSendInv, MoveMarkInv, MoveReadAgainInv, MoveUnlockInv
    DEF Move
<1>4. ASSUME NEW b \in Background, Update(b)
      PROVE  Inv'
  BY <1>4, UpdateSocketInv, UpdateConnectInv, UpdateSnapshotInv, UpdateLoopInv DEF Update
<1>5. CASE UNCHANGED vars
  BY <1>5 DEF vars, Inv, TypeOK, Control, Data, LruMoves, Listed, HasRequest, HolderInSection,
     InSection, DistinctKeys, WritesClean, MoveReadsPresentKey, Mode, Key, T, K
<1> QED
  BY <1>1, <1>2, <1>3, <1>4, <1>5 DEF Next

(* The invariant holds in every state. *)
LEMMA InvHolds ==
  ASSUME NoRecovery
  PROVE  Spec => []Inv
BY InitInv, NextInv, PTL DEF Spec, NoRecovery

(* LockDiscipline: with no recovery, lru_mutex and lru_backup_mutex are    *)
(* held by exactly the thread between lock() and unlock(), on every path   *)
(* out of setValue(), setBackupValue() and move().                         *)
THEOREM MutexesAreKept ==
  ASSUME NoRecovery
  PROVE  Spec => []LockDiscipline
<1>1. Inv => LockDiscipline
  BY DEF Inv, Control, LockDiscipline
<1> QED
  BY <1>1, InvHolds, PTL

(* MoveExcludesSet (cache_service.h:52): no set of lru runs while a move() *)
(* is going on.                                                            *)
THEOREM MoveExcludesEverySet ==
  ASSUME NoRecovery
  PROVE  Spec => []MoveExcludesSet
<1>1. ASSUME Inv, NEW w \in Workers, NEW b \in Background
      PROVE  ~(InSection(w, "lru") /\ InSection(b, "lru"))
  <2>1. w \in Threads /\ b \in Threads /\ w # b /\ "lru" \in Tables
    BY CacheAssumption DEF Threads, Tables
  <2> QED
    BY <1>1, <2>1 DEF Inv, Control, HolderInSection
<1>2. Inv => MoveExcludesSet
  BY <1>1 DEF MoveExcludesSet
<1> QED
  BY <1>2, InvHolds, PTL

(* MoveReadsPresentKey: lru.get() in move() is applied to a key that is in *)
(* lru, because lru_mutex keeps every set() out since the hasKey().        *)
THEOREM MoveReadsWhatIsThere ==
  ASSUME NoRecovery
  PROVE  Spec => []MoveReadsPresentKey
<1>1. Inv => MoveReadsPresentKey
  BY DEF Inv, Data
<1> QED
  BY <1>1, InvHolds, PTL

(* What a step may do to the marked keys of lru *)
DirtyKept ==
    \A k \in Keys :
      IsDirty(table["lru"], k) /\ HasKey(table'["lru"], k) =>
          /\ IsDirty(table'["lru"], k)
          /\ ValueOf(table'["lru"], k) = ValueOf(table["lru"], k)

(* What a read leaves: all marks and values *)
LEMMA TellsDirty ==
  ASSUME Tells(table["lru"], table'["lru"])
  PROVE  DirtyKept
BY DEF Tells, DirtyKept, IsDirty

(* What a step leaves that touches no cache *)
LEMMA SameDirty ==
  ASSUME UNCHANGED table
  PROVE  DirtyKept
BY DEF DirtyKept

(* A set writes a key that is not dirty, and evicts, but marks nothing clean. *)
LEMMA SetWriteDirty ==
  ASSUME Inv, NEW w \in Workers, SetWrite(w)
  PROVE  DirtyKept
<1>1. pc[w] = "write" /\ request[w] \in Requests /\ T(w) \in Tables
  BY DEF SetWrite, On, Inv, Control, HasRequest, T, TableOf, Tables
<1>2. K(w) \in Keys /\ request[w].val \in Vals /\ TableOK
  BY <1>1 DEF K, Requests, Inv, TypeOK, Data, DistinctKeys, TableOK
<1>3. /\ \A u \in Tables \ {T(w)} : table'[u] = table[u]
      /\ \A x : x # K(w) /\ HasKey(table'[T(w)], x) =>
           /\ HasKey(table[T(w)], x)
           /\ IsDirty(table'[T(w)], x) <=> IsDirty(table[T(w)], x)
           /\ ValueOf(table'[T(w)], x) = ValueOf(table[T(w)], x)
  <2>1. table' = [table EXCEPT ![T(w)] = SetKey(@, K(w), request[w].val, Cap)]
    BY DEF SetWrite
  <2> QED
    BY <1>1, <1>2, <2>1, SetKeeps
<1>4. CASE T(w) # "lru"
  BY <1>3, <1>4 DEF Tables, DirtyKept
<1>5. CASE T(w) = "lru"
  <2>1. ~IsDirty(table["lru"], K(w))
    BY <1>1, <1>5 DEF Inv, Data, WritesClean
  <2> QED
    BY <1>3, <1>5, <2>1 DEF DirtyKept
<1> QED
  BY <1>4, <1>5

(* A step that reads leaves every cache as it is, but for the order. *)
LEMMA ReadDirty ==
  ASSUME Inv, NEW t \in Tables, NEW k, GetOrCrash(t, k)
  PROVE  DirtyKept
<1>1. TableOK /\ "lru" \in Tables
  BY DEF Inv, TypeOK, Data, DistinctKeys, TableOK, Tables
<1> QED
  BY <1>1, GetKeeps, TellsDirty

(* A mark of one key leaves those of the others. *)
LEMMA MarkDirty ==
  ASSUME Inv, NEW b \in Background, MoveMark(b)
  PROVE  DirtyKept
<1>1. TableOK
  BY DEF Inv, TypeOK, Data, DistinctKeys, TableOK
<1>2. Marks(table["lru"], table'["lru"])
  BY <1>1, MarkTable DEF MoveMark
<1> QED
  BY <1>2 DEF Marks, DirtyKept, IsDirty

(* No step clears a mark of lru or changes a marked value. *)
LEMMA StepKeepsDirty ==
  ASSUME Inv, [Next]_vars
  PROVE  DirtyKept
<1>1. ASSUME NEW w \in Workers, Dispatch(w) \/ Worker(w)
      PROVE  DirtyKept
  <2>1. CASE SetWrite(w)
    BY <2>1, SetWriteDirty
  <2>2. CASE GetRead(w)
    <3>1. T(w) \in Tables /\ GetOrCrash(T(w), K(w))
      BY <2>2 DEF GetRead, T, TableOf, Tables
    <3> QED
      BY <3>1, ReadDirty
  <2>3. CASE UNCHANGED table
    BY <2>3, SameDirty
  <2> QED
    BY <1>1, <2>1, <2>2, <2>3 DEF Worker, Dispatch, GetIsDirty, GetHasKey, GetAnswer, SetLock,
       SetCheck, SetUnlock
<1>2. CASE EventLoop
  <2>1. UNCHANGED table
    BY <1>2 DEF EventLoop, MoveData, RecoverBackup, UpdateBackup, HashDelete, HashNew, HashAdd,
       MasterCrashed, Accept, UnchangedByLoop
  <2> QED
    BY <2>1, SameDirty
<1>3. ASSUME NEW b \in Background, Move(b) \/ Update(b)
      PROVE  DirtyKept
  <2>1. CASE MoveMark(b)
    BY <2>1, MarkDirty
  <2>2. CASE GetOrCrash("lru", Key(b))
    BY <2>2, ReadDirty DEF Tables
  <2>3. CASE UNCHANGED table
    BY <2>3, SameDirty
  <2> QED
    BY <1>3, <2>1, <2>2, <2>3 DEF Move, Update, MoveReadState, MoveSnapshot, MoveLock, MoveLoop,
       MoveGet, MoveHash, MoveConnect, MoveSend, MoveReadAgain, MoveUnlock, MoveUnlockBackup,
       MoveReset, UpdateSocket, UpdateConnect, UpdateSnapshot, UpdateLoop
<1>4. CASE UNCHANGED vars
  BY <1>4, SameDirty DEF vars
<1> QED
  BY <1>1, <1>2, <1>3, <1>4 DEF Next

(* DirtyNotRevived: a key that move() has sent away and marked keeps its   *)
(* mark and its value until it is evicted: setValue() looks at the mark    *)
(* and writes under the mutex that move() marks under.                     *)
THEOREM MarksAreKept ==
  ASSUME NoRecovery
  PROVE  Spec => DirtyNotRevived
<1>1. Inv /\ [Next]_vars => [DirtyKept]_vars
  BY StepKeepsDirty
<1> QED
  BY <1>1, InvHolds, PTL DEF Spec, DirtyNotRevived, DirtyKept

-----------------------------------------------------------------------------
(***************************************************************************)
(* The event loop that feeds these threads (EventLoop): its safety for     *)
(* every number of connections, commands and descriptors and every         *)
(* backlog.                                                                *)
(***************************************************************************)
(* Neither property is inductive: that a handler finds what epoll_wait()   *)
(* announced needs that a round has at most one event of a descriptor and  *)
(* that nobody but its handler takes from the backlog, and that nothing    *)
(* remains unread needs that the master's descriptor is in the epoll set   *)
(* before the loop begins.                                                 *)
PollInv ==
    /\ LoopTypeOK
    /\ NothingUnread
    /\ loop_pc = "listen" => "master_sockfd" \in epfd
    /\ loop_pc # "loop" => evs = <<>>
    /\ \A i, j \in DOMAIN evs : evs[i] = evs[j] => i = j
    /\ \A i \in DOMAIN evs : evs[i] = "lfd" => backlog > 0

(* A round takes every ready descriptor once. *)
LEMMA RoundOfReady ==
  ASSUME NEW S \in SUBSET {"master_sockfd", "lfd"}, NEW s \in SetToSeqs(S)
  PROVE  /\ s \in Seq(S)
         /\ \A i, j \in DOMAIN s : s[i] = s[j] => i = j
<1>1. IsFiniteSet({"master_sockfd", "lfd"})
  <2>1. IsFiniteSet({"master_sockfd"})
    BY FS_Singleton
  <2>2. IsFiniteSet({"master_sockfd"} \cup {"lfd"})
    BY <2>1, FS_AddElement
  <2>3. {"master_sockfd"} \cup {"lfd"} = {"master_sockfd", "lfd"}
    OBVIOUS
  <2> QED
    BY <2>2, <2>3
<1>2. Cardinality(S) \in Nat
  BY <1>1, FS_Subset, FS_CardinalityType
<1>3. s \in [1..Cardinality(S) -> S]
  BY DEF SetToSeqs
<1>4. \A i, j \in 1..Cardinality(S) : i # j => s[i] # s[j]
  BY DEF SetToSeqs
<1> QED
  BY <1>2, <1>3, <1>4

(* What is left of a round after its first event *)
LEMMA RestOfRound ==
  ASSUME NEW S, NEW s \in Seq(S), s # <<>>,
         \A i, j \in DOMAIN s : s[i] = s[j] => i = j
  PROVE  /\ Tail(s) \in Seq(S)
         /\ \A i, j \in DOMAIN Tail(s) : Tail(s)[i] = Tail(s)[j] => i = j
         /\ \A i \in DOMAIN Tail(s) : \E j \in DOMAIN s : Tail(s)[i] = s[j]
         /\ \A i \in DOMAIN Tail(s) : Tail(s)[i] # s[1]
OBVIOUS

(* Before the server has connected nothing is polled and nothing pending. *)
LEMMA PollInit == LoopInit => PollInv
<1> SUFFICES ASSUME LoopInit PROVE PollInv
  OBVIOUS
<1> USE DEF LoopInit
<1>1. evs = <<>> /\ evs \in Seq(epfd)
  OBVIOUS
<1>2. reset \in BOOLEAN
  BY Zenon
<1>3. LoopTypeOK /\ NothingUnread
  BY <1>1, <1>2, EventLoopAssumption DEF LoopTypeOK, NothingUnread
<1>4. DOMAIN evs = {}
  BY <1>1
<1> QED
  BY <1>1, <1>3, <1>4 DEF PollInv

(* Each handler, and each act of master and clients, preserves it. *)
LEMMA PollNext == PollInv /\ [LoopNext]_loop_vars => PollInv'
<1> SUFFICES ASSUME PollInv, [LoopNext]_loop_vars PROVE PollInv'
  OBVIOUS
<1> USE EventLoopAssumption DEF PollInv, LoopTypeOK, NothingUnread, outside
<1>0. \A S : <<>> \in Seq(S)
  OBVIOUS
<1>1. CASE connToMaster
  BY <1>0, <1>1 DEF connToMaster
<1>2. CASE startListen
  BY <1>0, <1>2 DEF startListen
<1>3. CASE epoll_wait
  <2>1. evs' \in SetToSeqs(ready) /\ ready \in SUBSET {"master_sockfd", "lfd"}
    BY <1>3 DEF epoll_wait, ready
  <2>2. /\ evs' \in Seq(ready)
        /\ \A i, j \in DOMAIN evs' : evs'[i] = evs'[j] => i = j
    BY <2>1, RoundOfReady
  <2>3. \A i \in DOMAIN evs' : evs'[i] \in epfd /\ (evs'[i] = "lfd" => backlog > 0)
    BY <2>2 DEF ready
  <2>4. evs' \in Seq(epfd)
    BY <2>2 DEF ready
  <2> QED
    BY <1>3, <2>2, <2>3, <2>4 DEF epoll_wait
<1>4. CASE dealwithMasterMsg
  <2>1. evs # <<>> /\ loop_pc = "loop"
    BY <1>4 DEF dealwithMasterMsg, MasterMsg, Handling
  <2>2. /\ UNCHANGED <<outside, loop_pc, backlog, connectedMap>> /\ reset' \in BOOLEAN
        /\ \/ /\ inbox' \in 0..inbox - 1 /\ epfd' = epfd
              /\ evs' = Tail(evs) \/ evs' = <<>>
           \/ /\ inbox = 0 /\ inbox' = 0
              /\ epfd' \subseteq epfd /\ evs' = <<>>
    BY <1>4 DEF dealwithMasterMsg, MasterMsg, Continue, Break
  <2>3. CASE evs' = <<>>
    <3>1. DOMAIN evs' = {} /\ evs' \in Seq(epfd')
      BY <1>0, <2>3
    <3>2. epfd' \subseteq epfd /\ inbox' \in 0..inbox /\ inbox \in 0..sent
      BY <2>2
    <3>3. LoopTypeOK'
      BY <2>2, <3>1, <3>2
    <3>4. NothingUnread'
      BY <2>1, <2>2
    <3> QED
      BY <2>1, <2>2, <2>3, <3>1, <3>3, <3>4
  <2>4. CASE evs' = Tail(evs) /\ epfd' = epfd /\ inbox' \in 0..inbox - 1
    <3>0. evs \in Seq(epfd) /\ \A i, j \in DOMAIN evs : evs[i] = evs[j] => i = j
      OBVIOUS
    <3>1. /\ evs' \in Seq(epfd)
          /\ \A i, j \in DOMAIN evs' : evs'[i] = evs'[j] => i = j
          /\ \A i \in DOMAIN evs' : \E j \in DOMAIN evs : evs'[i] = evs[j]
      BY <2>1, <2>4, <3>0, RestOfRound, SMTT(30)
    <3>2. \A i \in DOMAIN evs' : evs'[i] = "lfd" => backlog' > 0
      BY <2>2, <3>1
    <3>3. NothingUnread'
      BY <2>2, <2>4
    <3>4. LoopTypeOK'
      BY <2>2, <2>4, <3>1
    <3> QED
      BY <2>1, <2>2, <2>4, <3>1, <3>2, <3>3, <3>4
  <2> QED
    BY <2>2, <2>3, <2>4
<1>5. CASE dealwithListenMsg
  <2>1. evs # <<>> /\ evs[1] = "lfd" /\ loop_pc = "loop" /\ backlog > 0
    BY <1>5 DEF dealwithListenMsg, Handling
  <2>2. CASE connectedMap < FdLimit
    <3>1. evs' = Tail(evs) /\ connectedMap' = connectedMap + 1 /\ backlog' = backlog - 1
      BY <1>5, <2>2 DEF dealwithListenMsg, Continue
    <3>0. evs \in Seq(epfd) /\ \A i, j \in DOMAIN evs : evs[i] = evs[j] => i = j
      OBVIOUS
    <3>2. /\ evs' \in Seq(epfd)
          /\ \A i, j \in DOMAIN evs' : evs'[i] = evs'[j] => i = j
          /\ \A i \in DOMAIN evs' : evs'[i] # "lfd"
      <4> HIDE DEF PollInv
      <4> QED
        BY <2>1, <3>0, <3>1, RestOfRound, SMTT(30)
    <3> QED
      BY <1>5, <2>1, <2>2, <3>1, <3>2 DEF dealwithListenMsg
  <2>3. CASE ~(connectedMap < FdLimit)
    BY <1>0, <1>5, <2>3 DEF dealwithListenMsg, Break
  <2> QED
    BY <2>2, <2>3
<1>6. CASE MasterSends
  BY <1>6 DEF MasterSends
<1>7. CASE MasterCrashes
  BY <1>7 DEF MasterCrashes
<1>8. CASE ClientConnects
  BY <1>8 DEF ClientConnects
<1>9. CASE UNCHANGED loop_vars
  BY <1>9 DEF loop_vars
<1> QED
  BY <1>1, <1>2, <1>3, <1>4, <1>5, <1>6, <1>7, <1>8, <1>9 DEF LoopNext, Server

(* It holds throughout. *)
LEMMA PollInvariant == LoopSpec => []PollInv
<1>1. LoopInit => PollInv
  BY PollInit
<1>2. PollInv /\ [LoopNext]_loop_vars => PollInv'
  BY PollNext
<1> QED
  BY <1>1, <1>2, PTL DEF LoopSpec

(* dealwithListenMsg() accepts a connection only when there is one: the    *)
(* connections made are those accepted and those in the backlog, and every *)
(* event of a round is of a descriptor that is still polled.               *)
THEOREM LoopTypeCorrect ==
  LoopSpec => []LoopTypeOK
<1>1. PollInv => LoopTypeOK
  BY DEF PollInv
<1>2. LoopSpec => []PollInv
  BY PollInvariant
<1> QED
  BY <1>1, <1>2, PTL

(* dealwithMasterMsg() gives up the master's descriptor only when it has   *)
(* received everything the master sent, also when the master has crashed   *)
(* in the middle of a round.                                               *)
THEOREM MasterIsReadToTheEnd ==
  LoopSpec => []NothingUnread
<1>1. PollInv => NothingUnread
  BY DEF PollInv
<1>2. LoopSpec => []PollInv
  BY PollInvariant
<1> QED
  BY <1>1, <1>2, PTL
=============================================================================

------------------------- MODULE ClusterProofs -------------------------
(* What holds of the control plane for every number of cache servers,      *)
(* workers, connections and keys.  The invariant relates the master's      *)
(* containers to one another and to the step every thread is at; it is     *)
(* inductive where servers come and go one at a time, or none dies, for    *)
(* then no thread works with what another is erasing.                      *)
EXTENDS Cluster, FiniteSetTheorems, SequenceTheorems, TLAPS

-----------------------------------------------------------------------------
(* The invariant                                                           *)

(* The scenarios the properties below are about: servers come and go only  *)
(* when all is at rest, or they only come.                                 *)
Calm == regime.oneAtATime \/ regime.mortal = {}

Requests == [type : {"REGISTER"}, cfd : Fds, addr : Servers]
            \cup [type : {"GETDISTRIBUTE"}, key : Keys]

Fields == {"cfd", "addr", "newAddr", "notity", "ring", "cur", "prev", "next", "prev_fd",
           "next_fd"}

Shape ==
    /\ m_workqueue \in Seq(Requests)
    /\ local = [t \in Threads |-> local[t]]
    /\ \A t \in Threads : DOMAIN local[t] = Fields

(* The master lives, and nothing has been sent to a dead peer. *)
NoCrash ==
    /\ crashed = "no"
    /\ told = [c \in Conns |-> told[c]]
    /\ \A c \in Conns : DOMAIN told[c] = {"ring", "backup", "reset"} /\ ~told[c].reset

(* connectedMap is the inverse of the descriptors accept() has returned. *)
Descriptors ==
    /\ \A c, d \in Conns : fdOf[c] = fdOf[d] /\ fdOf[c] # Absent => c = d
    /\ \A c \in Conns : fdOf[c] # Absent => peer[c] \in {"alive", "dead"}
    /\ \A f \in Fds : connectedMap[f] \in Conns \cup {NoConn}
    /\ \A f \in Fds, c \in Conns : connectedMap[f] = c <=> fdOf[c] = f

(* The other three containers are functions of connectList and the         *)
(* descriptors.                                                            *)
Registry ==
    /\ IsInjective(connectList.list) /\ Range(connectList.list) = connectList.map_
    /\ \A c \in connectList.map_ : c \in Conns /\ fdOf[c] # Absent
    /\ \A c \in Names : registedMap[c] = IF isExisted(c) THEN fdOf[c] ELSE Absent
    /\ \A f \in Fds : listenMap[f] = IF isExisted(connectedMap[f])
                                       THEN Host[connectedMap[f]] ELSE Nobody

IsRegister(i) == m_workqueue[i].type = "REGISTER"
NoRegister == \A i \in DOMAIN m_workqueue : ~IsRegister(i)

(* r, a request or the local variables of a worker, will register c. *)
Waits(c, r) ==
    /\ c \in Conns /\ c \notin unread /\ ~isExisted(c)
    /\ fdOf[c] = r.cfd /\ fdOf[c] # Absent /\ Host[c] = r.addr

(* The labels of Register() before it *)
Before == {"reg_addr", "reg_copy", "reg_insert"}
Inserting == {w \in Workers : pc[w] \in Before}

(* Worker w will register c, whose address it has read unless it is just   *)
(* starting.                                                               *)
Brings(w, c) == Waits(c, local[w]) /\ (pc[w] # "reg_addr" => local[w].newAddr = c)

(* A connection is not announced, in a request, with a worker or in the    *)
(* list: in one of these.                                                  *)
OncePending ==
    /\ \A c \in unread : ~isExisted(c)
    /\ \A i \in DOMAIN m_workqueue :
         IsRegister(i) => \E c \in Conns : Waits(c, m_workqueue[i])
    /\ \A i, j \in DOMAIN m_workqueue :
         IsRegister(i) /\ IsRegister(j) /\ m_workqueue[i].cfd = m_workqueue[j].cfd => i = j
    /\ \A w \in Inserting :
         /\ \E c \in Conns : Brings(w, c)
         /\ \A i \in DOMAIN m_workqueue : IsRegister(i) => m_workqueue[i].cfd # local[w].cfd
    /\ \A v, w \in Inserting : local[v].cfd = local[w].cfd => v = w

(* The labels of Register() after the address has been inserted *)
After == {"reg_hash", "uh_build", "uh_send", "reg_move", "reg_exists", "reg_neighbours",
          "reg_fds", "reg_prev", "reg_self"}

MemberFds == {fdOf[c] : c \in connectList.map_}

(* A worker has inserted the server of its request, and knows neighbours   *)
(* that are in the list.                                                   *)
Registering ==
    \A w \in Workers :
       /\ pc[w] \in After \cup Before \cup {"idle"}
       /\ pc[w] \in After => /\ isExisted(local[w].newAddr)
                             /\ local[w].cfd = fdOf[local[w].newAddr]
                             /\ local[w].addr = Host[local[w].newAddr]
       /\ pc[w] = "reg_fds" => isExisted(local[w].prev) /\ isExisted(local[w].next)
       /\ pc[w] \in {"reg_prev", "reg_self"} =>
            local[w].prev_fd \in MemberFds /\ local[w].next_fd \in MemberFds

(* The iterator of UpdateHash() is at an element of listenMap. *)
Iterating ==
    \A t \in Threads : pc[t] = "uh_send" => local[t].cur \in Registered \cup {Absent}

Dead == {c \in Conns : peer[c] = "dead"}

(* While a server leaves nothing else happens. *)
Undisturbed ==
    Dead # {} \/ pc["loop"] # "idle" =>
       /\ regime.oneAtATime /\ unread = {} /\ NoRegister
       /\ \A w \in Workers : pc[w] = "idle"
       /\ \A c \in Conns : peer[c] \in {"alive", "dead"} => fdOf[c] # Absent
       /\ \A c, d \in Dead : c = d

(* The labels of the event loop before it erases a server, and what it     *)
(* knows of the server and its neighbours there                            *)
Mourning == {"leave", "leave_fds", "erase"}

LeavingAt(label, l) ==
    /\ isExisted(l.newAddr) /\ l.newAddr \in Dead /\ fdOf[l.newAddr] = l.cfd
    /\ label = "leave_fds" => isExisted(l.prev) /\ isExisted(l.next)
    /\ label = "erase" => l.prev_fd \in MemberFds /\ l.next_fd \in MemberFds

(* The event loop erases the server that died, and sends what follows to   *)
(* servers that remain.                                                    *)
Leaving ==
    LET l == local["loop"] IN
    /\ pc["loop"] \in Mourning \cup {"idle", "uh_build", "uh_send", "recover", "rebackup"}
    /\ pc["loop"] \in Mourning => LeavingAt(pc["loop"], l)
    /\ pc["loop"] \in {"uh_build", "uh_send", "recover"} =>
         /\ Dead = {} /\ l.cfd \notin MemberFds
         /\ l.prev_fd \in MemberFds \cup {l.cfd} /\ l.next_fd \in MemberFds \cup {l.cfd}
    /\ pc["loop"] = "rebackup" =>
         Dead = {} /\ l.prev_fd \in MemberFds /\ l.next_fd \in MemberFds

(* Where servers come one at a time, there is one registration at most. *)
Alone ==
    regime.oneAtATime =>
       /\ \A c, d \in unread : c = d
       /\ unread # {} => NoRegister
       /\ unread # {} \/ ~NoRegister => \A w \in Workers : pc[w] = "idle"
       /\ \A i, j \in DOMAIN m_workqueue : IsRegister(i) /\ IsRegister(j) => i = j
       /\ \A v, w \in Workers : pc[v] # "idle" /\ pc[w] # "idle" => v = w

Books == Descriptors /\ Registry
Steps == OncePending /\ Registering /\ Iterating /\ Undisturbed /\ Leaving /\ Alone
Consistent == TypeOK /\ Shape /\ NoCrash /\ Books /\ Steps

-----------------------------------------------------------------------------
(* The list and its neighbours                                             *)

(* An entry of a list without repetitions is in one place. *)
LEMMA NodeOf ==
  ASSUME NEW S, NEW l \in Seq(S), IsInjective(l), NEW i \in DOMAIN l
  PROVE  Max({j \in DOMAIN l : l[j] = l[i]}) = i
<1>1. {j \in DOMAIN l : l[j] = l[i]} = {i}
  BY DEF IsInjective
<1>2. i \in Nat
  OBVIOUS
<1> QED
  BY <1>1, <1>2 DEF Max

(* The places before and after the i-th of n in a circle *)
LEMMA Around ==
  ASSUME NEW n \in Nat, NEW i \in 1..n
  PROVE  /\ (i % n) + 1 = IF i = n THEN 1 ELSE i + 1
         /\ ((i + n - 2) % n) + 1 = IF i = 1 THEN n ELSE i - 1
<1>1. i % n = IF i = n THEN 0 ELSE i
  OBVIOUS
<1>2. CASE i = 1
  <2>1. i + n - 2 = n - 1 /\ n - 1 \in 0..n - 1
    BY <1>2
  <2>2. (n - 1) % n = n - 1
    BY <2>1
  <2> QED
    BY <1>1, <1>2, <2>1, <2>2
<1>3. CASE i # 1
  <2>1. i + n - 2 = n + (i - 2) /\ i - 2 \in 0..n - 1
    BY <1>3
  <2>2. (n + (i - 2)) % n = i - 2
    BY <2>1
  <2> QED
    BY <1>1, <1>3, <2>1, <2>2
<1> QED
  BY <1>2, <1>3

(* getPrev() and getNext() of a member go around the list. *)
LEMMA NeighboursOf ==
  ASSUME TypeOK, Registry, NEW i \in DOMAIN connectList.list
  PROVE  LET l == connectList.list
             c == l[i]
             n == Len(l)
         IN  /\ node(c) = i
             /\ getNext(c) = l[IF i = n THEN 1 ELSE i + 1]
             /\ getPrev(c) = l[IF i = 1 THEN n ELSE i - 1]
<1> DEFINE l == connectList.list
           n == Len(l)
<1>1. l \in Seq(Names) /\ IsInjective(l)
  BY DEF TypeOK, Registry
<1>2. i \in 1..n /\ n \in Nat
  BY <1>1
<1>3. node(l[i]) = i
  <2> HIDE DEF l
  <2>1. Max({j \in DOMAIN l : l[j] = l[i]}) = i
    BY <1>1, <1>2, NodeOf
  <2> QED
    BY <2>1 DEF node, l
<1>4. /\ (i % n) + 1 = IF i = n THEN 1 ELSE i + 1
      /\ ((i + n - 2) % n) + 1 = IF i = 1 THEN n ELSE i - 1
  <2> HIDE DEF n
  <2> QED
    BY <1>2, Around
<1> QED
  BY <1>3, <1>4 DEF getNext, getPrev

(* They are members. *)
LEMMA NeighboursAreMembers ==
  ASSUME TypeOK, Registry, NEW c \in connectList.map_
  PROVE  isExisted(getNext(c)) /\ isExisted(getPrev(c))
<1>1. PICK i \in DOMAIN connectList.list : connectList.list[i] = c
  BY DEF Registry, Range
<1>2. connectList.list \in Seq(Names)
  BY DEF TypeOK
<1>3. /\ getNext(c) = connectList.list[IF i = Len(connectList.list) THEN 1 ELSE i + 1]
      /\ getPrev(c) = connectList.list[IF i = 1 THEN Len(connectList.list) ELSE i - 1]
  BY <1>1, NeighboursOf
<1>4. /\ (IF i = Len(connectList.list) THEN 1 ELSE i + 1) \in DOMAIN connectList.list
      /\ (IF i = 1 THEN Len(connectList.list) ELSE i - 1) \in DOMAIN connectList.list
  BY <1>2
<1> QED
  BY <1>3, <1>4 DEF Registry, Range, isExisted

-----------------------------------------------------------------------------
(* Sending                                                                 *)

(* What is sent on f is known to the connection that has descriptor f.     *)
Tells(f, news) ==
    \A c \in Conns : told'[c] = IF fdOf[c] = f /\ f # Absent THEN Updated(told[c], news)
                                                          ELSE told[c]

(* As long as no peer is dead a send() is received, or goes nowhere.       *)
LEMMA SendTells ==
  ASSUME TypeOK, Descriptors, NoCrash, Dead = {},
         NEW f, NEW m, NEW news, "reset" \notin DOMAIN news, Send(f, m, news)
  PROVE  NoCrash' /\ Tells(f, news)
<1>1. CASE \E c \in Conns : fdOf[c] = f /\ f # Absent
  <2>1. PICK c \in Conns : fdOf[c] = f /\ f # Absent
    BY <1>1
  <2>2. (CHOOSE d \in Conns : fdOf[d] = f) = c
    BY <2>1 DEF Descriptors
  <2>3. peer[c] = "alive"
    BY <2>1 DEF Descriptors, Dead
  <2>4. /\ told' = [told EXCEPT ![c] = Updated(told[c], news)]
        /\ crashed' = "no"
    BY <1>1, <2>2, <2>3 DEF Send, NoCrash
  <2>5. /\ DOMAIN Updated(told[c], news) = DOMAIN told[c]
        /\ Updated(told[c], news).reset = told[c].reset
    BY DEF Updated, NoCrash
  <2>6. \A d \in Conns \ {c} : fdOf[d] # f
    BY <2>1 DEF Descriptors
  <2>7. /\ told' = [d \in Conns |-> told'[d]]
        /\ told'[c] = Updated(told[c], news)
        /\ \A d \in Conns \ {c} : told'[d] = told[d]
    <3> HIDE DEF Tells
    <3> QED BY <2>4 DEF NoCrash
  <2>8. NoCrash'
    BY <2>4, <2>5, <2>7 DEF NoCrash
  <2>9. Tells(f, news)
    BY <2>1, <2>6, <2>7 DEF Tells
  <2> QED
    BY <2>8, <2>9
<1>2. CASE ~\E c \in Conns : fdOf[c] = f /\ f # Absent
  BY <1>2 DEF Send, sent, NoCrash, Tells
<1> QED
  BY <1>1, <1>2

(* A thread that is sending does so while nobody is dead. *)
LEMMA BusyMeansAlive ==
  ASSUME Consistent, NEW t \in Threads, pc[t] \notin {"idle", "leave", "leave_fds", "erase"}
  PROVE  Dead = {}
<1>1. CASE t \in Workers
  BY <1>1 DEF Consistent, Steps, Undisturbed
<1>2. CASE t = "loop"
  BY <1>2 DEF Consistent, Steps, Leaving, Mourning
<1> QED
  BY <1>1, <1>2 DEF Threads

-----------------------------------------------------------------------------
(* Steps that leave the registry alone                                     *)

SameBooks == UNCHANGED <<regime, peer, fdOf, connectedMap, registedMap, listenMap, connectList>>

(* Nothing else happens to the registry. *)
LEMMA BooksKept ==
  ASSUME Books, SameBooks
  PROVE  Books'
BY DEF Books, Descriptors, Registry, SameBooks, isExisted

(* Only thread t moves on. *)
Moves(t) ==
    /\ pc' \in [Threads -> Labels]
    /\ local' = [u \in Threads |-> local'[u]]
    /\ \A u \in Threads \ {t} : pc'[u] = pc[u] /\ local'[u] = local[u]

(* The parts of the invariant that hold of a label and local variables     *)
WorkerAt(w, l, r) ==
    /\ l \in After \cup {"idle"}
    /\ l # "idle" => /\ r.newAddr = local[w].newAddr
                     /\ r.cfd = local[w].cfd /\ r.addr = local[w].addr
    /\ l = "reg_fds" => isExisted(r.prev) /\ isExisted(r.next)
    /\ l \in {"reg_prev", "reg_self"} => r.prev_fd \in MemberFds /\ r.next_fd \in MemberFds

LoopAt(l, r) ==
    /\ l \in {"idle", "uh_build", "uh_send", "recover", "rebackup"}
    /\ l # "idle" => /\ r.cfd = local["loop"].cfd
                     /\ r.prev_fd = local["loop"].prev_fd /\ r.next_fd = local["loop"].next_fd
    /\ l = "rebackup" => r.prev_fd \in MemberFds /\ r.next_fd \in MemberFds

ThreadAt(t, l, r) ==
    /\ DOMAIN r = Fields
    /\ l = "uh_send" => r.cur \in Registered \cup {Absent}
    /\ t \in Workers => WorkerAt(t, l, r)
    /\ t = "loop" => LoopAt(l, r)

(* The threads that send do not disturb the registrations. *)
LEMMA ThreadMoves ==
  ASSUME Consistent, SameBooks, UNCHANGED <<unread, m_workqueue>>, NoCrash',
         masterHash' \subseteq Servers \cup {Garbage},
         NEW t \in Threads,
         pc[t] \notin {"idle", "reg_addr", "reg_copy", "reg_insert", "leave", "leave_fds",
                       "erase"},
         Moves(t), ThreadAt(t, pc'[t], local'[t]),
         t = "loop" => pc[t] # "rebackup" \/ pc'[t] = "idle"
  PROVE  Consistent'
<1> USE DEF Consistent, Steps
<1>1. "loop" \notin Workers /\ "loop" \in Threads /\ Workers \subseteq Threads
  BY ValuesAssumption DEF Threads
<1>2. Dead = {} /\ Dead' = {}
  BY BusyMeansAlive DEF SameBooks, Dead
<1>3. Books'
  BY BooksKept
<1>4. TypeOK'
  BY DEF TypeOK, SameBooks, Moves, NoCrash
<1>5. Shape'
  BY DEF Shape, Moves, ThreadAt, Requests, Fds
<1>6. MemberFds' = MemberFds /\ Registered' = Registered
  BY DEF MemberFds, Registered, SameBooks
<1>7. Inserting' = Inserting /\ t \notin Inserting /\ \A w \in Inserting : local'[w] = local[w]
  <2>1. t \in Workers => pc'[t] \notin Before
    BY DEF ThreadAt, WorkerAt, After, Before
  <2> QED
    BY <1>1, <2>1 DEF Inserting, Before, Moves
<1>8. OncePending'
  <2>1. \A w \in Inserting : pc'[w] = pc[w]
    BY <1>1, <1>7 DEF Inserting, Moves
  <2>2. \A c, r : Waits(c, r) => Waits(c, r)'
    BY DEF Waits, SameBooks, isExisted
  <2>3. \A w \in Inserting : \E c \in Conns : Brings(w, c)'
    BY <1>7, <2>1, <2>2 DEF OncePending, Brings, Waits
  <2>4. \A i \in DOMAIN m_workqueue :
          IsRegister(i) => \E c \in Conns : Waits(c, m_workqueue[i])'
    BY <2>2 DEF OncePending, Waits
  <2> QED
    BY <1>7, <2>3, <2>4 DEF OncePending, IsRegister, SameBooks, isExisted
<1>9. Registering'
  <2> SUFFICES ASSUME NEW w \in Workers
               PROVE  /\ pc'[w] \in After \cup Before \cup {"idle"}
                      /\ pc'[w] \in After => /\ isExisted(local[w].newAddr)'
                                             /\ local'[w].cfd = fdOf[local'[w].newAddr]
                                             /\ local'[w].addr = Host[local'[w].newAddr]
                      /\ pc'[w] = "reg_fds" =>
                            isExisted(local[w].prev)' /\ isExisted(local[w].next)'
                      /\ pc'[w] \in {"reg_prev", "reg_self"} =>
                            local'[w].prev_fd \in MemberFds' /\ local'[w].next_fd \in MemberFds'
    BY DEF Registering, SameBooks
  <2>1. CASE w = t
    <3>1. pc[w] \in After /\ "idle" \notin After
      BY <2>1 DEF Registering, After, Before
    <3>2. WorkerAt(w, pc'[w], local'[w])
      BY <2>1 DEF ThreadAt
    <3>3. /\ isExisted(local[w].newAddr) /\ local[w].cfd = fdOf[local[w].newAddr]
          /\ local[w].addr = Host[local[w].newAddr]
      BY <3>1 DEF Registering
    <3> QED
      BY <1>6, <3>1, <3>2, <3>3 DEF WorkerAt, SameBooks, isExisted
  <2>2. CASE w # t
    BY <1>1, <1>6, <2>2 DEF Registering, Moves, SameBooks, isExisted
  <2> QED
    BY <2>1, <2>2
<1>10. Iterating'
  BY <1>6 DEF Iterating, Moves, ThreadAt
<1>11. Undisturbed'
  <2>1. CASE t = "loop"
    <3>1. \A w \in Workers : pc'[w] = pc[w]
      BY <1>1, <2>1 DEF Moves
    <3>2. /\ regime.oneAtATime /\ unread = {} /\ NoRegister
          /\ \A w \in Workers : pc[w] = "idle"
          /\ \A c \in Conns : peer[c] \in {"alive", "dead"} => fdOf[c] # Absent
      BY <2>1 DEF Undisturbed
    <3> QED
      BY <1>2, <3>1, <3>2 DEF Undisturbed, SameBooks, NoRegister, IsRegister
  <2>2. CASE t \in Workers
    <3>1. pc["loop"] = "idle"
      BY <2>2 DEF Undisturbed
    <3>2. pc'["loop"] = "idle"
      BY <1>1, <2>2, <3>1 DEF Moves
    <3> QED
      BY <1>2, <3>2 DEF Undisturbed
  <2> QED
    BY <2>1, <2>2 DEF Threads
<1>12. Leaving'
  <2>1. CASE t = "loop"
    <3>1. LoopAt(pc'["loop"], local'["loop"])
      BY <2>1 DEF ThreadAt
    <3>2. /\ pc["loop"] \in {"uh_build", "uh_send", "recover", "rebackup"}
          /\ pc["loop"] # "rebackup" =>
               /\ local["loop"].cfd \notin MemberFds
               /\ local["loop"].prev_fd \in MemberFds \cup {local["loop"].cfd}
               /\ local["loop"].next_fd \in MemberFds \cup {local["loop"].cfd}
      BY <2>1 DEF Leaving, Mourning
    <3> QED
      BY <1>2, <1>6, <2>1, <3>1, <3>2 DEF Leaving, LoopAt, Mourning
  <2>2. CASE t \in Workers
    <3>1. pc["loop"] = "idle"
      BY <2>2 DEF Undisturbed
    <3>2. pc'["loop"] = "idle"
      BY <1>1, <2>2, <3>1 DEF Moves
    <3> QED
      BY <3>2 DEF Leaving, Mourning
  <2> QED
    BY <2>1, <2>2 DEF Threads
<1>13. Alone'
  <2>1. \A w \in Workers : pc'[w] # "idle" => pc[w] # "idle"
    BY <1>1 DEF Moves
  <2> QED
    BY <2>1 DEF Alone, SameBooks, NoRegister, IsRegister
<1> QED
  BY <1>3, <1>4, <1>5, <1>8, <1>9, <1>10, <1>11, <1>12, <1>13

(* What a label and an assignment to local variables are for the lemma     *)
LEMMA GotoMoves ==
  ASSUME TypeOK, Shape, NEW t \in Threads, NEW l \in Labels, Goto(t, l),
         local' = [u \in Threads |-> local'[u]],
         \A u \in Threads \ {t} : local'[u] = local[u]
  PROVE  Moves(t) /\ pc'[t] = l
BY DEF Goto, Moves, TypeOK

(* Nor does a thread that ends its request. *)
LEMMA EndMoves ==
  ASSUME TypeOK, Shape, NEW t \in Threads, End(t)
  PROVE  Moves(t) /\ pc'[t] = "idle" /\ ThreadAt(t, pc'[t], local'[t])
<1>1. /\ pc' = [pc EXCEPT ![t] = "idle"] /\ local' = [local EXCEPT ![t] = NoLocal]
  BY DEF End, Goto
<1>2. local'[t] = NoLocal /\ pc'[t] = "idle"
  BY <1>1 DEF Shape, TypeOK
<1>3. DOMAIN NoLocal = Fields
  BY DEF NoLocal, Fields
<1>4. ThreadAt(t, "idle", NoLocal)
  BY <1>3 DEF ThreadAt, WorkerAt, LoopAt, After
<1>5. Moves(t)
  BY <1>1 DEF Moves, Shape, TypeOK, Labels
<1> QED
  BY <1>2, <1>4, <1>5

(* UpdateHash() copies the addresses, ... *)
LEMMA BuildRingKeeps ==
  ASSUME Consistent, NEW t \in Threads, BuildRing(t)
  PROVE  Consistent'
<1>1. pc[t] = "uh_build" /\ pc' = [pc EXCEPT ![t] = "uh_send"]
  BY DEF BuildRing, On, Goto
<1> DEFINE r == [local[t] EXCEPT !.ring = {listenMap[f] : f \in Registered}, !.cur = Absent]
<1>2. local' = [local EXCEPT ![t] = r]
  BY DEF BuildRing, Consistent, Shape
<1>3. /\ DOMAIN r = Fields /\ r.cur = Absent
      /\ r.newAddr = local[t].newAddr /\ r.cfd = local[t].cfd /\ r.addr = local[t].addr
      /\ r.prev_fd = local[t].prev_fd /\ r.next_fd = local[t].next_fd
  BY DEF Consistent, Shape, Fields
<1> HIDE DEF r
<1>4. local'[t] = r /\ pc'[t] = "uh_send"
  BY <1>1, <1>2 DEF Consistent, Shape, TypeOK
<1>5. Moves(t)
  BY <1>1, <1>2 DEF Moves, Consistent, Shape, TypeOK, Labels
<1>6. ThreadAt(t, pc'[t], local'[t])
  BY <1>3, <1>4 DEF ThreadAt, WorkerAt, LoopAt, After
<1>7. SameBooks /\ UNCHANGED <<unread, m_workqueue, masterHash>> /\ NoCrash'
  BY DEF BuildRing, SameBooks, outside, registry, sent, Consistent, NoCrash
<1> QED
  BY <1>1, <1>4, <1>5, <1>6, <1>7, ThreadMoves DEF Consistent, TypeOK

(* A nonempty set of naturals has a least one: the shortest of the         *)
(* intervals from 0 to a member of it.                                     *)
LEMMA LeastFd ==
  ASSUME NEW S \in SUBSET Nat, S # {}
  PROVE  Min(S) \in S /\ \A f \in S : Min(S) <= f
<1> DEFINE T == {0..m : m \in S}
           R == StrictSubsetOrdering(Nat)
<1>1. \A m \in S : 0..m \in FiniteSubsetsOf(Nat)
  BY FS_Interval DEF FiniteSubsetsOf
<1>2. PICK x \in T : \A y \in T : <<y, x>> \notin R
  <2>1. IsWellFoundedOn(R, FiniteSubsetsOf(Nat))
    BY FS_StrictSubsetOrderingWellFounded
  <2>2. T \subseteq FiniteSubsetsOf(Nat) /\ T # {}
    BY <1>1
  <2> HIDE DEF T, R
  <2> QED
    BY <2>1, <2>2, WFMin
<1>3. PICK m \in S : x = 0..m
  OBVIOUS
<1>4. ASSUME NEW k \in S, k < m PROVE FALSE
  <2>1. 0..k \in T /\ 0..k \in SUBSET Nat /\ 0..m \in SUBSET Nat
    OBVIOUS
  <2>2. m \in 0..m /\ m \notin 0..k /\ 0..k \subseteq 0..m
    BY <1>4
  <2> QED
    BY <1>2, <1>3, <2>1, <2>2 DEF StrictSubsetOrdering
<1>5. m \in S /\ \A f \in S : m <= f
  BY <1>4
<1> QED
  BY <1>5 DEF Min

-----------------------------------------------------------------------------
(* The maps as the code reads them                                         *)

(* A subscript finds an entry for every descriptor of a connection, and    *)
(* inserts nothing.                                                        *)
LEMMA ConnectedAt ==
  ASSUME TypeOK, Descriptors, NEW f \in Fds, connectedMap[f] # NoConn
  PROVE  /\ connectedMap[f] \in Conns /\ fdOf[connectedMap[f]] = f
         /\ ReadConnected(f) = connectedMap[f]
         /\ InsertConnected(f) => UNCHANGED connectedMap
<1>1. connectedMap[f] \in Conns
  BY DEF Descriptors
<1>2. connectedMap \in [Fds -> Names \cup {NoConn}]
  BY DEF TypeOK
<1>3. ReadConnected(f) = connectedMap[f]
  BY DEF ReadConnected
<1>4. fdOf[connectedMap[f]] = f
  BY <1>1 DEF Descriptors
<1> QED
  BY <1>1, <1>2, <1>3, <1>4 DEF InsertConnected

(* The descriptor of a connection leads to it. *)
LEMMA ConnectedOf ==
  ASSUME TypeOK, Descriptors, NEW c \in Conns, fdOf[c] # Absent
  PROVE  /\ fdOf[c] \in Fds \ {NoFd} /\ connectedMap[fdOf[c]] = c /\ c # NoConn
         /\ ReadConnected(fdOf[c]) = c
         /\ InsertConnected(fdOf[c]) => UNCHANGED connectedMap
<1>1. fdOf[c] \in Fds \ {NoFd}
  BY DEF TypeOK
<1>2. connectedMap[fdOf[c]] = c
  BY <1>1 DEF Descriptors
<1>3. c # NoConn
  BY ValuesAssumption
<1> QED
  BY <1>1, <1>2, <1>3, ConnectedAt

(* listenMap has the descriptors of the members. *)
LEMMA RegisteredAre ==
  ASSUME TypeOK, Books
  PROVE  /\ Registered = MemberFds
         /\ \A c \in connectList.map_ :
              /\ c \in Conns /\ fdOf[c] \in Fds \ {NoFd}
              /\ connectedMap[fdOf[c]] = c /\ listenMap[fdOf[c]] = Host[c]
         /\ \A f \in Registered : connectedMap[f] \in connectList.map_ /\ f \in Nat
<1>1. Cardinality(Conns) \in Nat
  BY MasterAssumption, FS_CardinalityType
<1>2. ASSUME NEW c \in connectList.map_
      PROVE  /\ c \in Conns /\ fdOf[c] \in Fds \ {NoFd}
             /\ connectedMap[fdOf[c]] = c /\ listenMap[fdOf[c]] = Host[c]
             /\ Host[c] \in Servers /\ Host[c] # Nobody
  <2>1. c \in Conns /\ fdOf[c] # Absent
    BY DEF Books, Registry
  <2>2. fdOf[c] \in Fds \ {NoFd} /\ connectedMap[fdOf[c]] = c
    BY <2>1, ConnectedOf DEF Books
  <2>3. listenMap[fdOf[c]] = Host[c]
    BY <2>2 DEF Books, Registry, isExisted
  <2>4. Host[c] \in Servers /\ Host[c] # Nobody
    BY <2>1, MasterAssumption, ValuesAssumption
  <2> QED
    BY <2>1, <2>2, <2>3, <2>4
<1>3. ASSUME NEW f \in Registered
      PROVE  connectedMap[f] \in connectList.map_ /\ f \in Nat /\ f = fdOf[connectedMap[f]]
  <2>1. f \in Fds /\ isExisted(connectedMap[f])
    BY DEF Registered, Books, Registry
  <2>2. connectedMap[f] \in Conns
    BY <2>1 DEF Books, Registry, isExisted
  <2>3. fdOf[connectedMap[f]] = f
    BY <2>1, <2>2 DEF Books, Descriptors
  <2> QED
    BY <1>1, <2>1, <2>3 DEF Fds, isExisted
<1>4. \A c \in connectList.map_ : fdOf[c] \in Registered
  BY <1>2 DEF Registered
<1> QED
  BY <1>2, <1>3, <1>4 DEF MemberFds

(* Reading the listen address of a member's descriptor inserts nothing. *)
LEMMA ListenOf ==
  ASSUME TypeOK, Books, NEW f \in MemberFds
  PROVE  ReadListen(f) = listenMap[f] /\ (InsertListen(f) => UNCHANGED listenMap)
<1>1. f \in Fds /\ listenMap[f] # Nobody
  BY RegisteredAre DEF Registered
<1>2. listenMap \in [Fds -> Servers \cup {"", Garbage, Nobody}]
  BY DEF TypeOK
<1> QED
  BY <1>1, <1>2 DEF ReadListen, InsertListen

(* Nor does reading the descriptors of members. *)
LEMMA RegistedOf ==
  ASSUME TypeOK, Books, NEW S \in SUBSET connectList.map_
  PROVE  /\ \A c \in S : ReadRegisted(c) = fdOf[c] /\ fdOf[c] \in MemberFds
         /\ InsertRegisted(S) => UNCHANGED registedMap
<1>1. \A c \in S : c \in Names /\ registedMap[c] = fdOf[c] /\ fdOf[c] # Absent
  BY DEF Books, Registry, Names, isExisted
<1>2. \A c \in S : ReadRegisted(c) = registedMap[c]
  BY <1>1 DEF ReadRegisted
<1>3. registedMap = [c \in Names |-> registedMap[c]]
  BY DEF TypeOK
<1> QED
  BY <1>1, <1>2, <1>3 DEF InsertRegisted, MemberFds

-----------------------------------------------------------------------------
(* What the threads send                                                   *)

(* ... sends them to every element of listenMap in turn, ... *)
LEMMA SendRingsKeeps ==
  ASSUME Consistent, NEW t \in Threads, SendRings(t)
  PROVE  Consistent'
<1> DEFINE rest == {f \in Registered : f > local[t].cur}
<1>1. pc[t] = "uh_send" /\ TypeOK /\ Shape /\ Books /\ NoCrash
  BY DEF SendRings, On, Consistent
<1>2. Dead = {} /\ Descriptors
  BY <1>1, BusyMeansAlive DEF Books
<1>3. local[t].cur \in Registered \cup {Absent} /\ Registered \subseteq Nat
  BY <1>1, RegisteredAre DEF Consistent, Steps, Iterating
<1>4. UNCHANGED <<regime, peer, unread, fdOf, registedMap, listenMap, connectList, m_workqueue,
                  masterHash>>
  BY DEF SendRings, outside
<1>5. CASE /\ rest = {}
           /\ Goto(t, IF t = "loop" THEN "recover" ELSE "reg_move")
           /\ UNCHANGED <<connectedMap, local, sent>>
  <2>1. NoCrash' /\ SameBooks
    BY <1>1, <1>4, <1>5 DEF NoCrash, sent, SameBooks
  <2>2. Moves(t) /\ pc'[t] = IF t = "loop" THEN "recover" ELSE "reg_move"
    <3>1. (IF t = "loop" THEN "recover" ELSE "reg_move") \in Labels
      BY DEF Labels
    <3> QED
      BY <1>1, <1>5, <3>1, GotoMoves DEF Shape
  <2>3. ThreadAt(t, pc'[t], local'[t])
    BY <1>1, <1>5, <2>2, ValuesAssumption DEF ThreadAt, WorkerAt, LoopAt, After, Threads, Shape
  <2> QED
    BY <1>1, <1>4, <2>1, <2>2, <2>3, ThreadMoves DEF TypeOK
<1>6. CASE /\ rest # {}
           /\ SendRing(Min(rest), local[t].ring)
           /\ local' = [local EXCEPT ![t].cur = Min(rest)]
           /\ InsertConnected(Min(rest))
           /\ UNCHANGED pc
  <2>1. PICK f \in Registered : f = Min(rest)
    <3>1. rest \in SUBSET Nat
      BY <1>3
    <3> HIDE DEF rest
    <3>2. Min(rest) \in rest
      BY <1>6, <3>1, LeastFd
    <3> QED
      BY <3>2 DEF rest
  <2>2. NoCrash'
    <3>1. "reset" \notin DOMAIN [ring |-> local[t].ring]
      OBVIOUS
    <3> QED
      BY <1>1, <1>2, <1>6, <3>1, SendTells DEF SendRing
  <2>3. UNCHANGED connectedMap
    <3>1. f \in Fds /\ connectedMap[f] \in connectList.map_ /\ connectedMap[f] \in Conns
      BY <1>1, <2>1, RegisteredAre DEF Registered
    <3>2. connectedMap[f] # NoConn
      BY <3>1, ValuesAssumption
    <3> QED
      BY <1>1, <1>2, <1>6, <2>1, <3>1, <3>2, ConnectedAt
  <2> DEFINE r == [local[t] EXCEPT !.cur = f]
  <2>4. local' = [local EXCEPT ![t] = r]
    BY <1>6, <2>1
  <2>5. /\ DOMAIN r = Fields /\ r.cur = f
        /\ r.newAddr = local[t].newAddr /\ r.cfd = local[t].cfd /\ r.addr = local[t].addr
        /\ r.prev_fd = local[t].prev_fd /\ r.next_fd = local[t].next_fd
    BY <1>1 DEF Shape, Fields
  <2> HIDE DEF r, rest
  <2>6. local'[t] = r /\ Moves(t) /\ pc'[t] = "uh_send"
    BY <1>1, <1>6, <2>4 DEF Moves, Shape, TypeOK
  <2>7. ThreadAt(t, pc'[t], local'[t])
    BY <2>5, <2>6 DEF ThreadAt, WorkerAt, LoopAt, After
  <2>8. SameBooks
    BY <1>4, <2>3 DEF SameBooks
  <2> QED
    BY <1>1, <1>4, <2>2, <2>6, <2>7, <2>8, ThreadMoves DEF TypeOK
<1>7. ~(local[t].cur # Absent /\ local[t].cur \notin Registered)
  BY <1>3
<1> QED
  BY <1>5, <1>6, <1>7 DEF SendRings

(* The steps of Register() that follow *)
LEMMA AddToHashKeeps ==
  ASSUME Consistent, NEW w \in Workers, AddToHash(w)
  PROVE  Consistent'
<1>1. pc[w] = "reg_hash" /\ TypeOK /\ Shape /\ w \in Threads /\ w # "loop"
  BY ValuesAssumption DEF AddToHash, On, Consistent, Threads
<1>2. /\ SameBooks /\ NoCrash' /\ UNCHANGED <<unread, m_workqueue, local>>
  BY DEF AddToHash, SameBooks, outside, registry, sent, Consistent, NoCrash
<1>3. Moves(w) /\ pc'[w] = "uh_build"
  BY <1>1, <1>2, GotoMoves DEF AddToHash, Labels, Shape
<1>4. masterHash' \subseteq Servers \cup {Garbage}
  <2>1. local[w].addr \in Servers
    BY <1>1, MasterAssumption DEF Consistent, Steps, Registering, After, isExisted, Books, Registry
  <2> QED
    BY <1>1, <2>1 DEF AddToHash, TypeOK
<1>5. ThreadAt(w, pc'[w], local'[w])
  BY <1>1, <1>2, <1>3 DEF ThreadAt, WorkerAt, After, Shape
<1> QED
  BY <1>1, <1>2, <1>3, <1>4, <1>5, ThreadMoves

(* Register() sends MOVE_DATA, and nothing else changes. *)
LEMMA SendMoveKeeps ==
  ASSUME Consistent, NEW w \in Workers, SendMove(w)
  PROVE  Consistent'
<1>1. pc[w] = "reg_move" /\ TypeOK /\ Shape /\ Books /\ NoCrash /\ w \in Threads /\ w # "loop"
  BY ValuesAssumption DEF SendMove, On, Consistent, Threads
<1>2. SameBooks /\ UNCHANGED <<unread, m_workqueue, masterHash>>
  BY DEF SendMove, SameBooks, outside, registry
<1>3. masterHash' \subseteq Servers \cup {Garbage}
  BY <1>1, <1>2 DEF TypeOK
<1>4. CASE local[w].notity = {}
  <2>1. Goto(w, "reg_exists") /\ UNCHANGED <<local, sent>>
    BY <1>4 DEF SendMove
  <2>2. Moves(w) /\ pc'[w] = "reg_exists"
    BY <1>1, <2>1, GotoMoves DEF Labels, Shape
  <2>3. ThreadAt(w, pc'[w], local'[w])
    BY <1>1, <2>1, <2>2 DEF ThreadAt, WorkerAt, After, Shape
  <2>4. NoCrash'
    BY <1>1, <2>1 DEF NoCrash, sent
  <2> QED
    BY <1>1, <1>2, <1>3, <2>2, <2>3, <2>4, ThreadMoves
<1>5. CASE local[w].notity # {}
  <2> DEFINE r == [local[w] EXCEPT !.notity = @ \ {Min(local[w].notity)}]
  <2>1. /\ Send(Min(local[w].notity), Command("MOVE_DATA", {}, TRUE), <<>>)
        /\ local' = [local EXCEPT ![w] = r] /\ UNCHANGED pc
    BY <1>5 DEF SendMove
  <2>2. /\ DOMAIN r = Fields
        /\ r.newAddr = local[w].newAddr /\ r.cfd = local[w].cfd /\ r.addr = local[w].addr
    BY <1>1 DEF Shape, Fields
  <2> HIDE DEF r
  <2>3. local'[w] = r /\ Moves(w) /\ pc'[w] = "reg_move"
    BY <1>1, <2>1 DEF Moves, Shape, TypeOK
  <2>4. ThreadAt(w, pc'[w], local'[w])
    BY <1>1, <2>2, <2>3 DEF ThreadAt, WorkerAt, After
  <2>5. "reset" \notin DOMAIN <<>>
    OBVIOUS
  <2>6. NoCrash'
    BY <1>1, <2>1, <2>5, BusyMeansAlive, SendTells DEF Books
  <2> QED
    BY <1>1, <1>2, <1>3, <2>3, <2>4, <2>6, ThreadMoves
<1> QED
  BY <1>4, <1>5

(* isExisted() finds the server that has just been inserted. *)
LEMMA CheckExistsKeeps ==
  ASSUME Consistent, NEW w \in Workers, CheckExists(w)
  PROVE  Consistent'
<1>1. pc[w] = "reg_exists" /\ TypeOK /\ Shape /\ NoCrash /\ w \in Threads /\ w # "loop"
  BY ValuesAssumption DEF CheckExists, On, Consistent, Threads
<1>2. /\ SameBooks /\ UNCHANGED <<unread, m_workqueue, masterHash>> /\ NoCrash'
  BY <1>1 DEF CheckExists, SameBooks, outside, registry, sent, NoCrash
<1>3. Goto(w, "reg_neighbours") /\ UNCHANGED local
  BY <1>1 DEF CheckExists, Consistent, Steps, Registering, After
<1>4. Moves(w) /\ pc'[w] = "reg_neighbours"
  BY <1>1, <1>3, GotoMoves DEF Labels, Shape
<1>5. ThreadAt(w, pc'[w], local'[w])
  BY <1>1, <1>3, <1>4 DEF ThreadAt, WorkerAt, After, Shape
<1> QED
  BY <1>1, <1>2, <1>4, <1>5, ThreadMoves DEF TypeOK

(* The neighbours that Register() reads are members. *)
LEMMA ReadNeighboursKeeps ==
  ASSUME Consistent, NEW w \in Workers, ReadNeighbours(w)
  PROVE  Consistent'
<1>1. pc[w] = "reg_neighbours" /\ TypeOK /\ Shape /\ Books /\ NoCrash /\ w \in Threads
      /\ w # "loop"
  BY ValuesAssumption DEF ReadNeighbours, On, Consistent, Threads
<1> DEFINE name == local[w].newAddr
           r == [local[w] EXCEPT !.prev = getPrev(name), !.next = getNext(name)]
<1>2. isExisted(name)
  BY <1>1 DEF Consistent, Steps, Registering, After
<1>3. /\ local' = [local EXCEPT ![w] = r] /\ Goto(w, "reg_fds") /\ UNCHANGED crashed
  BY <1>1, <1>2 DEF ReadNeighbours, Shape
<1>4. /\ SameBooks /\ UNCHANGED <<unread, m_workqueue, masterHash>> /\ NoCrash'
  BY <1>1, <1>3 DEF ReadNeighbours, SameBooks, outside, registry, NoCrash
<1>5. /\ DOMAIN r = Fields /\ r.prev = getPrev(name) /\ r.next = getNext(name)
      /\ r.newAddr = local[w].newAddr /\ r.cfd = local[w].cfd /\ r.addr = local[w].addr
  BY <1>1 DEF Shape, Fields
<1>6. isExisted(getPrev(name)) /\ isExisted(getNext(name))
  BY <1>1, <1>2, NeighboursAreMembers DEF Books, isExisted
<1> HIDE DEF r, name
<1>7. local'[w] = r /\ pc'[w] = "reg_fds" /\ Moves(w)
  BY <1>1, <1>3 DEF Moves, Goto, Labels, Shape, TypeOK
<1>8. ThreadAt(w, pc'[w], local'[w])
  BY <1>1, <1>5, <1>6, <1>7 DEF ThreadAt, WorkerAt, After
<1> QED
  BY <1>1, <1>4, <1>7, <1>8, ThreadMoves DEF TypeOK

(* So they are in registedMap. *)
LEMMA ReadFdsKeeps ==
  ASSUME Consistent, NEW w \in Workers, ReadFds(w)
  PROVE  Consistent'
<1>1. pc[w] = "reg_fds" /\ TypeOK /\ Shape /\ Books /\ NoCrash /\ w \in Threads /\ w # "loop"
  BY ValuesAssumption DEF ReadFds, On, Consistent, Threads
<1> DEFINE l == local[w]
           r == [local[w] EXCEPT !.prev_fd = ReadRegisted(l.prev), !.next_fd = ReadRegisted(l.next)]
<1>2. {l.prev, l.next} \in SUBSET connectList.map_
  BY <1>1 DEF Consistent, Steps, Registering, isExisted
<1>3. /\ UNCHANGED registedMap
      /\ ReadRegisted(l.prev) \in MemberFds /\ ReadRegisted(l.next) \in MemberFds
  BY <1>1, <1>2, RegistedOf DEF ReadFds
<1>4. /\ local' = [local EXCEPT ![w] = r] /\ Goto(w, "reg_prev")
  BY <1>1 DEF ReadFds, Shape
<1>5. /\ SameBooks /\ UNCHANGED <<unread, m_workqueue, masterHash>> /\ NoCrash'
  BY <1>1, <1>3 DEF ReadFds, SameBooks, outside, sent, NoCrash
<1>6. /\ DOMAIN r = Fields /\ r.prev_fd = ReadRegisted(l.prev) /\ r.next_fd = ReadRegisted(l.next)
      /\ r.newAddr = local[w].newAddr /\ r.cfd = local[w].cfd /\ r.addr = local[w].addr
  BY <1>1 DEF Shape, Fields
<1> HIDE DEF r, l
<1>7. local'[w] = r /\ pc'[w] = "reg_prev" /\ Moves(w)
  BY <1>1, <1>4 DEF Moves, Goto, Labels, Shape, TypeOK
<1>8. ThreadAt(w, pc'[w], local'[w])
  BY <1>1, <1>3, <1>6, <1>7 DEF ThreadAt, WorkerAt, After
<1> QED
  BY <1>1, <1>5, <1>7, <1>8, ThreadMoves DEF TypeOK

(* The predecessor that is told its backup is alive. *)
LEMMA BackupPrevKeeps ==
  ASSUME Consistent, NEW w \in Workers, BackupPrev(w)
  PROVE  Consistent'
<1>1. pc[w] = "reg_prev" /\ TypeOK /\ Shape /\ Books /\ NoCrash /\ w \in Threads /\ w # "loop"
  BY ValuesAssumption DEF BackupPrev, On, Consistent, Threads
<1>2. UNCHANGED <<regime, peer, fdOf, connectedMap, registedMap, connectList, unread, m_workqueue,
                  masterHash>>
  BY DEF BackupPrev, outside
<1>3. CASE /\ SendBackup(local[w].prev_fd, ReadListen(local[w].cfd), TRUE)
           /\ InsertListen(local[w].cfd) /\ Goto(w, "reg_self") /\ UNCHANGED local
  <2>1. local[w].cfd \in MemberFds
    BY <1>1 DEF Consistent, Steps, Registering, After, MemberFds, isExisted
  <2>2. UNCHANGED listenMap
    BY <1>1, <1>3, <2>1, ListenOf
  <2>3. "reset" \notin DOMAIN [backup |-> ReadListen(local[w].cfd)]
    OBVIOUS
  <2>4. NoCrash'
    BY <1>1, <1>3, <2>3, BusyMeansAlive, SendTells DEF Books, SendBackup
  <2>5. Moves(w) /\ pc'[w] = "reg_self"
    BY <1>1, <1>3, GotoMoves DEF Labels, Shape
  <2>6. ThreadAt(w, pc'[w], local'[w])
    BY <1>1, <1>3, <2>5 DEF ThreadAt, WorkerAt, After, Shape, Consistent, Steps, Registering
  <2>7. SameBooks
    BY <1>2, <2>2 DEF SameBooks
  <2> QED
    BY <1>1, <1>2, <2>4, <2>5, <2>6, <2>7, ThreadMoves DEF TypeOK
<1>4. CASE End(w) /\ UNCHANGED <<listenMap, sent>>
  <2>1. NoCrash' /\ SameBooks
    BY <1>1, <1>2, <1>4 DEF NoCrash, sent, SameBooks
  <2> QED
    BY <1>1, <1>2, <1>4, <2>1, EndMoves, ThreadMoves DEF TypeOK
<1> QED
  BY <1>3, <1>4 DEF BackupPrev

(* So is the new server. *)
LEMMA BackupSelfKeeps ==
  ASSUME Consistent, NEW w \in Workers, BackupSelf(w)
  PROVE  Consistent'
<1>1. pc[w] = "reg_self" /\ TypeOK /\ Shape /\ Books /\ NoCrash /\ w \in Threads /\ w # "loop"
  BY ValuesAssumption DEF BackupSelf, On, Consistent, Threads
<1>2. UNCHANGED <<regime, peer, fdOf, connectedMap, registedMap, connectList, unread, m_workqueue,
                  masterHash>>
  BY DEF BackupSelf, outside
<1>3. UNCHANGED listenMap
  BY <1>1, ListenOf DEF BackupSelf, Consistent, Steps, Registering
<1>4. NoCrash'
  <2>1. "reset" \notin DOMAIN [backup |-> ReadListen(local[w].next_fd)]
    OBVIOUS
  <2> QED
    BY <1>1, <2>1, BusyMeansAlive, SendTells DEF Books, SendBackup, BackupSelf
<1>5. SameBooks /\ End(w)
  BY <1>2, <1>3 DEF SameBooks, BackupSelf
<1> QED
  BY <1>1, <1>2, <1>4, <1>5, EndMoves, ThreadMoves DEF TypeOK

(* The steps that follow the disconnect of a server *)
LEMMA SendRecoverKeeps ==
  ASSUME Consistent, SendRecover
  PROVE  Consistent'
<1> DEFINE l == local["loop"]
<1>1. pc["loop"] = "recover" /\ TypeOK /\ Shape /\ Books /\ NoCrash /\ "loop" \in Threads
      /\ "loop" \notin Workers
  BY ValuesAssumption DEF SendRecover, On, Consistent, Threads
<1>2. SameBooks /\ UNCHANGED <<unread, m_workqueue, masterHash>>
  BY DEF SendRecover, SameBooks, outside, registry
<1>3. CASE End("loop") /\ UNCHANGED sent
  <2>1. NoCrash'
    BY <1>1, <1>3 DEF NoCrash, sent
  <2> QED
    BY <1>1, <1>2, <1>3, <2>1, EndMoves, ThreadMoves DEF TypeOK
<1>4. CASE /\ l.cfd \notin {l.prev_fd, l.next_fd}
           /\ Send(l.next_fd, Command("RECOVER_BACKUP", {}, FALSE), <<>>)
           /\ Goto("loop", "rebackup") /\ UNCHANGED local
  <2>1. "reset" \notin DOMAIN <<>>
    OBVIOUS
  <2>2. NoCrash'
    BY <1>1, <1>4, <2>1, BusyMeansAlive, SendTells DEF Books
  <2>3. Moves("loop") /\ pc'["loop"] = "rebackup"
    BY <1>1, <1>4, GotoMoves DEF Labels, Shape
  <2>4. l.prev_fd \in MemberFds /\ l.next_fd \in MemberFds
    BY <1>1, <1>4 DEF Consistent, Steps, Leaving
  <2>5. ThreadAt("loop", pc'["loop"], local'["loop"])
    BY <1>1, <1>4, <2>3, <2>4 DEF ThreadAt, LoopAt, Shape
  <2> QED
    BY <1>1, <1>2, <2>2, <2>3, <2>5, ThreadMoves DEF TypeOK
<1> QED
  BY <1>3, <1>4 DEF SendRecover

(* The predecessor of a server that left is alive. *)
LEMMA SendRebackupKeeps ==
  ASSUME Consistent, SendRebackup
  PROVE  Consistent'
<1> DEFINE l == local["loop"]
<1>1. pc["loop"] = "rebackup" /\ TypeOK /\ Shape /\ Books /\ NoCrash /\ "loop" \in Threads
      /\ "loop" \notin Workers
  BY ValuesAssumption DEF SendRebackup, Rebackup, On, Consistent, Threads
<1>2. UNCHANGED <<regime, peer, fdOf, connectedMap, registedMap, connectList, unread, m_workqueue,
                  masterHash>>
  BY DEF SendRebackup, Rebackup, outside
<1>3. UNCHANGED listenMap
  BY <1>1, ListenOf DEF SendRebackup, Rebackup, Consistent, Steps, Leaving
<1>4. NoCrash'
  <2>1. "reset" \notin DOMAIN [backup |-> ReadListen(l.next_fd)]
    OBVIOUS
  <2> QED
    BY <1>1, <2>1, BusyMeansAlive, SendTells DEF Books, SendBackup, SendRebackup, Rebackup
<1>5. SameBooks /\ End("loop")
  BY <1>2, <1>3 DEF SameBooks, SendRebackup, Rebackup
<1> QED
  BY <1>1, <1>2, <1>4, <1>5, EndMoves, ThreadMoves DEF TypeOK

-----------------------------------------------------------------------------
(* Servers come and go                                                     *)

(* A connection that accept() has not returned yet is in no container. *)
LEMMA ConnectKeeps ==
  ASSUME Consistent, NEW c \in Conns, Connect(c)
  PROVE  Consistent'
<1> USE DEF Consistent, Steps, Books
<1>1. /\ peer[c] = "none" /\ fdOf[c] = Absent /\ ~isExisted(c)
      /\ peer' = [peer EXCEPT ![c] = "alive"] /\ unread' = unread \cup {c}
      /\ UNCHANGED <<regime, fdOf, connectedMap, registedMap, listenMap, connectList, masterHash,
                     m_workqueue, pc, local, told, crashed>>
  BY DEF Connect, registry, sent, Descriptors, Registry, isExisted
<1>2. /\ regime.oneAtATime => m_workqueue = <<>> /\ unread = {} /\ \A t \in Threads : pc[t] = "idle"
      /\ Dead = {} /\ pc["loop"] = "idle"
  BY DEF Connect, MayChange, AtRest, Undisturbed, Dead, Threads
<1>3. peer' \in [Conns -> {"none", "alive", "dead", "gone"}] /\ Dead' = {}
  BY <1>1, <1>2 DEF TypeOK, Dead
<1>4. TypeOK'
  BY <1>1, <1>3 DEF TypeOK
<1>5. Descriptors'
  <2>1. \A d \in Conns : fdOf[d] # Absent => peer'[d] \in {"alive", "dead"}
    <3>1. peer \in [Conns -> {"none", "alive", "dead", "gone"}]
      BY DEF TypeOK
    <3>2. \A d \in Conns : fdOf[d] # Absent => peer[d] \in {"alive", "dead"}
      BY DEF Descriptors
    <3> QED
      BY <1>1, <3>1, <3>2
  <2> QED
    BY <1>1, <2>1 DEF Descriptors
<1>6. Registry' /\ Shape' /\ NoCrash'
  BY <1>1 DEF Registry, Shape, NoCrash, isExisted, Requests, Fds
<1>7. OncePending'
  <2>1. \A d, r : Waits(d, r) => Waits(d, r)'
    BY <1>1 DEF Waits, isExisted
  <2>2. Inserting' = Inserting
    BY <1>1 DEF Inserting
  <2>3. \A w \in Inserting : \E d \in Conns : Brings(w, d)'
    BY <1>1, <2>1 DEF OncePending, Brings, Waits, isExisted
  <2>4. \A i \in DOMAIN m_workqueue :
          IsRegister(i) => \E d \in Conns : Waits(d, m_workqueue[i])'
    BY <1>1, <2>1 DEF OncePending, Waits, isExisted
  <2>5. \A d \in unread' : ~isExisted(d)'
    BY <1>1 DEF OncePending, isExisted
  <2> QED
    BY <1>1, <2>2, <2>3, <2>4, <2>5 DEF OncePending, IsRegister
<1>8. Registering' /\ Iterating' /\ Leaving'
  <2>1. Registering' /\ Iterating'
    BY <1>1 DEF Registering, Iterating, MemberFds, Registered, isExisted
  <2>2. Leaving'
    BY <1>1, <1>2, <1>3 DEF Leaving, LeavingAt, Mourning, MemberFds
  <2> QED
    BY <2>1, <2>2
<1>9. Undisturbed'
  BY <1>1, <1>2, <1>3 DEF Undisturbed
<1>10. Alone'
  <2>1. regime.oneAtATime => /\ unread' = {c} /\ NoRegister'
                             /\ \A w \in Workers : pc'[w] = "idle"
    BY <1>1, <1>2 DEF NoRegister, IsRegister, Threads
  <2> QED
    BY <1>1, <2>1 DEF Alone, NoRegister, IsRegister
<1> QED
  BY <1>4, <1>5, <1>6, <1>7, <1>8, <1>9, <1>10

(* A server dies: nothing is on its way, so it is the only one. *)
LEMMA DieKeeps ==
  ASSUME Calm, Consistent, NEW c \in Conns, Die(c)
  PROVE  Consistent'
<1> USE DEF Consistent, Steps, Books
<1>1. /\ peer[c] = "alive" /\ peer' = [peer EXCEPT ![c] = "dead"]
      /\ UNCHANGED <<regime, unread, fdOf, connectedMap, registedMap, listenMap, connectList,
                     masterHash, m_workqueue, pc, local, told, crashed>>
  BY DEF Die, registry
<1>2. regime.oneAtATime /\ AtRest
  BY DEF Die, MayChange, Calm
<1>3. /\ m_workqueue = <<>> /\ unread = {} /\ \A t \in Threads : pc[t] = "idle"
      /\ Dead = {} /\ \A d \in Conns : peer[d] = "alive" => fdOf[d] # Absent
  BY <1>2 DEF AtRest, Dead
<1>4. peer' \in [Conns -> {"none", "alive", "dead", "gone"}] /\ Dead' = {c}
  BY <1>1, <1>3 DEF TypeOK, Dead
<1>5. TypeOK'
  BY <1>1, <1>4 DEF TypeOK
<1>6. Descriptors'
  <2>1. \A d \in Conns : fdOf[d] # Absent => peer'[d] \in {"alive", "dead"}
    <3>1. peer \in [Conns -> {"none", "alive", "dead", "gone"}]
      BY DEF TypeOK
    <3>2. \A d \in Conns : fdOf[d] # Absent => peer[d] \in {"alive", "dead"}
      BY DEF Descriptors
    <3> QED
      BY <1>1, <3>1, <3>2
  <2> QED
    BY <1>1, <2>1 DEF Descriptors
<1>7. Registry' /\ Shape' /\ NoCrash'
  BY <1>1 DEF Registry, Shape, NoCrash, isExisted, Requests, Fds
<1>8. Inserting = {} /\ Inserting' = {}
  BY <1>1, <1>3 DEF Inserting, Threads, Before
<1>9. OncePending'
  BY <1>1, <1>3, <1>8 DEF OncePending
<1>10. Registering' /\ Iterating' /\ Leaving'
  BY <1>1, <1>3 DEF Registering, Iterating, Leaving, Mourning, Threads, After
<1>11. Undisturbed'
  <2>1. \A d \in Conns : peer'[d] \in {"alive", "dead"} => fdOf[d] # Absent
    BY <1>1, <1>3, <1>4 DEF TypeOK, Dead
  <2> QED
    BY <1>1, <1>2, <1>3, <1>4, <2>1 DEF Undisturbed, NoRegister, Threads
<1>12. Alone'
  BY <1>1 DEF Alone, NoRegister, IsRegister
<1> QED
  BY <1>5, <1>6, <1>7, <1>9, <1>10, <1>11, <1>12

(* accept() finds a free descriptor: there is one for every connection,    *)
(* and this connection has none.                                           *)
LEMMA FreeFd ==
  ASSUME TypeOK, NEW c \in Conns, fdOf[c] = Absent
  PROVE  LET S == {g \in Fds \ {NoFd} : \A d \in Conns : fdOf[d] # g}
         IN  Min(S) \in S
<1> DEFINE n == Cardinality(Conns)
           free == {g \in Fds \ {NoFd} : \A d \in Conns : fdOf[d] # g}
           others == Conns \ {c}
           f == [d \in others |-> IF fdOf[d] = Absent THEN 1 ELSE fdOf[d]]
<1>1. IsFiniteSet(Conns) /\ n \in Nat /\ Conns # {}
  BY MasterAssumption, FS_CardinalityType
<1>2. IsFiniteSet(others) /\ Cardinality(others) = n - 1
  BY <1>1, FS_RemoveElement
<1>3. n >= 1 /\ Fds \ {NoFd} = 1..n
  <2>1. n # 0
    BY <1>1, FS_EmptySet
  <2> QED
    BY <1>1, <2>1 DEF Fds, NoFd
<1>4. ASSUME free = {} PROVE FALSE
  <2>1. f \in [others -> 1..n]
    <3>1. \A d \in others : fdOf[d] \in 1..n \cup {Absent}
      BY <1>3 DEF TypeOK
    <3> QED
      BY <1>3, <3>1
  <2>2. \A g \in 1..n : \E d \in others : f[d] = g
    <3> TAKE g \in 1..n
    <3>1. PICK d \in Conns : fdOf[d] = g
      BY <1>3, <1>4
    <3>2. d # c /\ fdOf[d] # Absent
      BY <3>1, <1>1 DEF Absent
    <3> QED
      BY <3>1, <3>2
  <2>3. f \in Surjection(others, 1..n)
    <3> HIDE DEF f
    <3> QED
      BY <2>1, <2>2 DEF Surjection
  <2>4. Cardinality(1..n) <= Cardinality(others)
    <3> HIDE DEF f
    <3> QED
      BY <1>2, <2>3, FS_Surjection
  <2>5. Cardinality(1..n) = n
    BY <1>1, <1>3, FS_Interval
  <2> QED
    BY <1>1, <1>2, <2>4, <2>5
<1>5. free \in SUBSET Nat
  BY <1>3
<1> HIDE DEF free
<1>6. Min(free) \in free
  BY <1>4, <1>5, LeastFd
<1> QED
  BY <1>6 DEF free

(* accept() returns the least free descriptor: it is not another's. *)
LEMMA NewConnKeeps ==
  ASSUME Consistent, NEW c \in Conns, NewConn(c)
  PROVE  Consistent'
<1> USE DEF Consistent, Steps, Books
<1>1. PICK f \in Fds \ {NoFd} :
        /\ \A d \in Conns : fdOf[d] # f
        /\ fdOf' = [fdOf EXCEPT ![c] = f]
        /\ connectedMap' = [connectedMap EXCEPT ![f] = IF @ = NoConn THEN c ELSE @]
  BY FreeFd DEF NewConn
<1>2. /\ pc["loop"] = "idle" /\ peer[c] \in {"alive", "dead"} /\ fdOf[c] = Absent
      /\ UNCHANGED <<regime, peer, unread, registedMap, listenMap, connectList, masterHash,
                     m_workqueue, pc, local, told, crashed>>
  BY DEF NewConn, On, outside, sent
<1>3. Dead = {} /\ Dead' = {} /\ peer[c] = "alive"
  BY <1>2 DEF Undisturbed, Dead
<1>4. connectedMap[f] = NoConn
  BY <1>1 DEF Descriptors
<1>5. /\ fdOf \in [Conns -> (Fds \ {NoFd}) \cup {Absent}]
      /\ connectedMap \in [Fds -> Names \cup {NoConn}]
  BY DEF TypeOK
<1>6. /\ \A d \in Conns : fdOf'[d] = IF d = c THEN f ELSE fdOf[d]
      /\ \A g \in Fds : connectedMap'[g] = IF g = f THEN c ELSE connectedMap[g]
      /\ f # Absent
  BY <1>1, <1>4, <1>5, MasterAssumption, FS_CardinalityType DEF Fds, Absent
<1>7. TypeOK'
  <2>1. fdOf' \in [Conns -> (Fds \ {NoFd}) \cup {Absent}]
    BY <1>1, <1>5
  <2>2. connectedMap' \in [Fds -> Names \cup {NoConn}]
    BY <1>1, <1>5 DEF Names
  <2> QED
    BY <1>2, <2>1, <2>2 DEF TypeOK
<1>8. Descriptors'
  <2>1. \A d, e \in Conns : fdOf'[d] = fdOf'[e] /\ fdOf'[d] # Absent => d = e
    BY <1>1, <1>6 DEF Descriptors
  <2>2. \A d \in Conns : fdOf'[d] # Absent => peer'[d] \in {"alive", "dead"}
    BY <1>2, <1>6 DEF Descriptors
  <2>3. \A g \in Fds : connectedMap'[g] \in Conns \cup {NoConn}
    BY <1>6 DEF Descriptors
  <2>4. \A g \in Fds, d \in Conns : connectedMap'[g] = d <=> fdOf'[d] = g
    <3> TAKE g \in Fds, d \in Conns
    <3>1. NoConn # d /\ g # Absent
      <4>1. Cardinality(Conns) \in Nat
        BY MasterAssumption, FS_CardinalityType
      <4>2. g # Absent
        BY <4>1 DEF Fds, Absent
      <4> QED
        BY <4>2, ValuesAssumption
    <3> QED
      BY <1>1, <1>2, <1>6, <3>1 DEF Descriptors
  <2> QED
    BY <2>1, <2>2, <2>3, <2>4 DEF Descriptors
<1>9. ~isExisted(c) /\ ~isExisted(NoConn)
  BY <1>2, ValuesAssumption DEF Registry, isExisted
<1>10. Registry'
  <2>1. \A d \in connectList.map_ : d \in Conns /\ fdOf'[d] = fdOf[d]
    BY <1>6, <1>9 DEF Registry, isExisted
  <2>2. \A g \in Fds : listenMap[g] = IF isExisted(connectedMap'[g])
                                        THEN Host[connectedMap'[g]] ELSE Nobody
    BY <1>4, <1>6, <1>9 DEF Registry
  <2> QED
    BY <1>2, <2>1, <2>2 DEF Registry, isExisted
<1>11. MemberFds' = MemberFds /\ Registered' = Registered
  BY <1>2, <1>6, <1>9 DEF MemberFds, Registered, Registry, isExisted
<1>12. Shape' /\ NoCrash'
  BY <1>2 DEF Shape, NoCrash, Requests, Fds
<1>13. OncePending'
  <2>1. \A d, r : Waits(d, r) => Waits(d, r)'
    BY <1>2, <1>6 DEF Waits, isExisted
  <2>2. Inserting' = Inserting
    BY <1>2 DEF Inserting
  <2>3. \A w \in Inserting : \E d \in Conns : Brings(w, d)'
    BY <1>2, <1>6, <2>1 DEF OncePending, Brings, Waits, isExisted
  <2>4. \A i \in DOMAIN m_workqueue :
          IsRegister(i) => \E d \in Conns : Waits(d, m_workqueue[i])'
    BY <1>2, <1>6 DEF OncePending, Waits, isExisted
  <2> QED
    BY <1>2, <2>2, <2>3, <2>4 DEF OncePending, IsRegister, isExisted
<1>14. Registering'
  <2>1. \A d \in Conns : isExisted(d) => fdOf'[d] = fdOf[d]
    BY <1>6, <1>9
  <2>2. \A d : isExisted(d) => d \in Conns
    BY DEF Registry, isExisted
  <2> QED
    BY <1>2, <1>11, <2>1, <2>2 DEF Registering, isExisted
<1>15. Iterating' /\ Leaving'
  BY <1>2, <1>11 DEF Iterating, Leaving, Mourning
<1>16. Undisturbed' /\ Alone'
  BY <1>2, <1>3 DEF Undisturbed, Alone, NoRegister, IsRegister
<1> QED
  BY <1>7, <1>8, <1>10, <1>12, <1>13, <1>14, <1>15, <1>16

-----------------------------------------------------------------------------
(* The request queue                                                       *)

(* append() adds the request at the end, or drops it.                      *)
LEMMA Enqueued ==
  ASSUME TypeOK, Shape, NEW r \in Requests, Enqueue(r)
  PROVE  /\ m_workqueue' \in Seq(Requests) /\ Len(m_workqueue') <= MaxRequests
         /\ DOMAIN m_workqueue \subseteq DOMAIN m_workqueue'
         /\ \A i \in DOMAIN m_workqueue : m_workqueue'[i] = m_workqueue[i]
         /\ \A i, j \in DOMAIN m_workqueue' \ DOMAIN m_workqueue : i = j
         /\ \A i \in DOMAIN m_workqueue' \ DOMAIN m_workqueue : m_workqueue'[i] = r
<1>1. m_workqueue \in Seq(Requests) /\ Len(m_workqueue) <= MaxRequests /\ MaxRequests \in Nat
  BY MasterAssumption DEF TypeOK, Shape
<1>2. CASE Len(m_workqueue) >= MaxRequests
  BY <1>1, <1>2 DEF Enqueue
<1>3. CASE ~(Len(m_workqueue) >= MaxRequests)
  <2>1. m_workqueue' = Append(m_workqueue, r) /\ Len(m_workqueue) < MaxRequests
    BY <1>1, <1>3 DEF Enqueue
  <2> QED
    BY <1>1, <2>1
<1> QED
  BY <1>2, <1>3

(* A worker takes the first request; the others move up. *)
LEMMA Dequeued ==
  ASSUME TypeOK, Shape, m_workqueue # <<>>, m_workqueue' = Tail(m_workqueue)
  PROVE  /\ m_workqueue' \in Seq(Requests) /\ Len(m_workqueue') <= MaxRequests
         /\ 1 \in DOMAIN m_workqueue /\ Head(m_workqueue) = m_workqueue[1]
         /\ Head(m_workqueue) \in Requests
         /\ \A i \in DOMAIN m_workqueue' :
              i + 1 \in DOMAIN m_workqueue /\ m_workqueue'[i] = m_workqueue[i + 1]
              /\ i \in Nat \ {0}
<1>1. m_workqueue \in Seq(Requests) /\ Len(m_workqueue) <= MaxRequests /\ MaxRequests \in Nat
  BY MasterAssumption DEF TypeOK, Shape
<1> QED
  BY <1>1

(* A request of a client changes nothing. *)
LEMMA QueueOfClients ==
  ASSUME Consistent, SameBooks, UNCHANGED <<unread, pc, local, masterHash>>, NoCrash',
         m_workqueue' \in Seq(Requests), Len(m_workqueue') <= MaxRequests,
         \A i \in DOMAIN m_workqueue' : IsRegister(i)' =>
            \E j \in DOMAIN m_workqueue : IsRegister(j) /\ m_workqueue[j] = m_workqueue'[i],
         \A i, j \in DOMAIN m_workqueue' : IsRegister(i)' /\ IsRegister(j)' /\ i # j =>
            \E k, l \in DOMAIN m_workqueue :
               /\ k # l /\ IsRegister(k) /\ IsRegister(l)
               /\ m_workqueue[k] = m_workqueue'[i] /\ m_workqueue[l] = m_workqueue'[j]
  PROVE  Consistent'
<1> USE DEF Consistent, Steps
<1>1. Books'
  BY BooksKept
<1>2. TypeOK' /\ Shape'
  BY DEF TypeOK, Shape, SameBooks, NoCrash, Requests, Fds
<1>3. \A c, r : Waits(c, r) => Waits(c, r)'
  BY DEF Waits, SameBooks, isExisted
<1>4. OncePending'
  <2>1. \A i \in DOMAIN m_workqueue' :
          IsRegister(i)' => \E c \in Conns : Waits(c, m_workqueue[i])'
    <3> SUFFICES ASSUME NEW i \in DOMAIN m_workqueue', IsRegister(i)'
                 PROVE  \E c \in Conns : Waits(c, m_workqueue[i])'
      OBVIOUS
    <3>1. PICK j \in DOMAIN m_workqueue : IsRegister(j) /\ m_workqueue[j] = m_workqueue'[i]
      OBVIOUS
    <3>2. PICK c \in Conns : Waits(c, m_workqueue[j])
      BY <3>1 DEF OncePending
    <3> QED
      BY <3>1, <3>2 DEF Waits, SameBooks, isExisted
  <2>2. \A i, j \in DOMAIN m_workqueue' :
          IsRegister(i)' /\ IsRegister(j)' /\ m_workqueue'[i].cfd = m_workqueue'[j].cfd => i = j
    <3> SUFFICES ASSUME NEW i \in DOMAIN m_workqueue', NEW j \in DOMAIN m_workqueue',
                        IsRegister(i)', IsRegister(j)', i # j,
                        m_workqueue'[i].cfd = m_workqueue'[j].cfd
                 PROVE  FALSE
      OBVIOUS
    <3>1. PICK k, l \in DOMAIN m_workqueue :
               /\ k # l /\ IsRegister(k) /\ IsRegister(l)
               /\ m_workqueue[k] = m_workqueue'[i] /\ m_workqueue[l] = m_workqueue'[j]
      OBVIOUS
    <3> QED
      BY <3>1 DEF OncePending
  <2>3. \A w \in Inserting :
          /\ \E c \in Conns : Brings(w, c)'
          /\ \A i \in DOMAIN m_workqueue' :
               IsRegister(i)' => m_workqueue'[i].cfd # local'[w].cfd
    <3> SUFFICES ASSUME NEW w \in Inserting
                 PROVE  /\ \E c \in Conns : Brings(w, c)'
                        /\ \A i \in DOMAIN m_workqueue' :
                             IsRegister(i)' => m_workqueue'[i].cfd # local'[w].cfd
      OBVIOUS
    <3>1. \E c \in Conns : Brings(w, c)'
      BY <1>3 DEF OncePending, Brings, Waits
    <3>2. \A i \in DOMAIN m_workqueue : IsRegister(i) => m_workqueue[i].cfd # local[w].cfd
      BY DEF OncePending
    <3> QED
      BY <3>1, <3>2
  <2>4. \A c \in unread' : ~isExisted(c)'
    BY DEF OncePending, SameBooks, isExisted
  <2>5. \A v, w \in Inserting : local'[v].cfd = local'[w].cfd => v = w
    BY DEF OncePending
  <2>6. Inserting' = Inserting
    BY DEF Inserting
  <2> QED
    BY <2>1, <2>2, <2>3, <2>4, <2>5, <2>6 DEF OncePending
<1>5. MemberFds' = MemberFds /\ Registered' = Registered /\ Dead' = Dead
  BY DEF MemberFds, Registered, Dead, SameBooks
<1>6. Registering' /\ Iterating' /\ Leaving'
  BY <1>5 DEF Registering, Iterating, Leaving, LeavingAt, SameBooks, isExisted
<1>7. NoRegister => NoRegister'
  BY DEF NoRegister
<1>8. Undisturbed'
  BY <1>5, <1>7 DEF Undisturbed, SameBooks
<1>9. Alone'
  <2>1. ~NoRegister' => ~NoRegister
    BY <1>7
  <2>2. regime'.oneAtATime =>
          \A i, j \in DOMAIN m_workqueue' : IsRegister(i)' /\ IsRegister(j)' => i = j
    BY DEF Alone, SameBooks
  <2> QED
    BY <2>1, <2>2 DEF Alone, SameBooks
<1> QED
  BY <1>1, <1>2, <1>4, <1>6, <1>8, <1>9

(* A client's request is no registration. *)
LEMMA ClientKeeps ==
  ASSUME Consistent, NEW k \in Keys, Client(k)
  PROVE  Consistent'
<1> DEFINE r == [type |-> "GETDISTRIBUTE", key |-> k]
<1>1. r \in Requests /\ r.type # "REGISTER"
  BY DEF Requests
<1>2. /\ SameBooks /\ UNCHANGED <<unread, pc, local, masterHash>> /\ NoCrash'
      /\ Enqueue(r)
  BY DEF Client, SameBooks, outside, registry, sent, Consistent, NoCrash
<1> HIDE DEF r
<1>3. /\ m_workqueue' \in Seq(Requests) /\ Len(m_workqueue') <= MaxRequests
      /\ \A i \in DOMAIN m_workqueue : m_workqueue'[i] = m_workqueue[i]
      /\ \A i \in DOMAIN m_workqueue' \ DOMAIN m_workqueue : m_workqueue'[i] = r
  BY <1>1, <1>2, Enqueued DEF Consistent
<1>4. \A i \in DOMAIN m_workqueue' : IsRegister(i)' =>
         i \in DOMAIN m_workqueue /\ IsRegister(i) /\ m_workqueue[i] = m_workqueue'[i]
  BY <1>1, <1>3 DEF IsRegister
<1> QED
  BY <1>2, <1>3, <1>4, QueueOfClients

(* An answer to a client changes none of the containers. *)
LEMMA GetDistributeKeeps ==
  ASSUME Consistent, NEW w \in Workers, NEW k \in Keys, GetDistribute(w, k)
  PROVE  Consistent'
<1>1. /\ SameBooks /\ UNCHANGED <<unread, pc, local, masterHash>> /\ NoCrash'
      /\ m_workqueue # <<>> /\ m_workqueue' = Tail(m_workqueue)
  BY DEF GetDistribute, SameBooks, outside, registry, sent, Consistent, NoCrash
<1>2. /\ m_workqueue' \in Seq(Requests) /\ Len(m_workqueue') <= MaxRequests
      /\ \A i \in DOMAIN m_workqueue' :
              i + 1 \in DOMAIN m_workqueue /\ m_workqueue'[i] = m_workqueue[i + 1]
              /\ i \in Nat \ {0}
  BY <1>1, Dequeued DEF Consistent
<1>3. \A i \in DOMAIN m_workqueue' : IsRegister(i)' => IsRegister(i + 1)
  BY <1>2 DEF IsRegister
<1>4. \A i, j \in DOMAIN m_workqueue' : i # j => i + 1 # j + 1
  BY <1>2
<1> QED
  BY <1>1, <1>2, <1>3, <1>4, QueueOfClients

-----------------------------------------------------------------------------
(* A registration: announced, taken, executed                              *)

(* The event loop reads the listen port of a server that waits for nothing *)
(* else.                                                                   *)
LEMMA AnnounceKeeps ==
  ASSUME Consistent, NEW c \in Conns, Announce(c)
  PROVE  Consistent'
<1> USE DEF Consistent, Steps, Books
<1>1. fdOf[c] # Absent /\ c \in unread /\ unread' = unread \ {c} /\ pc["loop"] = "idle"
  BY DEF Announce, On
<1>2. /\ fdOf[c] \in Fds \ {NoFd} /\ connectedMap[fdOf[c]] = c /\ ReadConnected(fdOf[c]) = c
      /\ InsertConnected(fdOf[c]) => UNCHANGED connectedMap
  BY <1>1, ConnectedOf
<1>3. PICK r \in Requests : /\ r = [type |-> "REGISTER", cfd |-> fdOf[c], addr |-> Host[c]]
                            /\ r.type = "REGISTER" /\ r.cfd = fdOf[c] /\ r.addr = Host[c]
  <2> DEFINE q == [type |-> "REGISTER", cfd |-> fdOf[c], addr |-> Host[c]]
  <2>1. q \in Requests
    BY <1>2, MasterAssumption DEF Requests
  <2>2. q.type = "REGISTER" /\ q.cfd = fdOf[c] /\ q.addr = Host[c]
    OBVIOUS
  <2> HIDE DEF q
  <2>3. q = [type |-> "REGISTER", cfd |-> fdOf[c], addr |-> Host[c]]
    BY DEF q
  <2> QED
    BY <2>1, <2>2, <2>3, Zenon
<1>4. Enqueue(r)
  BY <1>2, <1>3, ValuesAssumption DEF Announce
<1>5. /\ SameBooks /\ NoCrash' /\ UNCHANGED <<pc, local, masterHash>>
  BY <1>2 DEF Announce, SameBooks, sent, NoCrash
<1>6. Books'
  BY <1>5, BooksKept
<1>7. /\ m_workqueue' \in Seq(Requests) /\ Len(m_workqueue') <= MaxRequests
      /\ DOMAIN m_workqueue \subseteq DOMAIN m_workqueue'
      /\ \A i \in DOMAIN m_workqueue : m_workqueue'[i] = m_workqueue[i]
      /\ \A i, j \in DOMAIN m_workqueue' \ DOMAIN m_workqueue : i = j
      /\ \A i \in DOMAIN m_workqueue' \ DOMAIN m_workqueue : m_workqueue'[i] = r
  BY <1>3, <1>4, Enqueued
<1>8. TypeOK' /\ Shape'
  <2>1. unread' \subseteq Conns
    BY <1>1 DEF TypeOK
  <2> QED
    BY <1>5, <1>7, <2>1 DEF TypeOK, Shape, SameBooks, NoCrash, Requests, Fds
<1>9. \A d, q : Waits(d, q) => d # c /\ Waits(d, q)'
  BY <1>1, <1>5 DEF Waits, SameBooks, isExisted
<1>10. Waits(c, r)'
  BY <1>1, <1>3, <1>5 DEF Waits, SameBooks, OncePending, isExisted
<1>11. \A d, q : Waits(d, q) => q.cfd # fdOf[c]
  BY <1>1, <1>9 DEF Waits, Descriptors
<1>12. Inserting' = Inserting
  BY <1>5 DEF Inserting
<1>13. OncePending'
  <2>1. \A d \in unread' : ~isExisted(d)'
    BY <1>1, <1>5 DEF OncePending, SameBooks, isExisted
  <2>2. ASSUME NEW i \in DOMAIN m_workqueue', IsRegister(i)'
        PROVE  \E d \in Conns : Waits(d, m_workqueue[i])'
    <3>1. CASE i \in DOMAIN m_workqueue
      <4>1. PICK d \in Conns : Waits(d, m_workqueue[i])
        BY <1>7, <2>2, <3>1 DEF OncePending, IsRegister
      <4> QED
        BY <1>7, <1>9, <3>1, <4>1 DEF Waits
    <3>2. CASE i \notin DOMAIN m_workqueue
      BY <1>7, <1>10, <3>2 DEF Waits
    <3> QED
      BY <3>1, <3>2
  <2>3. ASSUME NEW i \in DOMAIN m_workqueue, IsRegister(i) PROVE m_workqueue[i].cfd # r.cfd
    BY <1>3, <1>11, <2>3 DEF OncePending
  <2>4. ASSUME NEW i \in DOMAIN m_workqueue', NEW j \in DOMAIN m_workqueue',
               IsRegister(i)', IsRegister(j)', m_workqueue'[i].cfd = m_workqueue'[j].cfd
        PROVE  i = j
    BY <1>7, <2>3, <2>4 DEF OncePending, IsRegister
  <2>5. ASSUME NEW w \in Inserting
        PROVE  /\ \E d \in Conns : Brings(w, d)'
               /\ \A i \in DOMAIN m_workqueue' :
                    IsRegister(i)' => m_workqueue'[i].cfd # local'[w].cfd
    <3>1. PICK d \in Conns : Brings(w, d)
      BY DEF OncePending
    <3>2. Brings(w, d)'
      BY <1>5, <1>9, <3>1 DEF Brings, Waits
    <3>3. local[w].cfd # r.cfd
      BY <1>3, <1>11, <3>1 DEF Brings
    <3> QED
      BY <1>5, <1>7, <3>2, <3>3 DEF OncePending, IsRegister
  <2> QED
    BY <1>5, <1>12, <2>1, <2>2, <2>4, <2>5 DEF OncePending
<1>14. MemberFds' = MemberFds /\ Registered' = Registered /\ Dead' = {}
  BY <1>1, <1>5 DEF MemberFds, Registered, Dead, SameBooks, Undisturbed
<1>15. Registering' /\ Iterating' /\ Leaving' /\ Undisturbed'
  BY <1>1, <1>5, <1>14 DEF Registering, Iterating, Leaving, Mourning, Undisturbed, SameBooks,
                           isExisted
<1>16. Alone'
  <2>1. regime.oneAtATime =>
          unread' = {} /\ NoRegister /\ \A w \in Workers : pc'[w] = "idle"
    BY <1>1, <1>5 DEF Alone
  <2>2. regime.oneAtATime =>
          \A i, j \in DOMAIN m_workqueue' : IsRegister(i)' /\ IsRegister(j)' => i = j
    BY <1>7, <2>1 DEF NoRegister, IsRegister
  <2> QED
    BY <1>5, <2>1, <2>2 DEF Alone, SameBooks
<1> QED
  BY <1>6, <1>8, <1>5, <1>13, <1>15, <1>16

(* A worker takes the registration over from the queue. *)
LEMMA TakeRegisterKeeps ==
  ASSUME Consistent, NEW w \in Workers, TakeRegister(w)
  PROVE  Consistent'
<1> USE DEF Consistent, Steps, Books
<1> DEFINE r == m_workqueue[1]
           l == [NoLocal EXCEPT !.cfd = r.cfd, !.addr = r.addr]
<1>1. w \in Threads /\ w # "loop"
  BY ValuesAssumption DEF Threads
<1>2. /\ m_workqueue # <<>> /\ m_workqueue' = Tail(m_workqueue)
      /\ Head(m_workqueue).type = "REGISTER"
      /\ pc[w] = "idle"
  BY DEF TakeRegister, On
<1>3. /\ m_workqueue' \in Seq(Requests) /\ Len(m_workqueue') <= MaxRequests
      /\ 1 \in DOMAIN m_workqueue /\ Head(m_workqueue) = r /\ IsRegister(1)
      /\ \A i \in DOMAIN m_workqueue' :
              i + 1 \in DOMAIN m_workqueue /\ m_workqueue'[i] = m_workqueue[i + 1]
              /\ i \in Nat \ {0}
  BY <1>2, Dequeued DEF IsRegister
<1>4. PICK c \in Conns : Waits(c, r)
  BY <1>3 DEF OncePending
<1>6. local' = [local EXCEPT ![w] = l] /\ pc' = [pc EXCEPT ![w] = "reg_addr"]
  BY <1>3 DEF TakeRegister, Goto
<1>7. DOMAIN l = Fields /\ l.cfd = r.cfd /\ l.addr = r.addr
  BY DEF NoLocal, Fields
<1>8. SameBooks /\ UNCHANGED <<unread, masterHash>> /\ NoCrash'
  BY DEF TakeRegister, SameBooks, outside, registry, sent, NoCrash
<1> HIDE DEF r, l
<1>9. /\ local'[w] = l /\ pc'[w] = "reg_addr" /\ pc' \in [Threads -> Labels]
      /\ \A u \in Threads \ {w} : pc'[u] = pc[u] /\ local'[u] = local[u]
  BY <1>1, <1>6 DEF TypeOK, Shape, Labels
<1>10. Books'
  BY <1>8, BooksKept
<1>11. TypeOK'
  BY <1>3, <1>8, <1>9 DEF TypeOK, SameBooks, NoCrash
<1>12. Shape'
  BY <1>1, <1>3, <1>6, <1>7, <1>9 DEF Shape, Requests, Fds
<1>13. Inserting' = Inserting \cup {w} /\ w \notin Inserting
  BY <1>1, <1>2, <1>9 DEF Inserting, Threads, Before
<1>14. \A d, q : Waits(d, q) => Waits(d, q)'
  BY <1>8 DEF Waits, SameBooks, isExisted
<1>15. \A v \in Inserting : /\ v \in Threads /\ v # w /\ local[v].cfd # l.cfd
                            /\ local'[v] = local[v] /\ pc'[v] = pc[v]
  BY <1>3, <1>7, <1>9, <1>13 DEF Inserting, Threads, OncePending, r
<1>16. OncePending'
  <2>1. \A d \in unread' : ~isExisted(d)'
    BY <1>8 DEF OncePending, SameBooks, isExisted
  <2>2. ASSUME NEW i \in DOMAIN m_workqueue', IsRegister(i)'
        PROVE  \E d \in Conns : Waits(d, m_workqueue[i])'
    <3>1. PICK d \in Conns : Waits(d, m_workqueue[i + 1])
      BY <1>3, <2>2 DEF OncePending, IsRegister
    <3> QED
      BY <1>3, <1>14, <3>1 DEF Waits
  <2>3. ASSUME NEW i \in DOMAIN m_workqueue', NEW j \in DOMAIN m_workqueue',
               IsRegister(i)', IsRegister(j)', m_workqueue'[i].cfd = m_workqueue'[j].cfd
        PROVE  i = j
    <3>1. i + 1 = j + 1
      BY <1>3, <2>3 DEF OncePending, IsRegister
    <3> QED
      BY <1>3, <3>1
  <2>4. ASSUME NEW v \in Inserting'
        PROVE  /\ \E d \in Conns : Brings(v, d)'
               /\ \A i \in DOMAIN m_workqueue' :
                    IsRegister(i)' => m_workqueue'[i].cfd # local'[v].cfd
    <3>1. CASE v = w
      <4>1. Waits(c, l)
        BY <1>4, <1>7 DEF Waits
      <4>2. Brings(v, c)'
        BY <1>7, <1>9, <1>14, <3>1, <4>1 DEF Brings, Waits
      <4>3. ASSUME NEW i \in DOMAIN m_workqueue', IsRegister(i)'
            PROVE  m_workqueue'[i].cfd # r.cfd
        <5>1. i + 1 # 1 /\ IsRegister(i + 1)
          BY <1>3, <4>3 DEF IsRegister
        <5> QED
          BY <1>3, <5>1 DEF OncePending, r
      <4> QED
        BY <1>4, <1>7, <1>9, <3>1, <4>2, <4>3 DEF Waits
    <3>2. CASE v # w
      <4>1. v \in Inserting /\ local'[v] = local[v] /\ pc'[v] = pc[v]
        BY <1>13, <1>15, <3>2
      <4>2. \E d \in Conns : Brings(v, d)'
        BY <1>14, <4>1 DEF OncePending, Brings, Waits
      <4>3. \A i \in DOMAIN m_workqueue : IsRegister(i) => m_workqueue[i].cfd # local[v].cfd
        BY <4>1 DEF OncePending
      <4> QED
        BY <1>3, <4>1, <4>2, <4>3 DEF IsRegister
    <3> QED
      BY <3>1, <3>2
  <2>5. ASSUME NEW u \in Inserting', NEW v \in Inserting', local'[u].cfd = local'[v].cfd
        PROVE  u = v
    BY <1>9, <1>13, <1>15, <2>5 DEF OncePending
  <2> QED
    BY <2>1, <2>2, <2>3, <2>4, <2>5 DEF OncePending
<1>17. /\ MemberFds' = MemberFds /\ Registered' = Registered
       /\ Dead' = {} /\ Dead = {} /\ pc["loop"] = "idle" /\ pc'["loop"] = "idle"
  <2>1. Dead = {} /\ pc["loop"] = "idle"
    BY <1>3 DEF Undisturbed, NoRegister
  <2> QED
    BY <1>1, <1>8, <1>9, <2>1 DEF MemberFds, Registered, Dead, SameBooks, Threads
<1>18. Registering'
  BY <1>1, <1>8, <1>9, <1>17 DEF Registering, SameBooks, isExisted, Threads, After, Before
<1>19. Iterating' /\ Leaving' /\ Undisturbed'
  BY <1>8, <1>9, <1>17 DEF Iterating, Leaving, Mourning, Undisturbed, SameBooks
<1>20. Alone'
  <2>1. regime.oneAtATime =>
           /\ unread = {}
           /\ \A v \in Workers : pc[v] = "idle"
           /\ \A i, j \in DOMAIN m_workqueue : IsRegister(i) /\ IsRegister(j) => i = j
    BY <1>3 DEF Alone, NoRegister
  <2>2. regime.oneAtATime => NoRegister'
    <3> SUFFICES ASSUME regime.oneAtATime, NEW i \in DOMAIN m_workqueue', IsRegister(i)'
                 PROVE  FALSE
      BY DEF NoRegister
    <3>1. i + 1 # 1 /\ IsRegister(i + 1)
      BY <1>3 DEF IsRegister
    <3> QED
      BY <1>3, <2>1, <3>1
  <2>3. \A v \in Workers : v # w => pc'[v] = pc[v]
    BY <1>9 DEF Threads
  <2> QED
    BY <1>8, <2>1, <2>2, <2>3 DEF Alone, SameBooks, NoRegister
<1> QED
  BY <1>8, <1>10, <1>11, <1>12, <1>16, <1>18, <1>19, <1>20

(* What Register() reads before it inserts changes no container. *)
LEMMA EarlyMoves ==
  ASSUME Consistent, SameBooks,
         UNCHANGED <<unread, m_workqueue, masterHash, told, crashed>>,
         NEW w \in Workers, pc[w] \in Before, pc'[w] \in Before \ {"reg_addr"}, Moves(w),
         DOMAIN local'[w] = Fields, local'[w].cfd = local[w].cfd,
         local'[w].addr = local[w].addr,
         NEW c \in Conns, Brings(w, c), local'[w].newAddr = c
  PROVE  Consistent'
<1> USE DEF Consistent, Steps
<1>1. w \in Threads /\ w # "loop" /\ w \in Inserting /\ pc[w] # "idle"
  BY ValuesAssumption DEF Threads, Inserting, Before
<1>2. /\ \A v \in Workers \ {w} : pc'[v] = pc[v] /\ local'[v] = local[v]
      /\ pc'["loop"] = pc["loop"] /\ local'["loop"] = local["loop"]
  BY <1>1 DEF Moves, Threads
<1>3. Books'
  BY BooksKept
<1>4. TypeOK' /\ NoCrash'
  BY DEF TypeOK, NoCrash, SameBooks, Moves
<1>5. Shape'
  BY DEF Shape, Moves, Requests, Fds
<1>6. Inserting' = Inserting
  BY <1>1, <1>2 DEF Inserting
<1>7. \A d, q : Waits(d, q) => Waits(d, q)'
  BY DEF Waits, SameBooks, isExisted
<1>8. Brings(w, c)'
  BY <1>7 DEF Brings, Waits
<1>9. OncePending'
  <2>1. ASSUME NEW v \in Inserting PROVE \E d \in Conns : Brings(v, d)'
    <3>1. CASE v = w
      BY <1>8, <3>1
    <3>2. CASE v # w
      <4>1. pc'[v] = pc[v] /\ local'[v] = local[v]
        BY <1>2, <3>2 DEF Inserting
      <4>2. PICK d \in Conns : Brings(v, d)
        BY DEF OncePending
      <4> QED
        BY <1>7, <4>1, <4>2 DEF Brings, Waits
    <3> QED
      BY <3>1, <3>2
  <2>2. \A v \in Inserting : local'[v].cfd = local[v].cfd
    BY <1>2 DEF Inserting
  <2>3. \A i \in DOMAIN m_workqueue :
          IsRegister(i) => \E d \in Conns : Waits(d, m_workqueue[i])'
    BY <1>7 DEF OncePending, Waits
  <2> QED
    BY <1>6, <2>1, <2>2, <2>3 DEF OncePending, IsRegister, SameBooks, isExisted
<1>10. MemberFds' = MemberFds /\ Registered' = Registered
  BY DEF MemberFds, Registered, SameBooks
<1>11. Registering'
  BY <1>2, <1>10 DEF Registering, SameBooks, isExisted, Before, After
<1>12. Iterating'
  <2>1. \A t \in Threads : pc'[t] = "uh_send" => pc[t] = "uh_send" /\ local'[t] = local[t]
    BY DEF Moves, Before
  <2> QED
    BY <1>10, <2>1 DEF Iterating
<1>13. Dead = {} /\ Dead' = {} /\ pc["loop"] = "idle" /\ pc'["loop"] = "idle"
  <2>1. Dead = {} /\ pc["loop"] = "idle"
    BY <1>1 DEF Undisturbed
  <2> QED
    BY <1>2, <2>1 DEF Dead, SameBooks
<1>14. Leaving' /\ Undisturbed'
  BY <1>13 DEF Leaving, Mourning, Undisturbed
<1>15. Alone'
  <2>1. \A v \in Workers : pc'[v] # "idle" => pc[v] # "idle"
    BY <1>1, <1>2
  <2>2. regime.oneAtATime => unread = {} /\ NoRegister
    BY <1>1 DEF Alone
  <2> QED
    BY <2>1, <2>2 DEF Alone, SameBooks, NoRegister, IsRegister
<1> QED
  BY <1>3, <1>4, <1>5, <1>9, <1>11, <1>12, <1>14, <1>15

(* connectedMap[] of the request's descriptor is the server that sent it: *)
(* the descriptor is still its own.                                        *)
LEMMA ReadAddrKeeps ==
  ASSUME Consistent, NEW w \in Workers, ReadAddr(w)
  PROVE  Consistent'
<1> USE DEF Consistent, Steps, Books
<1>1. /\ w \in Threads /\ pc[w] = "reg_addr" /\ pc' = [pc EXCEPT ![w] = "reg_copy"]
      /\ TypeOK /\ Shape
  BY DEF Threads, ReadAddr, On, Goto
<1>2. PICK c \in Conns : Brings(w, c)
  BY <1>1 DEF OncePending, Inserting, Before
<1>3. /\ ReadConnected(local[w].cfd) = c
      /\ InsertConnected(local[w].cfd) => UNCHANGED connectedMap
  BY <1>2, ConnectedOf DEF Brings, Waits
<1> DEFINE l == [local[w] EXCEPT !.newAddr = c]
<1>4. local' = [local EXCEPT ![w] = l]
  BY <1>3 DEF ReadAddr
<1>5. SameBooks /\ UNCHANGED <<unread, m_workqueue, masterHash, told, crashed>>
  BY <1>3 DEF ReadAddr, SameBooks, outside, sent
<1>6. DOMAIN l = Fields /\ l.newAddr = c /\ l.cfd = local[w].cfd /\ l.addr = local[w].addr
  BY <1>1 DEF Shape, Fields
<1> HIDE DEF l
<1>7. local'[w] = l /\ pc'[w] = "reg_copy" /\ Moves(w)
  BY <1>1, <1>4 DEF Moves, Shape, TypeOK, Labels
<1> QED
  BY <1>1, <1>2, <1>5, <1>6, <1>7, EarlyMoves DEF Before

(* The descriptors to notify are another local variable. *)
LEMMA CopyRegistedKeeps ==
  ASSUME Consistent, NEW w \in Workers, CopyRegisted(w)
  PROVE  Consistent'
<1> USE DEF Consistent, Steps, Books
<1>1. /\ w \in Threads /\ pc[w] = "reg_copy" /\ pc' = [pc EXCEPT ![w] = "reg_insert"]
      /\ TypeOK /\ Shape
  BY DEF Threads, CopyRegisted, On, Goto
<1>2. PICK c \in Conns : Brings(w, c)
  BY <1>1 DEF OncePending, Inserting, Before
<1> DEFINE l == [local[w] EXCEPT !.notity = {registedMap[d] : d \in Names} \ {Absent}]
<1>3. local' = [local EXCEPT ![w] = l]
  BY DEF CopyRegisted
<1>4. SameBooks /\ UNCHANGED <<unread, m_workqueue, masterHash, told, crashed>>
  BY DEF CopyRegisted, SameBooks, outside, registry, sent
<1>5. /\ DOMAIN l = Fields /\ l.newAddr = local[w].newAddr
      /\ l.cfd = local[w].cfd /\ l.addr = local[w].addr /\ local[w].newAddr = c
  BY <1>1, <1>2 DEF Shape, Fields, Brings
<1> HIDE DEF l
<1>6. local'[w] = l /\ pc'[w] = "reg_insert" /\ Moves(w)
  BY <1>1, <1>3 DEF Moves, Shape, TypeOK, Labels
<1> QED
  BY <1>1, <1>2, <1>4, <1>5, <1>6, EarlyMoves DEF Before

(* add() of a name that is not in the list *)
LEMMA AppendNew ==
  ASSUME NEW S, NEW l \in Seq(S), NEW n \in S, n \notin Range(l), IsInjective(l)
  PROVE  /\ Append(l, n) \in Seq(S) /\ IsInjective(Append(l, n))
         /\ Range(Append(l, n)) = Range(l) \cup {n}
         /\ Len(Append(l, n)) = Len(l) + 1 /\ Append(l, n)[Len(l) + 1] = n
         /\ \A i \in DOMAIN l : Append(l, n)[i] = l[i]
<1> DEFINE m == Append(l, n)
<1>1. /\ m \in Seq(S) /\ Len(m) = Len(l) + 1 /\ m[Len(l) + 1] = n
      /\ \A i \in DOMAIN l : m[i] = l[i]
      /\ DOMAIN m = DOMAIN l \cup {Len(l) + 1} /\ Len(l) + 1 \notin DOMAIN l
  OBVIOUS
<1> HIDE DEF m
<1>2. IsInjective(m)
  BY <1>1 DEF IsInjective, Range
<1>3. Range(m) = Range(l) \cup {n}
  BY <1>1 DEF Range
<1> QED
  BY <1>1, <1>2, <1>3 DEF m

(* del() of a name *)
LEMMA RemoveOne ==
  ASSUME NEW S, NEW l \in Seq(S), NEW k \in DOMAIN l, IsInjective(l)
  PROVE  /\ RemoveAt(l, k) \in Seq(S) /\ IsInjective(RemoveAt(l, k))
         /\ Range(RemoveAt(l, k)) = Range(l) \ {l[k]}
         /\ Len(RemoveAt(l, k)) = Len(l) - 1
         /\ \A i \in DOMAIN RemoveAt(l, k) :
              RemoveAt(l, k)[i] = IF i < k THEN l[i] ELSE l[i + 1]
<1> DEFINE m == RemoveAt(l, k)
           s == SubSeq(l, 1, k - 1)
           t == SubSeq(l, k + 1, Len(l))
<1>1. /\ m \in Seq(S) /\ Len(m) = Len(l) - 1 /\ DOMAIN m = 1..Len(l) - 1
      /\ \A i \in DOMAIN m : m[i] = IF i < k THEN l[i] ELSE l[i + 1]
  <2>1. s \in Seq(S) /\ Len(s) = k - 1 /\ \A i \in 1..k - 1 : s[i] = l[i]
    OBVIOUS
  <2>2. t \in Seq(S) /\ Len(t) = Len(l) - k /\ \A i \in 1..Len(l) - k : t[i] = l[k + i]
    OBVIOUS
  <2>3. m = s \o t
    BY DEF RemoveAt
  <2> HIDE DEF s, t, m
  <2>4. /\ m \in Seq(S) /\ Len(m) = Len(s) + Len(t)
        /\ \A i \in 1..Len(s) + Len(t) : m[i] = IF i <= Len(s) THEN s[i] ELSE t[i - Len(s)]
    BY <2>1, <2>2, <2>3, ConcatProperties
  <2>5. k \in 1..Len(l) /\ Len(l) \in Nat /\ Len(s) + Len(t) = Len(l) - 1
    BY <2>1, <2>2
  <2>6. DOMAIN m = 1..Len(l) - 1
    BY <2>4, <2>5
  <2>7. ASSUME NEW i \in 1..Len(l) - 1 PROVE m[i] = IF i < k THEN l[i] ELSE l[i + 1]
    <3>1. m[i] = IF i <= Len(s) THEN s[i] ELSE t[i - Len(s)]
      BY <2>4, <2>5
    <3>2. CASE i < k
      BY <2>1, <2>5, <3>1, <3>2
    <3>3. CASE ~(i < k)
      <4>1. PICK n \in Nat : n = Len(l)
        BY <2>5
      <4>2. k \in 1..n /\ i \in 1..n - 1 /\ ~(i < k)
        BY <2>5, <3>3, <4>1
      <4>3. i - (k - 1) \in 1..n - k /\ k + (i - (k - 1)) = i + 1 /\ ~(i <= k - 1)
        BY <4>2
      <4> QED
        BY <2>1, <2>2, <3>1, <3>3, <4>1, <4>3
    <3> QED
      BY <3>2, <3>3
  <2> QED
    BY <2>4, <2>5, <2>6, <2>7
<1>2. DOMAIN l = 1..Len(l) /\ Len(l) \in Nat /\ k \in 1..Len(l)
  OBVIOUS
<1> HIDE DEF m
<1>3. IsInjective(m)
  <2> SUFFICES ASSUME NEW i \in DOMAIN m, NEW j \in DOMAIN m, m[i] = m[j] PROVE i = j
    BY DEF IsInjective
  <2>1. (IF i < k THEN i ELSE i + 1) = (IF j < k THEN j ELSE j + 1)
    BY <1>1, <1>2 DEF IsInjective
  <2> QED
    BY <1>1, <1>2, <2>1
<1>4. Range(m) = Range(l) \ {l[k]}
  <2>1. ASSUME NEW i \in DOMAIN m PROVE m[i] \in Range(l) \ {l[k]}
    <3>1. PICK j \in DOMAIN l : m[i] = l[j] /\ j # k
      BY <1>1, <1>2
    <3> QED
      BY <3>1 DEF Range, IsInjective
  <2>2. ASSUME NEW j \in DOMAIN l, j # k PROVE l[j] \in Range(m)
    <3>1. PICK i \in DOMAIN m : i = IF j < k THEN j ELSE j - 1
      BY <1>1, <1>2, <2>2
    <3>2. m[i] = l[j]
      BY <1>1, <1>2, <2>2, <3>1
    <3> QED
      BY <3>2 DEF Range
  <2> QED
    BY <2>1, <2>2 DEF Range
<1> QED
  BY <1>1, <1>3, <1>4 DEF m

(* The four containers get the new server in one step. *)
LEMMA InsertKeeps ==
  ASSUME Consistent, NEW w \in Workers, Insert(w)
  PROVE  Consistent'
<1> USE DEF Consistent, Steps, Books
<1>1. w \in Threads /\ w # "loop" /\ w \in Inserting /\ pc[w] = "reg_insert"
  BY ValuesAssumption DEF Threads, Insert, InsertAs, On, Inserting, Before
<1>2. PICK n, f, a : /\ n = local[w].newAddr /\ f = local[w].cfd /\ a = local[w].addr
  OBVIOUS
<1>3. /\ n \in Conns /\ n \notin unread /\ ~isExisted(n)
      /\ fdOf[n] = f /\ f # Absent /\ Host[n] = a
  BY <1>1, <1>2 DEF OncePending, Brings, Waits
<1>4. /\ f \in Fds \ {NoFd} /\ connectedMap[f] = n /\ n # NoConn /\ n \in Names
      /\ registedMap[n] = Absent /\ listenMap[f] = Nobody /\ a \in Servers
  BY <1>3, ConnectedOf, MasterAssumption DEF Registry, isExisted, Names
<1>5. /\ registedMap' = [registedMap EXCEPT ![n] = f] /\ listenMap' = [listenMap EXCEPT ![f] = a]
      /\ connectList' = add(n) /\ Goto(w, "reg_hash")
      /\ UNCHANGED <<regime, peer, unread, fdOf, connectedMap, masterHash, m_workqueue, local,
                     told, crashed>>
  BY <1>2, <1>4 DEF Insert, InsertAs, outside, sent
<1>6. /\ registedMap \in [Names -> Fds \cup {Absent}]
      /\ listenMap \in [Fds -> Servers \cup {"", Garbage, Nobody}]
      /\ connectList.list \in Seq(Names) /\ connectList.map_ \subseteq Names
      /\ Range(connectList.list) = connectList.map_ /\ IsInjective(connectList.list)
  BY DEF TypeOK, Registry
<1>7. /\ connectList'.map_ = connectList.map_ \cup {n}
      /\ connectList'.list \in Seq(Names) /\ IsInjective(connectList'.list)
      /\ Range(connectList'.list) = connectList'.map_
  <2>1. /\ connectList'.list = Append(connectList.list, n)
        /\ connectList'.map_ = connectList.map_ \cup {n}
    <3>1. connectList' = [list |-> Append(connectList.list, n),
                          map_ |-> connectList.map_ \cup {n}]
      BY <1>5 DEF add
    <3> QED
      BY <3>1
  <2>2. PICK l \in Seq(Names) : l = connectList.list
    BY <1>6
  <2>3. IsInjective(l) /\ n \in Names /\ n \notin Range(l)
    BY <1>3, <1>4, <1>6, <2>2 DEF isExisted
  <2>4. /\ Append(l, n) \in Seq(Names) /\ IsInjective(Append(l, n))
        /\ Range(Append(l, n)) = Range(l) \cup {n}
    BY <2>3, AppendNew
  <2> QED
    BY <1>6, <2>1, <2>2, <2>4
<1>8. /\ Moves(w) /\ pc'[w] = "reg_hash"
      /\ \A u \in Threads \ {w} : pc'[u] = pc[u]
  BY <1>1, <1>5, GotoMoves DEF Labels, Shape, Goto, TypeOK
<1>9. TypeOK'
  <2>1. registedMap' \in [Names -> Fds \cup {Absent}]
    BY <1>4, <1>5, <1>6
  <2>2. listenMap' \in [Fds -> Servers \cup {"", Garbage, Nobody}]
    BY <1>4, <1>5, <1>6
  <2>3. connectList'.map_ \subseteq Names
    BY <1>4, <1>6, <1>7
  <2> QED
    BY <1>5, <1>7, <1>8, <2>1, <2>2, <2>3 DEF TypeOK, Moves
<1>10. Shape' /\ NoCrash' /\ Descriptors'
  BY <1>5 DEF Shape, NoCrash, Descriptors, Requests, Fds
<1>11. \A c : isExisted(c)' <=> c = n \/ isExisted(c)
  BY <1>7 DEF isExisted
<1>12. Registry'
  <2>1. \A c \in connectList'.map_ : c \in Conns /\ fdOf'[c] # Absent
    BY <1>3, <1>5, <1>7 DEF Registry
  <2>2. \A c \in Names : registedMap'[c] = IF isExisted(c)' THEN fdOf'[c] ELSE Absent
    BY <1>3, <1>4, <1>5, <1>6, <1>11 DEF Registry
  <2>3. \A g \in Fds : connectedMap[g] = n <=> g = f
    BY <1>3, <1>4 DEF Descriptors
  <2>4. \A g \in Fds : listenMap'[g] = IF isExisted(connectedMap[g])'
                                         THEN Host[connectedMap'[g]] ELSE Nobody
    BY <1>3, <1>4, <1>5, <1>6, <1>11, <2>3 DEF Registry
  <2> QED
    BY <1>5, <1>7, <2>1, <2>2, <2>4 DEF Registry, isExisted
<1>13. Inserting' = Inserting \ {w}
  BY <1>1, <1>8 DEF Inserting, Before, Threads
<1>14. \A d, q : Waits(d, q) /\ d # n => Waits(d, q)'
  BY <1>5, <1>11 DEF Waits
<1>15. OncePending'
  <2>1. \A c \in unread' : ~isExisted(c)'
    BY <1>3, <1>5, <1>11 DEF OncePending
  <2>2. ASSUME NEW i \in DOMAIN m_workqueue, IsRegister(i)
        PROVE  \E d \in Conns : Waits(d, m_workqueue[i])'
    <3>1. PICK d \in Conns : Waits(d, m_workqueue[i])
      BY <2>2 DEF OncePending
    <3>2. d # n
      BY <1>1, <1>2, <1>3, <2>2, <3>1 DEF OncePending, Waits
    <3> QED
      BY <1>5, <1>14, <3>1, <3>2 DEF Waits
  <2>3. ASSUME NEW v \in Inserting \ {w}
        PROVE  \E d \in Conns : Brings(v, d)'
    <3>1. PICK d \in Conns : Brings(v, d)
      BY DEF OncePending
    <3>2. d # n
      BY <1>1, <1>2, <1>3, <3>1 DEF OncePending, Brings, Waits
    <3>3. pc'[v] = pc[v]
      BY <1>8 DEF Inserting, Threads
    <3> QED
      BY <1>5, <1>14, <3>1, <3>2, <3>3 DEF Brings, Waits
  <2> QED
    BY <1>5, <1>13, <2>1, <2>2, <2>3 DEF OncePending, IsRegister
<1>16. MemberFds \subseteq MemberFds' /\ Registered \subseteq Registered'
  <2>1. \A g \in Fds : listenMap'[g] # Nobody \/ listenMap'[g] = listenMap[g]
    BY <1>4, <1>5, <1>6, ValuesAssumption
  <2> QED
    BY <1>5, <1>7, <2>1 DEF MemberFds, Registered
<1>17. Registering'
  <2> SUFFICES ASSUME NEW v \in Workers
               PROVE  /\ pc'[v] \in After \cup Before \cup {"idle"}
                      /\ pc'[v] \in After => /\ isExisted(local[v].newAddr)'
                                             /\ local'[v].cfd = fdOf[local'[v].newAddr]
                                             /\ local'[v].addr = Host[local'[v].newAddr]
                      /\ pc'[v] = "reg_fds" =>
                            isExisted(local[v].prev)' /\ isExisted(local[v].next)'
                      /\ pc'[v] \in {"reg_prev", "reg_self"} =>
                            local'[v].prev_fd \in MemberFds' /\ local'[v].next_fd \in MemberFds'
    BY <1>5 DEF Registering
  <2>1. CASE v = w
    BY <1>2, <1>3, <1>5, <1>8, <1>11, <2>1 DEF After
  <2>2. CASE v # w
    <3>1. pc'[v] = pc[v]
      BY <1>8, <2>2 DEF Threads
    <3> QED
      BY <1>5, <1>11, <1>16, <3>1 DEF Registering
  <2> QED
    BY <2>1, <2>2
<1>18. Iterating'
  <2>1. \A t \in Threads : pc'[t] = "uh_send" => pc[t] = "uh_send"
    BY <1>8
  <2> QED
    BY <1>5, <1>16, <2>1 DEF Iterating
<1>19. Dead = {} /\ Dead' = {} /\ pc["loop"] = "idle" /\ pc'["loop"] = "idle"
  <2>1. Dead = {} /\ pc["loop"] = "idle"
    BY <1>1 DEF Undisturbed
  <2> QED
    BY <1>1, <1>5, <1>8, <2>1 DEF Dead, Threads
<1>20. Leaving' /\ Undisturbed'
  BY <1>19 DEF Leaving, Mourning, Undisturbed
<1>21. Alone'
  <2>1. \A v \in Workers : pc'[v] # "idle" => pc[v] # "idle"
    BY <1>1, <1>8 DEF Threads
  <2>2. regime.oneAtATime => unread = {} /\ NoRegister
    BY <1>1 DEF Alone, Inserting
  <2> QED
    BY <1>5, <2>1, <2>2 DEF Alone, NoRegister, IsRegister
<1> QED
  BY <1>9, <1>10, <1>12, <1>15, <1>17, <1>18, <1>20, <1>21

-----------------------------------------------------------------------------
(* A server leaves                                                         *)

(* Until it erases a server that died, the event loop only reads.          *)
LEMMA MourningMoves ==
  ASSUME Consistent, SameBooks,
         UNCHANGED <<unread, m_workqueue, masterHash, told, crashed>>,
         pc["loop"] \in Mourning \cup {"idle"}, pc'["loop"] \in Mourning, Moves("loop"),
         DOMAIN local'["loop"] = Fields, LeavingAt(pc'["loop"], local'["loop"])
  PROVE  Consistent'
<1> USE DEF Consistent, Steps
<1>1. "loop" \in Threads /\ "loop" \notin Workers /\ Workers \subseteq Threads
  BY ValuesAssumption DEF Threads
<1>2. /\ regime.oneAtATime /\ unread = {} /\ NoRegister
      /\ \A w \in Workers : pc[w] = "idle"
      /\ \A d \in Conns : peer[d] \in {"alive", "dead"} => fdOf[d] # Absent
      /\ \A d, e \in Dead : d = e
  BY DEF Undisturbed, LeavingAt
<1>3. \A w \in Workers : pc'[w] = "idle"
  BY <1>1, <1>2 DEF Moves
<1>4. TypeOK' /\ NoCrash'
  BY DEF TypeOK, NoCrash, SameBooks, Moves
<1>5. Shape'
  BY DEF Shape, Moves, Requests, Fds
<1>6. Books'
  BY BooksKept
<1>7. MemberFds' = MemberFds /\ Dead' = Dead
  BY DEF MemberFds, Dead, SameBooks
<1>8. OncePending'
  BY <1>2, <1>3 DEF OncePending, Inserting, Before, NoRegister, IsRegister
<1>9. Registering' /\ Iterating'
  BY <1>3 DEF Registering, Iterating, Threads, After, Mourning
<1>10. Undisturbed'
  BY <1>2, <1>3, <1>7 DEF Undisturbed, NoRegister, IsRegister, SameBooks
<1>11. Leaving'
  <2>1. LeavingAt(pc["loop"], local["loop"])'
    BY <1>7 DEF LeavingAt, SameBooks, isExisted
  <2> QED
    BY <2>1 DEF Leaving, Mourning
<1>12. Alone'
  BY <1>2, <1>3 DEF Alone, NoRegister, IsRegister
<1> QED
  BY <1>4, <1>5, <1>6, <1>8, <1>9, <1>10, <1>11, <1>12

(* The event loop has seen the end of a registered connection, ...         *)
LEMMA DisconnectKeeps ==
  ASSUME Consistent, NEW c \in Conns, Disconnect(c)
  PROVE  Consistent'
<1> USE DEF Consistent, Steps, Books
<1>1. /\ pc["loop"] = "idle" /\ c \in Dead /\ fdOf[c] # Absent
      /\ "loop" \in Threads /\ TypeOK /\ Shape
  BY DEF Disconnect, LeaveList, EndOfFile, On, Dead, Threads
<1>2. ReadConnected(fdOf[c]) = c
  BY <1>1, ConnectedOf
<1> DEFINE r == [NoLocal EXCEPT !.cfd = fdOf[c], !.newAddr = c]
<1>3. /\ isExisted(c) /\ pc' = [pc EXCEPT !["loop"] = "leave"]
      /\ local' = [local EXCEPT !["loop"] = r]
      /\ SameBooks /\ UNCHANGED <<unread, m_workqueue, masterHash, told, crashed>>
  BY <1>2 DEF Disconnect, LeaveList, Goto, SameBooks, outside, registry, sent
<1>4. DOMAIN r = Fields /\ r.cfd = fdOf[c] /\ r.newAddr = c
  BY DEF NoLocal, Fields
<1> HIDE DEF r
<1>5. local'["loop"] = r /\ pc'["loop"] = "leave" /\ Moves("loop")
  BY <1>1, <1>3 DEF Moves, Shape, TypeOK, Labels
<1>6. LeavingAt("leave", r)
  BY <1>1, <1>3, <1>4 DEF LeavingAt
<1> QED
  BY <1>1, <1>3, <1>4, <1>5, <1>6, MourningMoves DEF Mourning

(* ... asks for its neighbours in the list, ...                            *)
LEMMA LeaveNeighboursKeeps ==
  ASSUME Consistent, LeaveNeighbours
  PROVE  Consistent'
<1> USE DEF Consistent, Steps, Books
<1> DEFINE l == local["loop"]
           r == [l EXCEPT !.prev = getPrev(l.newAddr), !.next = getNext(l.newAddr)]
<1>1. /\ pc["loop"] = "leave" /\ "loop" \in Threads /\ TypeOK /\ Shape
      /\ pc' = [pc EXCEPT !["loop"] = "leave_fds"]
  BY DEF LeaveNeighbours, On, Goto, Threads
<1>2. /\ local' = [local EXCEPT !["loop"] = r]
      /\ SameBooks /\ UNCHANGED <<unread, m_workqueue, masterHash, told, crashed>>
  BY DEF LeaveNeighbours, SameBooks, outside, registry, sent
<1>3. /\ DOMAIN r = Fields /\ r.cfd = l.cfd /\ r.newAddr = l.newAddr
      /\ r.prev = getPrev(l.newAddr) /\ r.next = getNext(l.newAddr)
  BY <1>1 DEF Shape, Fields
<1> HIDE DEF r
<1>4. local'["loop"] = r /\ pc'["loop"] = "leave_fds" /\ Moves("loop")
  BY <1>1, <1>2 DEF Moves, Shape, TypeOK, Labels
<1>5. LeavingAt("leave", l)
  BY <1>1 DEF Leaving, Mourning
<1>6. isExisted(r.prev) /\ isExisted(r.next)
  BY <1>1, <1>3, <1>5, NeighboursAreMembers DEF LeavingAt, isExisted
<1>7. LeavingAt("leave_fds", r)
  BY <1>3, <1>5, <1>6 DEF LeavingAt
<1> QED
  BY <1>1, <1>2, <1>3, <1>4, <1>7, MourningMoves DEF Mourning

(* ... and for their descriptors.                                          *)
LEMMA LeaveFdsKeeps ==
  ASSUME Consistent, LeaveFds
  PROVE  Consistent'
<1> USE DEF Consistent, Steps, Books
<1> DEFINE l == local["loop"]
           r == [l EXCEPT !.prev_fd = fdOf[l.prev], !.next_fd = fdOf[l.next]]
<1>1. /\ pc["loop"] = "leave_fds" /\ "loop" \in Threads /\ TypeOK /\ Shape
      /\ pc' = [pc EXCEPT !["loop"] = "erase"]
  BY DEF LeaveFds, On, Goto, Threads
<1>2. LeavingAt("leave_fds", l)
  BY <1>1 DEF Leaving, Mourning
<1>3. {l.prev, l.next} \in SUBSET connectList.map_
  BY <1>2 DEF LeavingAt, isExisted
<1>4. /\ ReadRegisted(l.prev) = fdOf[l.prev] /\ ReadRegisted(l.next) = fdOf[l.next]
      /\ fdOf[l.prev] \in MemberFds /\ fdOf[l.next] \in MemberFds
      /\ InsertRegisted({l.prev, l.next}) => UNCHANGED registedMap
  BY <1>1, <1>3, RegistedOf
<1>5. /\ local' = [local EXCEPT !["loop"] = r]
      /\ SameBooks /\ UNCHANGED <<unread, m_workqueue, masterHash, told, crashed>>
  BY <1>4 DEF LeaveFds, SameBooks, outside, sent
<1>6. /\ DOMAIN r = Fields /\ r.cfd = l.cfd /\ r.newAddr = l.newAddr
      /\ r.prev_fd = fdOf[l.prev] /\ r.next_fd = fdOf[l.next]
  BY <1>1 DEF Shape, Fields
<1> HIDE DEF r
<1>7. local'["loop"] = r /\ pc'["loop"] = "erase" /\ Moves("loop")
  BY <1>1, <1>5 DEF Moves, Shape, TypeOK, Labels
<1>8. LeavingAt("erase", r)
  BY <1>2, <1>4, <1>6 DEF LeavingAt
<1> QED
  BY <1>1, <1>5, <1>6, <1>7, <1>8, MourningMoves DEF Mourning

(* close() and the block that erases the server from the containers leave  *)
(* the registry of the servers that remain.                                *)
LEMMA EraseKeeps ==
  ASSUME Consistent, Erase
  PROVE  Consistent'
<1> USE DEF Consistent, Steps, Books
<1>1. /\ pc["loop"] = "erase"
      /\ "loop" \in Threads /\ "loop" \notin Workers /\ Workers \subseteq Threads
  BY ValuesAssumption DEF Erase, EraseExcept, On, Threads
<1>2. /\ regime.oneAtATime /\ unread = {} /\ NoRegister
      /\ \A w \in Workers : pc[w] = "idle"
      /\ \A d \in Conns : peer[d] \in {"alive", "dead"} => fdOf[d] # Absent
      /\ \A d, e \in Dead : d = e
  BY <1>1 DEF Undisturbed
<1>3. PICK c, f : c = local["loop"].newAddr /\ f = local["loop"].cfd
  OBVIOUS
<1>4. c \in connectList.map_ /\ c \in Dead /\ c \in Conns /\ fdOf[c] = f
  BY <1>1, <1>3 DEF Leaving, Mourning, LeavingAt, isExisted, Dead
<1>5. f # Absent /\ f \in Fds \ {NoFd} /\ connectedMap[f] = c /\ c \in Names
  BY <1>4, RegisteredAre DEF Registry, Names, Fds, Absent
<1>6. (CHOOSE d \in Conns : fdOf[d] = f) = c
  BY <1>4, <1>5 DEF Descriptors
<1>7. /\ peer' = [peer EXCEPT ![c] = "gone"] /\ fdOf' = [fdOf EXCEPT ![c] = Absent]
      /\ connectedMap' = [connectedMap EXCEPT ![f] = NoConn]
      /\ registedMap' = [registedMap EXCEPT ![c] = Absent]
      /\ listenMap' = [listenMap EXCEPT ![f] = Nobody]
      /\ connectList' = del(c) /\ Goto("loop", "uh_build")
      /\ UNCHANGED <<regime, unread, masterHash, m_workqueue, local, told, crashed>>
  BY <1>3, <1>6 DEF Erase, EraseExcept, sent
<1>8. PICK l \in Seq(Names) : l = connectList.list /\ IsInjective(l) /\ Range(l) = connectList.map_
  BY DEF TypeOK, Registry
<1>9. PICK k \in DOMAIN l : l[k] = c
  BY <1>4, <1>8 DEF Range
<1>10. node(c) = k
  BY <1>8, <1>9, NodeOf DEF node
<1>11. /\ connectList'.list \in Seq(Names) /\ IsInjective(connectList'.list)
       /\ Range(connectList'.list) = connectList'.map_
       /\ connectList'.map_ = connectList.map_ \ {c}
  <2>1. connectList' = [list |-> RemoveAt(l, k), map_ |-> connectList.map_ \ {c}]
    BY <1>7, <1>8, <1>10 DEF del
  <2>2. /\ RemoveAt(l, k) \in Seq(Names) /\ IsInjective(RemoveAt(l, k))
        /\ Range(RemoveAt(l, k)) = Range(l) \ {l[k]}
    BY <1>8, <1>9, RemoveOne
  <2> QED
    BY <1>8, <1>9, <2>1, <2>2
<1>12. /\ peer \in [Conns -> {"none", "alive", "dead", "gone"}]
       /\ fdOf \in [Conns -> (Fds \ {NoFd}) \cup {Absent}]
       /\ connectedMap \in [Fds -> Names \cup {NoConn}]
       /\ registedMap \in [Names -> Fds \cup {Absent}]
       /\ listenMap \in [Fds -> Servers \cup {"", Garbage, Nobody}]
       /\ connectList.map_ \subseteq Names
  BY DEF TypeOK
<1>13. \A d \in Conns \ {c} : fdOf[d] # f
  BY <1>4, <1>5 DEF Descriptors
<1>14. /\ Moves("loop") /\ pc'["loop"] = "uh_build"
       /\ \A w \in Workers : pc'[w] = "idle"
  BY <1>1, <1>2, <1>7 DEF Goto, Moves, Shape, TypeOK, Labels
<1>15. TypeOK'
  <2>1. peer' \in [Conns -> {"none", "alive", "dead", "gone"}]
        /\ fdOf' \in [Conns -> (Fds \ {NoFd}) \cup {Absent}]
    BY <1>4, <1>7, <1>12
  <2>2. /\ connectedMap' \in [Fds -> Names \cup {NoConn}]
        /\ registedMap' \in [Names -> Fds \cup {Absent}]
        /\ listenMap' \in [Fds -> Servers \cup {"", Garbage, Nobody}]
    BY <1>5, <1>7, <1>12
  <2> QED
    BY <1>7, <1>11, <1>12, <1>14, <2>1, <2>2 DEF TypeOK, Moves
<1>16. Shape' /\ NoCrash'
  BY <1>7 DEF Shape, NoCrash, Requests, Fds
<1>17. Dead' = {} /\ \A d \in Conns \ {c} : peer'[d] = peer[d] /\ fdOf'[d] = fdOf[d]
  BY <1>2, <1>4, <1>7, <1>12 DEF Dead
<1>18. peer'[c] = "gone" /\ fdOf'[c] = Absent
  BY <1>4, <1>7, <1>12
<1>19. Descriptors'
  <2>1. \A g \in Fds : connectedMap'[g] = IF g = f THEN NoConn ELSE connectedMap[g]
    BY <1>5, <1>7, <1>12
  <2>2. /\ \A d, e \in Conns : fdOf'[d] = fdOf'[e] /\ fdOf'[d] # Absent => d = e
        /\ \A d \in Conns : fdOf'[d] # Absent => peer'[d] \in {"alive", "dead"}
    BY <1>17, <1>18 DEF Descriptors
  <2>3. \A g \in Fds : connectedMap'[g] \in Conns \cup {NoConn}
    BY <2>1 DEF Descriptors
  <2>4. ASSUME NEW g \in Fds, NEW d \in Conns
        PROVE  connectedMap'[g] = d <=> fdOf'[d] = g
    <3>1. NoConn \notin Conns /\ g # Absent
      <4>1. Cardinality(Conns) \in Nat
        BY MasterAssumption, FS_CardinalityType
      <4>2. g # Absent
        BY <4>1 DEF Fds, Absent
      <4> QED
        BY <4>2, ValuesAssumption
    <3>2. connectedMap[g] = d <=> fdOf[d] = g
      BY DEF Descriptors
    <3>3. CASE d = c
      BY <1>4, <1>5, <1>18, <2>1, <3>1, <3>2, <3>3
    <3>4. CASE d # c
      BY <1>5, <1>13, <1>17, <2>1, <3>1, <3>2, <3>4
    <3> QED
      BY <3>3, <3>4
  <2> QED
    BY <2>2, <2>3, <2>4 DEF Descriptors
<1>20. Registry'
  <2>1. \A d \in connectList'.map_ : d \in Conns /\ fdOf'[d] # Absent
    BY <1>11, <1>17 DEF Registry
  <2>2. ASSUME NEW d \in Names
        PROVE  registedMap'[d] = IF isExisted(d)' THEN fdOf'[d] ELSE Absent
    <3>1. registedMap[d] = IF isExisted(d) THEN fdOf[d] ELSE Absent
      BY DEF Registry
    <3> QED
      BY <1>7, <1>11, <1>12, <1>17, <3>1 DEF isExisted, Registry
  <2>3. ASSUME NEW g \in Fds
        PROVE  listenMap'[g] = IF isExisted(connectedMap[g])'
                                 THEN Host[connectedMap'[g]] ELSE Nobody
    <3>1. listenMap[g] = IF isExisted(connectedMap[g]) THEN Host[connectedMap[g]] ELSE Nobody
      BY DEF Registry
    <3>2. connectedMap'[g] = IF g = f THEN NoConn ELSE connectedMap[g]
      BY <1>5, <1>7, <1>12
    <3>3. CASE g = f
      <4>1. NoConn \notin connectList'.map_
        BY <2>1, ValuesAssumption
      <4> QED
        BY <1>5, <1>7, <1>12, <3>2, <3>3, <4>1 DEF isExisted
    <3>4. CASE g # f
      <4>1. connectedMap[g] # c
        BY <1>4, <3>4 DEF Descriptors
      <4> QED
        BY <1>7, <1>11, <1>12, <3>1, <3>2, <3>4, <4>1 DEF isExisted
    <3> QED
      BY <3>3, <3>4
  <2> QED
    BY <1>11, <2>1, <2>2, <2>3 DEF Registry
<1>21. OncePending'
  BY <1>2, <1>7, <1>14 DEF OncePending, Inserting, Before, NoRegister, IsRegister
<1>22. Registering' /\ Iterating'
  BY <1>14 DEF Registering, Iterating, Threads, After
<1>23. Undisturbed'
  BY <1>2, <1>7, <1>14, <1>17, <1>18 DEF Undisturbed, NoRegister, IsRegister
<1>24. Leaving'
  <2>1. MemberFds' = MemberFds \ {f}
    <3>1. \A d \in connectList'.map_ : d \in Conns \ {c} /\ fdOf'[d] = fdOf[d] /\ fdOf[d] # f
      BY <1>11, <1>13, <1>17 DEF Registry
    <3>2. \A d \in connectList.map_ : fdOf[d] # f => d \in connectList'.map_
      BY <1>4, <1>11
    <3>3. ASSUME NEW g PROVE g \in MemberFds' <=> g \in MemberFds \ {f}
      <4>1. ASSUME g \in MemberFds' PROVE g \in MemberFds \ {f}
        <5>1. PICK d \in connectList'.map_ : g = fdOf'[d]
          BY <4>1 DEF MemberFds
        <5>2. d \in connectList.map_ /\ g = fdOf[d] /\ g # f
          BY <1>11, <3>1, <5>1
        <5> QED
          BY <5>2 DEF MemberFds
      <4>2. ASSUME g \in MemberFds \ {f} PROVE g \in MemberFds'
        <5>1. PICK d \in connectList.map_ : g = fdOf[d] /\ fdOf[d] # f
          BY <4>2 DEF MemberFds
        <5>2. d \in connectList'.map_ /\ g = fdOf'[d]
          BY <3>1, <3>2, <5>1
        <5> QED
          BY <5>2 DEF MemberFds
      <4> QED
        BY <4>1, <4>2
    <3> QED
      BY <3>3
  <2>2. local["loop"].prev_fd \in MemberFds /\ local["loop"].next_fd \in MemberFds
    BY <1>1 DEF Leaving, Mourning, LeavingAt
  <2> QED
    BY <1>3, <1>7, <1>14, <1>17, <2>1, <2>2 DEF Leaving, Mourning
<1>25. Alone'
  BY <1>2, <1>7, <1>14 DEF Alone, NoRegister, IsRegister
<1> QED
  BY <1>15, <1>16, <1>19, <1>20, <1>21, <1>22, <1>23, <1>24, <1>25

-----------------------------------------------------------------------------
(* The registry                                                            *)

(* No server has connected yet. *)
LEMMA InitConsistent ==
  ASSUME Init
  PROVE  Consistent
<1> USE DEF Init
<1>1. TypeOK
  <2>1. Cardinality(Conns) \in Nat /\ MaxRequests \in Nat
    BY MasterAssumption, FS_CardinalityType
  <2>2. "idle" \in Labels
    BY DEF Labels
  <2>3. /\ connectList.list \in Seq(Names) /\ connectList.map_ \subseteq Names
        /\ Len(m_workqueue) <= MaxRequests
    BY <2>1
  <2> QED
    BY <2>2, <2>3 DEF TypeOK
<1>2. Shape /\ NoCrash
  BY DEF Shape, NoCrash, NoLocal, Fields, Requests
<1>3. Descriptors
  <2>1. Cardinality(Conns) \in Nat
    BY MasterAssumption, FS_CardinalityType
  <2>2. \A f \in Fds : f # Absent
    BY <2>1 DEF Fds, Absent
  <2>3. NoConn \notin Conns
    BY ValuesAssumption
  <2> QED
    BY <2>2, <2>3 DEF Descriptors
<1>4. Registry
  <2>1. IsInjective(connectList.list) /\ Range(connectList.list) = {}
    BY DEF IsInjective, Range
  <2> QED
    BY <2>1 DEF Registry, isExisted
<1>5. Inserting = {} /\ Dead = {} /\ NoRegister /\ pc["loop"] = "idle"
  BY DEF Inserting, Before, Dead, NoRegister, Threads
<1>6. OncePending /\ Registering /\ Iterating
  BY <1>5 DEF OncePending, Registering, Iterating, Threads, After
<1>7. Undisturbed /\ Leaving /\ Alone
  BY <1>5 DEF Undisturbed, Leaving, Mourning, Alone, Threads
<1> QED
  BY <1>1, <1>2, <1>3, <1>4, <1>6, <1>7 DEF Consistent, Books, Steps

(* Commands that are read, and answers to clients, change nothing. *)
LEMMA UnreadKeeps ==
  ASSUME Consistent,
         UNCHANGED <<regime, peer, unread, fdOf, registry, masterHash, m_workqueue, pc, local,
                     told, crashed>>
  PROVE  Consistent'
<1> USE DEF Consistent, Steps, registry
<1>1. TypeOK' /\ Shape' /\ NoCrash'
  BY DEF TypeOK, Shape, NoCrash, Requests, Fds
<1>2. Books'
  BY BooksKept DEF SameBooks
<1>3. OncePending'
  BY DEF OncePending, Brings, Waits, Inserting, IsRegister, isExisted
<1>4. Registering' /\ Iterating' /\ Leaving'
  BY DEF Registering, Iterating, Leaving, LeavingAt, MemberFds, Registered, Dead, isExisted
<1>5. Undisturbed' /\ Alone'
  BY DEF Undisturbed, Alone, NoRegister, IsRegister, Dead
<1> QED
  BY <1>1, <1>2, <1>3, <1>4, <1>5

(* The scenario is chosen once. *)
LEMMA RegimeKept ==
  ASSUME [Next]_vars
  PROVE  UNCHANGED regime
<1>1. CASE \E c \in Conns : Connect(c) \/ Die(c)
  BY <1>1 DEF Connect, Die
<1>2. CASE \E k \in Keys : Client(k)
  BY <1>2 DEF Client, outside
<1>3. CASE Loop
  BY <1>3 DEF Loop, Leave, NewConn, Announce, Disconnect, LeaveList, LeaveNeighbours,
              LeaveFds, Erase, EraseExcept, BuildRing,
              SendRings, SendRecover, SendRebackup, Rebackup, outside
<1>4. ASSUME NEW w \in Workers, Worker(w) PROVE UNCHANGED regime
  BY <1>4 DEF Worker, Register, TakeRegister, ReadAddr, CopyRegisted, Insert, InsertAs, AddToHash,
              BuildRing, SendRings, SendMove, CheckExists, ReadNeighbours, ReadFds, BackupPrev,
              BackupSelf, GetDistribute, outside
<1>5. CASE UNCHANGED vars
  BY <1>5 DEF vars
<1> QED
  BY <1>1, <1>2, <1>3, <1>4, <1>5 DEF Next

(* Every step of the master and of its environment keeps the books. *)
LEMMA NextKeeps ==
  ASSUME Calm, Consistent, [Next]_vars
  PROVE  Consistent'
<1>1. CASE \E c \in Conns : Connect(c) \/ Die(c)
  BY <1>1, ConnectKeeps, DieKeeps
<1>2. CASE \E k \in Keys : Client(k)
  BY <1>2, ClientKeeps
<1>3. CASE Loop
  <2>1. CASE \E c \in Conns : NewConn(c) \/ Announce(c) \/ Disconnect(c)
    BY <2>1, NewConnKeeps, AnnounceKeeps, DisconnectKeeps
  <2>2. CASE Erase \/ BuildRing("loop") \/ SendRings("loop")
    <3>1. "loop" \in Threads
      BY DEF Threads
    <3> QED
      BY <2>2, <3>1, EraseKeeps, BuildRingKeeps, SendRingsKeeps
  <2>3. CASE SendRecover \/ SendRebackup
    BY <2>3, SendRecoverKeeps, SendRebackupKeeps
  <2>4. CASE LeaveNeighbours \/ LeaveFds
    BY <2>4, LeaveNeighboursKeeps, LeaveFdsKeeps
  <2> QED
    BY <1>3, <2>1, <2>2, <2>3, <2>4 DEF Loop, Leave
<1>4. ASSUME NEW w \in Workers, Worker(w) PROVE Consistent'
  <2>1. CASE TakeRegister(w) \/ Insert(w) \/ AddToHash(w)
    BY <2>1, TakeRegisterKeeps, InsertKeeps, AddToHashKeeps
  <2>2. CASE BuildRing(w) \/ SendRings(w)
    <3>1. w \in Threads
      BY DEF Threads
    <3> QED
      BY <2>2, <3>1, BuildRingKeeps, SendRingsKeeps
  <2>3. CASE SendMove(w) \/ CheckExists(w) \/ ReadNeighbours(w)
    BY <2>3, SendMoveKeeps, CheckExistsKeeps, ReadNeighboursKeeps
  <2>4. CASE ReadFds(w) \/ BackupPrev(w) \/ BackupSelf(w)
    BY <2>4, ReadFdsKeeps, BackupPrevKeeps, BackupSelfKeeps
  <2>5. CASE \E k \in Keys : GetDistribute(w, k)
    BY <2>5, GetDistributeKeeps
  <2>6. CASE ReadAddr(w) \/ CopyRegisted(w)
    BY <2>6, ReadAddrKeeps, CopyRegistedKeeps
  <2> QED
    BY <1>4, <2>1, <2>2, <2>3, <2>4, <2>5, <2>6 DEF Worker, Register
<1>5. CASE UNCHANGED vars
  BY <1>5, UnreadKeeps DEF vars, registry
<1> QED
  BY <1>1, <1>2, <1>3, <1>4, <1>5 DEF Next

(* A step of the cluster is one of the master's, or a cache server reads   *)
(* its commands.                                                           *)
LEMMA ClusterSteps ==
  ASSUME [ClusterNext]_cvars
  PROVE  [Next]_vars \/ \E c \in Conns : dealwithMasterMsg(c)
<1>1. CASE \E c \in Conns : NodeConnect(c) \/ NodeDie(c)
  BY <1>1 DEF NodeConnect, NodeDie, Next
<1>2. CASE \E c \in Conns : startListen(c) \/ dealwithMasterMsg(c) \/ RunThread(c)
  BY <1>2 DEF startListen, RunThread
<1>3. CASE UNCHANGED cvars
  BY <1>3 DEF cvars
<1> QED
  BY <1>1, <1>2, <1>3 DEF ClusterNext, Next, Worker

(* The instances the theorems are about: in every scenario servers come    *)
(* and go one at a time, or none dies.                                     *)
Quiet == \A r \in Regimes : r.oneAtATime \/ r.mortal = {}

(* In all of their scenarios the steps are calm. *)
LEMMA QuietIsCalm ==
  ASSUME Quiet, Consistent
  PROVE  Calm
BY DEF Quiet, Calm, Consistent, TypeOK

(* The steps of the cluster keep the books. *)
LEMMA ClusterKeeps ==
  ASSUME Quiet, Consistent, [ClusterNext]_cvars
  PROVE  Consistent'
<1>1. ASSUME NEW c \in Conns, dealwithMasterMsg(c) PROVE Consistent'
  BY <1>1, UnreadKeeps DEF dealwithMasterMsg
<1> QED
  BY <1>1, ClusterSteps, QuietIsCalm, NextKeeps

(* What the invariant says of the properties the runs check *)
LEMMA ConsistentImplies ==
  ASSUME Consistent
  PROVE  RegistryConsistent /\ RegistersRequester
<1> USE DEF Consistent, Books, Steps
<1>1. \A c \in Names : registedMap[c] # Absent <=> isExisted(c)
  BY DEF Registry, isExisted
<1>2. \A c \in Conns : isExisted(c) =>
        registedMap[c] = fdOf[c] /\ connectedMap[fdOf[c]] = c /\ listenMap[fdOf[c]] = Host[c]
  BY RegisteredAre DEF Registry, Names, isExisted
<1>3. \A f \in Registered : isExisted(connectedMap[f])
  BY RegisteredAre DEF isExisted
<1>4. RegistryConsistent
  BY <1>1, <1>2, <1>3 DEF RegistryConsistent, Registry
<1>5. RegistersRequester
  BY DEF RegistersRequester, OncePending, Inserting, Before, Brings, Waits
<1> QED
  BY <1>4, <1>5

(* Registrations by several workers at once, with the event loop that      *)
(* accepts, announces and erases between them, leave four containers that  *)
(* describe the same servers (Register(), dealwithCacheServer()).          *)
THEOREM RegistryIsConsistent ==
  ASSUME Quiet
  PROVE  Spec => []RegistryConsistent
<1>1. Init => Consistent
  BY InitConsistent
<1>2. Consistent /\ [Next]_vars => Consistent'
  BY QuietIsCalm, NextKeeps
<1>3. Consistent => RegistryConsistent
  BY ConsistentImplies
<1> QED
  BY <1>1, <1>2, <1>3, PTL DEF Spec

(* The same when the cache servers execute the commands they are sent. *)
THEOREM ClusterRegistryIsConsistent ==
  ASSUME Quiet
  PROVE  ClusterSpec => []RegistryConsistent
<1>1. ClusterInit => Consistent
  BY InitConsistent DEF ClusterInit
<1>2. Consistent /\ [ClusterNext]_cvars => Consistent'
  BY ClusterKeeps
<1>3. Consistent => RegistryConsistent
  BY ConsistentImplies
<1> QED
  BY <1>1, <1>2, <1>3, PTL DEF ClusterSpec

(* The descriptor of a request is still that of the connection that sent   *)
(* it when Register() looks it up, also when it was another server's.      *)
THEOREM RequesterIsRegistered ==
  ASSUME Quiet
  PROVE  ClusterSpec => []RegistersRequester
<1>1. ClusterInit => Consistent
  BY InitConsistent DEF ClusterInit
<1>2. Consistent /\ [ClusterNext]_cvars => Consistent'
  BY ClusterKeeps
<1>3. Consistent => RegistersRequester
  BY ConsistentImplies
<1> QED
  BY <1>1, <1>2, <1>3, PTL DEF ClusterSpec

-----------------------------------------------------------------------------
(* The rings                                                               *)

(* Where servers come one at a time, the rings are being updated by one    *)
(* thread, or all are of the registered servers.  The thread has told      *)
(* those with a descriptor up to the one it is at.                         *)
Updating == {"reg_hash", "uh_build", "uh_send"}

RingsTold ==
    /\ (\A t \in Threads : pc[t] \notin Updating) =>
         \A c \in connectList.map_ : told[c].ring = LiveHosts
    /\ \A t \in Threads : pc[t] = "uh_send" =>
         /\ local[t].ring = LiveHosts
         /\ \A c \in connectList.map_ : fdOf[c] <= local[t].cur => told[c].ring = LiveHosts

(* There is one such thread at most. *)
LEMMA OneBusy ==
  ASSUME Consistent, regime.oneAtATime, NEW t \in Threads, pc[t] # "idle"
  PROVE  \A u \in Threads \ {t} : pc[u] = "idle"
<1> USE DEF Consistent, Steps
<1>1. CASE t = "loop"
  BY <1>1 DEF Undisturbed, Threads
<1>2. CASE t \in Workers
  <2>1. pc["loop"] = "idle"
    BY <1>2 DEF Undisturbed
  <2>2. \A u \in Workers \ {t} : pc[u] = "idle"
    BY <1>2 DEF Alone
  <2> QED
    BY <2>1, <2>2 DEF Threads
<1> QED
  BY <1>1, <1>2 DEF Threads

(* listenMap has the addresses of the members. *)
LEMMA HostsAre ==
  ASSUME TypeOK, Books
  PROVE  {listenMap[f] : f \in Registered} = LiveHosts
<1>1. ASSUME NEW f \in Registered PROVE listenMap[f] \in LiveHosts
  <2>1. PICK c \in connectList.map_ : f = fdOf[c]
    BY RegisteredAre DEF MemberFds
  <2>2. c \in Conns /\ listenMap[f] = Host[c]
    BY <2>1, RegisteredAre
  <2> QED
    BY <2>2 DEF LiveHosts, isExisted
<1>2. ASSUME NEW c \in Conns, isExisted(c)
      PROVE  \E f \in Registered : Host[c] = listenMap[f]
  <2>1. fdOf[c] \in Registered /\ listenMap[fdOf[c]] = Host[c]
    BY <1>2, RegisteredAre DEF MemberFds, isExisted
  <2> QED
    BY <2>1
<1>3. \A s : s \in LiveHosts <=> \E c \in Conns : isExisted(c) /\ s = Host[c]
  BY DEF LiveHosts
<1> QED
  BY <1>1, <1>2, <1>3

(* A member that a ring is sent to is told it, ...                          *)
LEMMA SendRingTells ==
  ASSUME Consistent, Dead = {}, NEW f, f # Absent, NEW r, SendRing(f, r)
  PROVE  /\ \A c \in Conns : fdOf[c] = f => told'[c].ring = r
         /\ \A c \in Conns : fdOf[c] # f => told'[c].ring = told[c].ring
<1>1. PICK m, news : news = [ring |-> r] /\ Send(f, m, news)
  BY DEF SendRing
<1>2. "reset" \notin DOMAIN news /\ "ring" \in DOMAIN news /\ news.ring = r
  BY <1>1
<1>3. NoCrash /\ Tells(f, news)
  BY <1>1, <1>2, SendTells DEF Consistent, Books
<1>4. \A c \in Conns : "ring" \in DOMAIN told[c]
  BY <1>3 DEF NoCrash
<1>5. ASSUME NEW c \in Conns PROVE Updated(told[c], news).ring = r
  BY <1>2, <1>4 DEF Updated
<1>6. ASSUME NEW c \in Conns
      PROVE  told'[c] = IF fdOf[c] = f THEN Updated(told[c], news) ELSE told[c]
  BY <1>3 DEF Tells
<1> QED
  BY <1>5, <1>6

(* ... one that a backup address is sent to is told that, ...               *)
LEMMA SendBackupTells ==
  ASSUME Consistent, Dead = {}, NEW f, f # Absent, NEW r,
         SendBackup(f, r, TRUE) \/ SendBackup(f, r, FALSE)
  PROVE  /\ \A c \in Conns : fdOf[c] = f => told'[c].backup = r
         /\ \A c \in Conns : fdOf[c] # f => told'[c].backup = told[c].backup
<1>1. PICK m, news : news = [backup |-> r] /\ Send(f, m, news)
  BY DEF SendBackup
<1>2. "reset" \notin DOMAIN news /\ "backup" \in DOMAIN news /\ news.backup = r
  BY <1>1
<1>3. NoCrash /\ Tells(f, news)
  BY <1>1, <1>2, SendTells DEF Consistent, Books
<1>4. \A c \in Conns : "backup" \in DOMAIN told[c]
  BY <1>3 DEF NoCrash
<1>5. ASSUME NEW c \in Conns PROVE Updated(told[c], news).backup = r
  BY <1>2, <1>4 DEF Updated
<1>6. ASSUME NEW c \in Conns
      PROVE  told'[c] = IF fdOf[c] = f THEN Updated(told[c], news) ELSE told[c]
  BY <1>3 DEF Tells
<1> QED
  BY <1>5, <1>6

(* ... and keeps what it was told by other commands.                       *)
LEMMA SendLeaves ==
  ASSUME Consistent, Dead = {}, NEW f, NEW m, NEW news, "reset" \notin DOMAIN news,
         Send(f, m, news)
  PROVE  /\ "ring" \notin DOMAIN news => \A c \in Conns : told'[c].ring = told[c].ring
         /\ "backup" \notin DOMAIN news => \A c \in Conns : told'[c].backup = told[c].backup
<1>1. NoCrash /\ Tells(f, news)
  BY SendTells DEF Consistent, Books
<1>2. \A c \in Conns : "ring" \in DOMAIN told[c] /\ "backup" \in DOMAIN told[c]
  BY <1>1 DEF NoCrash
<1>3. ASSUME NEW c \in Conns
      PROVE  /\ "ring" \notin DOMAIN news => Updated(told[c], news).ring = told[c].ring
             /\ "backup" \notin DOMAIN news => Updated(told[c], news).backup = told[c].backup
  BY <1>2 DEF Updated
<1> QED
  BY <1>1, <1>3 DEF Tells

(* The steps that send no ring and change no list *)
LEMMA RingsKept ==
  ASSUME RingsTold, UNCHANGED connectList,
         \A c \in connectList.map_ : fdOf'[c] = fdOf[c] /\ told'[c].ring = told[c].ring,
         \A u \in Threads : /\ pc'[u] \in Updating <=> pc[u] \in Updating
                            /\ pc'[u] = "uh_send" => pc[u] = "uh_send" /\ local'[u] = local[u]
  PROVE  RingsTold'
<1>1. LiveHosts' = LiveHosts
  BY DEF LiveHosts, isExisted
<1>2. ASSUME \A t \in Threads : pc'[t] \notin Updating, NEW c \in connectList'.map_
      PROVE  told'[c].ring = LiveHosts'
  BY <1>1, <1>2 DEF RingsTold
<1>3. ASSUME NEW t \in Threads, pc'[t] = "uh_send"
      PROVE  /\ local'[t].ring = LiveHosts'
             /\ \A c \in connectList'.map_ : fdOf'[c] <= local'[t].cur => told'[c].ring = LiveHosts'
  BY <1>1, <1>3 DEF RingsTold
<1> QED
  BY <1>2, <1>3 DEF RingsTold

(* Servers come and go, and the event loop notices. *)
LEMMA RingsOutside ==
  ASSUME Consistent, RingsTold, NEW c \in Conns,
         \/ Connect(c) \/ Die(c) \/ NewConn(c) \/ Announce(c) \/ Disconnect(c)
         \/ \E k \in Keys : Client(k)
  PROVE  RingsTold'
<1>1. CASE Connect(c) \/ Die(c) \/ Announce(c) \/ \E k \in Keys : Client(k)
  BY <1>1, RingsKept DEF Connect, Die, Announce, Client, registry, sent
<1>2. CASE NewConn(c)
  <2>1. \A d \in connectList.map_ : fdOf'[d] = fdOf[d]
    BY <1>2 DEF NewConn, Consistent, Books, Registry, TypeOK
  <2> QED
    BY <1>2, <2>1, RingsKept DEF NewConn, sent
<1>3. CASE Disconnect(c)
  <2>1. /\ UNCHANGED <<connectList, fdOf, told>> /\ pc["loop"] = "idle"
        /\ pc' = [pc EXCEPT !["loop"] = "leave"] /\ pc \in [Threads -> Labels]
        /\ \A u \in Threads \ {"loop"} : local'[u] = local[u]
    BY <1>3 DEF Disconnect, LeaveList, EndOfFile, On, Goto, registry, sent, Consistent, TypeOK,
                Shape
  <2> QED
    BY <2>1, RingsKept DEF Updating
<1> QED
  BY <1>1, <1>2, <1>3

(* The event loop looks up the neighbours of the one that leaves. *)
LEMMA RingsLeave ==
  ASSUME Consistent, RingsTold, LeaveNeighbours \/ LeaveFds
  PROVE  RingsTold'
<1>1. UNCHANGED <<connectList, fdOf, told>>
  BY DEF LeaveNeighbours, LeaveFds, registry, sent
<1>2. /\ pc["loop"] \in {"leave", "leave_fds"} /\ pc \in [Threads -> Labels]
      /\ pc' = [pc EXCEPT !["loop"] = "leave_fds"] \/ pc' = [pc EXCEPT !["loop"] = "erase"]
      /\ \A u \in Threads \ {"loop"} : local'[u] = local[u]
  BY DEF LeaveNeighbours, LeaveFds, On, Goto, Consistent, TypeOK, Shape
<1> QED
  BY <1>1, <1>2, RingsKept DEF Updating

(* The steps of a worker that send nothing *)
LEMMA RingsWorker ==
  ASSUME Consistent, RingsTold, NEW w \in Workers,
         \/ TakeRegister(w) \/ ReadAddr(w) \/ CopyRegisted(w) \/ AddToHash(w)
         \/ CheckExists(w) \/ ReadNeighbours(w) \/ ReadFds(w)
         \/ \E k \in Keys : GetDistribute(w, k)
  PROVE  RingsTold'
<1>1. UNCHANGED <<connectList, fdOf, told>>
  BY DEF TakeRegister, ReadAddr, CopyRegisted, AddToHash, CheckExists, ReadNeighbours, ReadFds,
         GetDistribute, registry, sent
<1>2. w \in Threads /\ pc \in [Threads -> Labels] /\ Shape
  BY DEF Threads, Consistent, TypeOK
<1>3. \A u \in Threads \ {w} : pc'[u] = pc[u] /\ local'[u] = local[u]
  BY <1>2 DEF TakeRegister, ReadAddr, CopyRegisted, AddToHash, CheckExists, ReadNeighbours,
              ReadFds, GetDistribute, Goto, End, Shape
<1>4. /\ pc[w] # "uh_send" /\ pc'[w] # "uh_send"
      /\ pc'[w] \in Updating <=> pc[w] \in Updating
  <2>1. CASE TakeRegister(w)
    BY <1>2, <2>1 DEF TakeRegister, On, Goto, Updating
  <2>2. CASE AddToHash(w)
    BY <1>2, <2>2 DEF AddToHash, On, Goto, Updating
  <2>3. CASE CheckExists(w)
    BY <1>2, <2>3 DEF CheckExists, On, Goto, End, Updating
  <2>4. CASE ReadNeighbours(w)
    BY <1>2, <2>4 DEF ReadNeighbours, On, Goto, Updating
  <2>5. CASE ReadFds(w)
    BY <1>2, <2>5 DEF ReadFds, On, Goto, Updating
  <2>6. CASE \E k \in Keys : GetDistribute(w, k)
    BY <1>2, <2>6 DEF GetDistribute, On, Updating
  <2>7. CASE ReadAddr(w) \/ CopyRegisted(w)
    BY <1>2, <2>7 DEF ReadAddr, CopyRegisted, On, Goto, Updating
  <2> QED
    BY <2>1, <2>2, <2>3, <2>4, <2>5, <2>6, <2>7
<1> QED
  BY <1>1, <1>3, <1>4, RingsKept

(* The steps that send other commands *)
LEMMA RingsOtherSends ==
  ASSUME Consistent, RingsTold, NEW t \in Threads,
         \/ t \in Workers /\ (SendMove(t) \/ BackupPrev(t) \/ BackupSelf(t))
         \/ t = "loop" /\ (SendRecover \/ SendRebackup)
  PROVE  RingsTold'
<1>1. pc \in [Threads -> Labels] /\ Shape
  BY DEF Consistent, TypeOK
<1>2. UNCHANGED <<connectList, fdOf>>
  BY DEF SendMove, BackupPrev, BackupSelf, SendRecover, SendRebackup, Rebackup, registry
<1>3. /\ pc[t] \in {"reg_move", "reg_prev", "reg_self", "recover", "rebackup"}
      /\ pc'[t] \in {"reg_move", "reg_exists", "reg_self", "idle", "rebackup"}
      /\ \A u \in Threads \ {t} : pc'[u] = pc[u] /\ local'[u] = local[u]
  <2>1. CASE t \in Workers /\ SendMove(t)
    BY <1>1, <2>1 DEF SendMove, On, Goto, Shape
  <2>2. CASE t \in Workers /\ (BackupPrev(t) \/ BackupSelf(t))
    BY <1>1, <2>2 DEF BackupPrev, BackupSelf, On, Goto, End, Shape
  <2>3. CASE t = "loop" /\ (SendRecover \/ SendRebackup)
    BY <1>1, <2>3 DEF SendRecover, SendRebackup, Rebackup, On, Goto, End, Shape
  <2> QED
    BY <2>1, <2>2, <2>3
<1>4. Dead = {}
  BY <1>3, BusyMeansAlive
<1>5. \A c \in Conns : told'[c].ring = told[c].ring
  <2>1. ASSUME NEW f, NEW m, Send(f, m, <<>>) PROVE \A c \in Conns : told'[c].ring = told[c].ring
    BY <1>4, <2>1, SendLeaves
  <2>2. ASSUME NEW f, NEW a, NEW nul, SendBackup(f, a, nul)
        PROVE  \A c \in Conns : told'[c].ring = told[c].ring
    <3>1. "ring" \notin DOMAIN [backup |-> a] /\ "reset" \notin DOMAIN [backup |-> a]
      OBVIOUS
    <3> QED
      BY <1>4, <2>2, <3>1, SendLeaves DEF SendBackup
  <2> QED
    BY <2>1, <2>2 DEF SendMove, BackupPrev, BackupSelf, SendRecover, SendRebackup, Rebackup, sent
<1>6. connectList.map_ \subseteq Conns
  BY DEF Consistent, Books, Registry
<1> QED
  BY <1>2, <1>3, <1>5, <1>6, RingsKept DEF Updating

(* A server joins or leaves: the thread is going to build the ring. *)
LEMMA RingsChange ==
  ASSUME Consistent, regime.oneAtATime, RingsTold, NEW t \in Threads,
         \/ t \in Workers /\ Insert(t)
         \/ t = "loop" /\ Erase
  PROVE  RingsTold'
<1>1. pc \in [Threads -> Labels]
  BY DEF Consistent, TypeOK
<1>2. pc[t] \in {"reg_insert", "erase"}
  BY DEF Insert, InsertAs, Erase, EraseExcept, On
<1>3. \A u \in Threads \ {t} : pc[u] = "idle"
  BY <1>2, OneBusy
<1>4. pc'[t] \in {"reg_hash", "uh_build"} /\ \A u \in Threads \ {t} : pc'[u] = "idle"
  <2>1. CASE t \in Workers /\ Insert(t)
    <3>1. pc[t] = "reg_insert" /\ t \in Inserting
      BY <2>1 DEF Insert, InsertAs, On, Inserting, Before
    <3>2. PICK c \in Conns : Brings(t, c)
      BY <3>1 DEF Consistent, Steps, OncePending
    <3>3. local[t].newAddr = c /\ ~isExisted(c) /\ c \in Names
      BY <3>1, <3>2 DEF Brings, Waits, Names
    <3>4. registedMap[local[t].newAddr] = Absent
      BY <3>3 DEF Consistent, Books, Registry
    <3> QED
      BY <1>1, <1>3, <2>1, <3>4 DEF Insert, InsertAs, Goto
  <2>2. CASE t = "loop" /\ Erase
    BY <1>1, <1>3, <2>2 DEF Erase, EraseExcept, Goto
  <2> QED
    BY <2>1, <2>2
<1> QED
  BY <1>4 DEF RingsTold, Updating

(* It builds it. *)
LEMMA RingsBuild ==
  ASSUME Consistent, regime.oneAtATime, RingsTold, NEW t \in Threads, BuildRing(t)
  PROVE  RingsTold'
<1> DEFINE r == [local[t] EXCEPT !.ring = {listenMap[f] : f \in Registered}, !.cur = Absent]
<1>1. pc \in [Threads -> Labels] /\ Shape
  BY DEF Consistent, TypeOK
<1>2. /\ pc[t] = "uh_build" /\ pc' = [pc EXCEPT ![t] = "uh_send"]
      /\ local' = [local EXCEPT ![t] = r] /\ UNCHANGED <<connectList, fdOf, told>>
  BY <1>1 DEF BuildRing, On, Goto, registry, sent, Shape
<1>3. r.ring = LiveHosts /\ r.cur = Absent
  <2>1. r.ring = {listenMap[f] : f \in Registered} /\ r.cur = Absent
    BY <1>1 DEF Shape, Fields
  <2> QED
    BY <2>1, HostsAre DEF Consistent
<1> HIDE DEF r
<1>4. \A u \in Threads \ {t} : pc'[u] = "idle"
  BY <1>1, <1>2, OneBusy
<1>5. local'[t] = r /\ pc'[t] = "uh_send"
  BY <1>1, <1>2 DEF Shape
<1>6. LiveHosts' = LiveHosts
  BY <1>2 DEF LiveHosts, isExisted
<1>7. ASSUME NEW c \in connectList.map_ PROVE ~(fdOf[c] <= Absent)
  <2>1. fdOf[c] \in Nat
    BY RegisteredAre DEF Consistent, MemberFds
  <2> QED
    BY <2>1 DEF Absent
<1> QED
  BY <1>2, <1>3, <1>4, <1>5, <1>6, <1>7 DEF RingsTold, Updating

(* It sends it to the next in the order of descriptors, or has sent it to  *)
(* all.                                                                    *)
LEMMA RingsSend ==
  ASSUME Consistent, regime.oneAtATime, RingsTold, NEW t \in Threads, SendRings(t)
  PROVE  RingsTold'
<1> DEFINE rest == {f \in Registered : f > local[t].cur}
<1>1. /\ pc[t] = "uh_send" /\ pc \in [Threads -> Labels] /\ TypeOK /\ Shape /\ Books
      /\ UNCHANGED <<connectList, fdOf>>
  <2>1. pc[t] = "uh_send" /\ UNCHANGED <<connectList, fdOf>>
    BY DEF SendRings, On
  <2>2. TypeOK /\ Shape /\ Books
    BY DEF Consistent
  <2>3. pc \in [Threads -> Labels]
    BY <2>2 DEF TypeOK
  <2> QED
    BY <2>1, <2>2, <2>3
<1>2. Dead = {} /\ \A u \in Threads \ {t} : pc[u] = "idle"
  BY <1>1, BusyMeansAlive, OneBusy
<1>3. /\ local[t].cur \in Registered \cup {Absent} /\ Registered \subseteq Nat
      /\ local[t].cur \in Int
  <2>1. local[t].cur \in Registered \cup {Absent}
    BY <1>1 DEF Consistent, Steps, Iterating
  <2>2. Registered \subseteq Nat
    BY <1>1, RegisteredAre
  <2>3. \A f \in Registered \cup {Absent} : f \in Int
    BY <2>2 DEF Absent
  <2> QED
    BY <2>1, <2>2, <2>3
<1>4. \A c \in connectList.map_ : c \in Conns /\ fdOf[c] \in Registered
  BY <1>1, RegisteredAre DEF MemberFds
<1>5. /\ local[t].ring = LiveHosts
      /\ \A c \in connectList.map_ : fdOf[c] <= local[t].cur => told[c].ring = LiveHosts
  BY <1>1 DEF RingsTold
<1>6. LiveHosts' = LiveHosts
  BY <1>1 DEF LiveHosts, isExisted
<1>7. CASE /\ rest = {}
           /\ Goto(t, IF t = "loop" THEN "recover" ELSE "reg_move")
           /\ UNCHANGED <<connectedMap, local, sent>>
  <2>1. \A c \in connectList.map_ : told[c].ring = LiveHosts
    <3>1. \A c \in connectList.map_ : fdOf[c] \in Nat /\ ~(fdOf[c] > local[t].cur)
      BY <1>3, <1>4, <1>7
    <3> QED
      BY <1>3, <1>5, <3>1
  <2>2. pc'[t] # "uh_send" /\ \A u \in Threads \ {t} : pc'[u] = "idle"
    BY <1>1, <1>2, <1>7 DEF Goto
  <2> QED
    BY <1>1, <1>6, <1>7, <2>1, <2>2 DEF RingsTold, sent
<1>8. CASE /\ rest # {}
           /\ SendRing(Min(rest), local[t].ring)
           /\ local' = [local EXCEPT ![t].cur = Min(rest)]
           /\ UNCHANGED pc
  <2>1. PICK f \in rest : f = Min(rest) /\ \A g \in rest : f <= g
    <3>1. rest \in SUBSET Nat
      BY <1>3
    <3> HIDE DEF rest
    <3> QED
      BY <1>8, <3>1, LeastFd
  <2>2. f \in Nat /\ f # Absent
    <3>1. f \in Registered
      OBVIOUS
    <3>2. f \in Nat
      BY <1>3, <3>1
    <3>3. f # -1
      BY <3>2
    <3> QED
      BY <3>2, <3>3 DEF Absent
  <2> DEFINE r == [local[t] EXCEPT !.cur = f]
  <2>3. local' = [local EXCEPT ![t] = r] /\ r.cur = f /\ r.ring = LiveHosts
    BY <1>1, <1>5, <1>8, <2>1 DEF Shape, Fields
  <2> HIDE DEF r
  <2>4. local'[t] = r
    BY <1>1, <2>3 DEF Shape
  <2>5. /\ \A c \in Conns : fdOf[c] = f => told'[c].ring = LiveHosts
        /\ \A c \in Conns : fdOf[c] # f => told'[c].ring = told[c].ring
    <3>1. SendRing(f, LiveHosts)
      BY <1>5, <1>8, <2>1
    <3> QED
      BY <1>2, <2>2, <3>1, SendRingTells
  <2>6. ASSUME NEW c \in connectList.map_, fdOf[c] <= f PROVE told'[c].ring = LiveHosts
    <3>1. CASE fdOf[c] = f
      BY <1>4, <2>5, <3>1
    <3>2. CASE fdOf[c] # f
      <4>1. fdOf[c] \in Nat /\ ~(f <= fdOf[c])
        <5>1. fdOf[c] \in Nat
          BY <1>3, <1>4
        <5> QED
          BY <2>2, <2>6, <3>2, <5>1
      <4>2. fdOf[c] \notin rest
        BY <2>1, <4>1
      <4>3. ~(fdOf[c] > local[t].cur)
        BY <1>4, <4>2
      <4> QED
        BY <1>3, <1>4, <1>5, <2>5, <3>2, <4>1, <4>3
    <3> QED
      BY <3>1, <3>2
  <2> QED
    BY <1>1, <1>2, <1>6, <1>8, <2>3, <2>4, <2>6 DEF RingsTold, Updating
<1>9. ~(local[t].cur # Absent /\ local[t].cur \notin Registered)
  BY <1>3
<1> QED
  BY <1>7, <1>8, <1>9 DEF SendRings

(* Every step keeps the rings. *)
LEMMA RingsNext ==
  ASSUME Consistent, regime.oneAtATime, RingsTold,
         [Next]_vars \/ \E c \in Conns : dealwithMasterMsg(c)
  PROVE  RingsTold'
<1>1. CASE \E c \in Conns : \/ Connect(c) \/ Die(c) \/ NewConn(c) \/ Announce(c) \/ Disconnect(c)
  BY <1>1, RingsOutside
<1>2. CASE \E k \in Keys : Client(k)
  BY <1>2, RingsKept DEF Client, registry, sent
<1>3. CASE Erase \/ BuildRing("loop") \/ SendRings("loop") \/ SendRecover \/ SendRebackup
  <2>1. "loop" \in Threads
    BY DEF Threads
  <2>2. CASE Erase
    BY <2>1, <2>2, RingsChange
  <2>3. CASE BuildRing("loop") \/ SendRings("loop")
    BY <2>1, <2>3, RingsBuild, RingsSend
  <2>4. CASE SendRecover \/ SendRebackup
    BY <2>1, <2>4, RingsOtherSends
  <2> QED
    BY <1>3, <2>2, <2>3, <2>4
<1>4. ASSUME NEW w \in Workers, Worker(w) PROVE RingsTold'
  <2>1. w \in Threads
    BY DEF Threads
  <2>2. CASE \/ TakeRegister(w) \/ ReadAddr(w) \/ CopyRegisted(w) \/ AddToHash(w)
             \/ CheckExists(w) \/ ReadNeighbours(w) \/ ReadFds(w)
             \/ \E k \in Keys : GetDistribute(w, k)
    BY <2>2, RingsWorker
  <2>3. CASE SendMove(w) \/ BackupPrev(w) \/ BackupSelf(w)
    BY <2>1, <2>3, RingsOtherSends
  <2>4. CASE Insert(w)
    BY <2>1, <2>4, RingsChange
  <2>5. CASE BuildRing(w) \/ SendRings(w)
    BY <2>1, <2>5, RingsBuild, RingsSend
  <2> QED
    BY <1>4, <2>2, <2>3, <2>4, <2>5 DEF Worker, Register
<1>5. CASE UNCHANGED vars \/ \E c \in Conns : dealwithMasterMsg(c)
  BY <1>5, RingsKept DEF vars, dealwithMasterMsg, registry
<1>6. CASE LeaveNeighbours \/ LeaveFds
  BY <1>6, RingsLeave
<1> QED
  BY <1>1, <1>2, <1>3, <1>4, <1>5, <1>6 DEF Next, Loop, Leave

-----------------------------------------------------------------------------
(* The cycle of backups                                                    *)

(* The workers that are joining a server to the cycle, and the event loop  *)
(* that is closing it where a server has left                              *)
Joining == {w \in Workers : pc[w] \in After}
Mending == pc["loop"] \in {"uh_build", "uh_send", "recover", "rebackup"}

(* The members that are about to be told their backup: a new server and    *)
(* its predecessor, or the predecessor of one that left                    *)
Due(c) ==
    \/ \E w \in Joining : \/ c = local[w].newAddr
                          \/ pc[w] # "reg_self" /\ c = getPrev(local[w].newAddr)
    \/ Mending /\ fdOf[c] = local["loop"].prev_fd

NextIsTold ==
    Len(connectList.list) > 1 =>
        \A c \in connectList.map_ : Due(c) \/ told[c].backup = Host[getNext(c)]

(* What Register() has read of the neighbours is still so. *)
Knows(l, r) ==
    /\ l = "reg_fds" => r.prev = getPrev(r.newAddr) /\ r.next = getNext(r.newAddr)
    /\ l \in {"reg_prev", "reg_self"} =>
         r.prev_fd = fdOf[getPrev(r.newAddr)] /\ r.next_fd = fdOf[getNext(r.newAddr)]

KnowsNeighbours == \A w \in Workers : Knows(pc[w], local[w])

(* So is what the event loop has: first of the server that leaves, then    *)
(* of two members that follow one another.                                 *)
Gap(l, r) ==
    /\ l = "leave_fds" => r.prev = getPrev(r.newAddr) /\ r.next = getNext(r.newAddr)
    /\ l = "erase" =>
         r.prev_fd = fdOf[getPrev(r.newAddr)] /\ r.next_fd = fdOf[getNext(r.newAddr)]
    /\ l \in {"uh_build", "uh_send", "recover", "rebackup"} =>
         \/ connectList.map_ = {}
         \/ \E p \in connectList.map_ : r.prev_fd = fdOf[p] /\ r.next_fd = fdOf[getNext(p)]

KnowsGap == Gap(pc["loop"], local["loop"])

BackupsTold == NextIsTold /\ KnowsNeighbours /\ KnowsGap

(* Members have their own descriptors. *)
LEMMA MembersDiffer ==
  ASSUME Consistent
  PROVE  /\ connectList.map_ \subseteq Conns
         /\ \A c, d \in connectList.map_ : fdOf[c] = fdOf[d] => c = d
         /\ \A c \in connectList.map_ : getNext(c) \in connectList.map_
                                        /\ getPrev(c) \in connectList.map_
<1> USE DEF Consistent, Books
<1>1. \A c \in connectList.map_ : c \in Conns /\ fdOf[c] # Absent
  BY DEF Registry
<1>2. \A c, d \in connectList.map_ : fdOf[c] = fdOf[d] => c = d
  BY <1>1 DEF Descriptors
<1>3. \A c \in connectList.map_ : getNext(c) \in connectList.map_ /\ getPrev(c) \in connectList.map_
  BY NeighboursAreMembers DEF isExisted
<1> QED
  BY <1>1, <1>2, <1>3

(* The predecessor's successor is the member, and in a list of several     *)
(* neither neighbour is the member itself.                                 *)
LEMMA Circle ==
  ASSUME TypeOK, Registry, NEW c \in connectList.map_
  PROVE  /\ getNext(getPrev(c)) = c
         /\ Len(connectList.list) > 1 => getPrev(c) # c /\ getNext(c) # c
         /\ \A d \in connectList.map_ : getNext(d) = c => d = getPrev(c)
         /\ Len(connectList.list) > 0
<1>1. PICK l \in Seq(Names) : l = connectList.list /\ IsInjective(l) /\ Range(l) = connectList.map_
  BY DEF TypeOK, Registry
<1>2. PICK i \in DOMAIN l : l[i] = c
  BY <1>1 DEF Range
<1>3. PICK n \in Nat : n = Len(l) /\ DOMAIN l = 1..n
  BY <1>1
<1>4. \A k \in 1..n : /\ getNext(l[k]) = l[IF k = n THEN 1 ELSE k + 1]
                      /\ getPrev(l[k]) = l[IF k = 1 THEN n ELSE k - 1]
  BY <1>1, <1>3, NeighboursOf
<1>5. i \in 1..n /\ \A j, k \in 1..n : l[j] = l[k] => j = k
  BY <1>1, <1>2, <1>3 DEF IsInjective
<1>6. PICK j \in 1..n : j = IF i = 1 THEN n ELSE i - 1
  BY <1>5
<1>7. getPrev(c) = l[j] /\ getNext(l[j]) = l[i]
  <2>1. i = IF j = n THEN 1 ELSE j + 1
    BY <1>5, <1>6
  <2> QED
    BY <1>2, <1>4, <1>5, <1>6, <2>1
<1>8. n > 1 => getPrev(c) # c /\ getNext(c) # c
  <2>1. n > 1 => j # i /\ (IF i = n THEN 1 ELSE i + 1) # i /\ (IF i = n THEN 1 ELSE i + 1) \in 1..n
    BY <1>5, <1>6
  <2> QED
    BY <1>2, <1>4, <1>5, <1>7, <2>1
<1>9. ASSUME NEW d \in connectList.map_, getNext(d) = c PROVE d = getPrev(c)
  <2>1. PICK k \in 1..n : l[k] = d
    BY <1>1, <1>3 DEF Range
  <2>2. l[IF k = n THEN 1 ELSE k + 1] = l[i]
    BY <1>2, <1>4, <1>9, <2>1
  <2>3. (IF k = n THEN 1 ELSE k + 1) = i
    <3>1. (IF k = n THEN 1 ELSE k + 1) \in 1..n
      BY <1>3
    <3> QED
      BY <1>5, <2>2, <3>1
  <2>4. k = j
    BY <1>3, <1>5, <1>6, <2>3
  <2> QED
    BY <1>7, <2>1, <2>4
<1> QED
  BY <1>1, <1>2, <1>3, <1>5, <1>7, <1>8, <1>9

(* One thread at most makes members due. *)
LEMMA DueIs ==
  ASSUME Consistent, regime.oneAtATime, NEW c
  PROVE  /\ \A w \in Joining : Due(c) <=> \/ c = local[w].newAddr
                                          \/ pc[w] # "reg_self" /\ c = getPrev(local[w].newAddr)
         /\ Joining = {} => (Due(c) <=> Mending /\ fdOf[c] = local["loop"].prev_fd)
<1>1. ASSUME NEW w \in Joining
      PROVE  Due(c) <=> \/ c = local[w].newAddr
                        \/ pc[w] # "reg_self" /\ c = getPrev(local[w].newAddr)
  <2>1. w \in Workers /\ w \in Threads /\ pc[w] # "idle" /\ w # "loop"
    BY ValuesAssumption DEF Joining, After, Threads
  <2>2. \A u \in Threads \ {w} : pc[u] = "idle"
    BY <2>1, OneBusy
  <2>3. ~Mending
    BY <2>1, <2>2 DEF Mending, Threads
  <2>4. \A v \in Joining : v = w
    BY <2>2 DEF Joining, After, Threads
  <2> QED
    BY <2>3, <2>4 DEF Due
<1> QED
  BY <1>1 DEF Due

(* A step of thread t that changes no list and sends no backup *)
LEMMA BackupsKept ==
  ASSUME Consistent, BackupsTold, UNCHANGED connectList, NEW t \in Threads,
         \A c \in connectList.map_ : fdOf'[c] = fdOf[c] /\ told'[c].backup = told[c].backup,
         \A u \in Threads \ {t} : pc'[u] = pc[u] /\ local'[u] = local[u],
         t \in Workers =>
            /\ pc[t] \in After => /\ pc'[t] \in After /\ local'[t].newAddr = local[t].newAddr
                                  /\ pc'[t] = "reg_self" => pc[t] = "reg_self"
            /\ pc'[t] \in After => isExisted(local'[t].newAddr)
            /\ Knows(pc'[t], local'[t]),
         t = "loop" =>
            /\ Mending => /\ pc'[t] \in {"uh_build", "uh_send", "recover", "rebackup"}
                          /\ local'[t].prev_fd = local[t].prev_fd
            /\ pc'[t] \in Mourning => isExisted(local'[t].newAddr)
            /\ Gap(pc'[t], local'[t])
  PROVE  BackupsTold'
<1>1. "loop" \notin Workers /\ "loop" \in Threads /\ Workers \subseteq Threads
  BY ValuesAssumption DEF Threads
<1>2. \A c \in connectList.map_ : /\ getNext(c) \in connectList.map_
                                  /\ getPrev(c) \in connectList.map_
  BY MembersDiffer
<1>3. \A c : getNext(c)' = getNext(c) /\ getPrev(c)' = getPrev(c)
  BY DEF getNext, getPrev, node
<1>4. ASSUME NEW c \in connectList.map_, Due(c) PROVE Due(c)'
  <2>1. CASE Mending /\ fdOf[c] = local["loop"].prev_fd
    <3>1. Mending' /\ local'["loop"].prev_fd = local["loop"].prev_fd
      BY <1>1, <2>1 DEF Mending
    <3> QED
      BY <2>1, <3>1 DEF Due
  <2>2. ASSUME NEW w \in Joining,
               \/ c = local[w].newAddr
               \/ pc[w] # "reg_self" /\ c = getPrev(local[w].newAddr)
        PROVE  Due(c)'
    <3>1. /\ w \in Joining' /\ local'[w].newAddr = local[w].newAddr
          /\ pc'[w] = "reg_self" => pc[w] = "reg_self"
      BY <1>1 DEF Joining
    <3> QED
      BY <1>3, <2>2, <3>1 DEF Due
  <2> QED
    BY <1>4, <2>1, <2>2 DEF Due
<1>5. NextIsTold'
  BY <1>3, <1>4 DEF NextIsTold, BackupsTold
<1>6. ASSUME NEW w \in Workers PROVE Knows(pc[w], local[w])'
  <2>1. Knows(pc'[w], local'[w])
    BY <1>1 DEF BackupsTold, KnowsNeighbours
  <2>2. pc'[w] \in After => local'[w].newAddr \in connectList.map_
    BY <1>1 DEF Consistent, Steps, Registering, isExisted
  <2> QED
    BY <1>2, <1>3, <2>1, <2>2 DEF Knows, After
<1>7. Gap(pc["loop"], local["loop"])'
  <2>1. Gap(pc'["loop"], local'["loop"])
    BY <1>1 DEF BackupsTold, KnowsGap
  <2>2. pc'["loop"] \in Mourning => local'["loop"].newAddr \in connectList.map_
    BY <1>1 DEF Consistent, Steps, Leaving, LeavingAt, isExisted
  <2> QED
    BY <1>2, <1>3, <2>1, <2>2 DEF Gap, Mourning
<1> QED
  BY <1>5, <1>6, <1>7 DEF BackupsTold, KnowsNeighbours, KnowsGap

(* A step that touches neither the list nor a thread *)
LEMMA BackupsUnread ==
  ASSUME Consistent, BackupsTold, UNCHANGED <<connectList, pc, local, told>>,
         \A d \in connectList.map_ : fdOf'[d] = fdOf[d]
  PROVE  BackupsTold'
<1>1. "loop" \in Threads /\ "loop" \notin Workers
  BY ValuesAssumption DEF Threads
<1>2. pc["loop"] \in Mourning => isExisted(local["loop"].newAddr)
  BY DEF Consistent, Steps, Leaving, LeavingAt
<1>3. Gap(pc["loop"], local["loop"])
  BY DEF BackupsTold, KnowsGap
<1> QED
  BY <1>1, <1>2, <1>3, BackupsKept DEF Mending

(* Servers come and go. *)
LEMMA BackupsOutside ==
  ASSUME Consistent, BackupsTold, NEW c \in Conns,
         \/ Connect(c) \/ Die(c) \/ NewConn(c) \/ Announce(c) \/ Disconnect(c)
         \/ \E k \in Keys : Client(k)
  PROVE  BackupsTold'
<1>1. "loop" \in Threads /\ "loop" \notin Workers /\ pc \in [Threads -> Labels] /\ Shape
  BY ValuesAssumption DEF Threads, Consistent, TypeOK
<1>2. CASE Connect(c) \/ Die(c) \/ Announce(c) \/ \E k \in Keys : Client(k)
  BY <1>2, BackupsUnread DEF Connect, Die, Announce, Client, registry, sent
<1>3. CASE NewConn(c)
  <2>1. \A d \in connectList.map_ : fdOf'[d] = fdOf[d]
    BY <1>3 DEF NewConn, Consistent, Books, Registry, TypeOK
  <2> QED
    BY <1>3, <2>1, BackupsUnread DEF NewConn, sent
<1>4. CASE Disconnect(c)
  <2>1. /\ UNCHANGED <<connectList, fdOf, told>> /\ pc["loop"] = "idle"
        /\ pc' = [pc EXCEPT !["loop"] = "leave"]
        /\ isExisted(ReadConnected(fdOf[c]))
        /\ local' = [local EXCEPT !["loop"] = [NoLocal EXCEPT !.cfd = fdOf[c],
                                                  !.newAddr = ReadConnected(fdOf[c])]]
    BY <1>4 DEF Disconnect, LeaveList, EndOfFile, On, Goto, registry, sent
  <2>2. PICK r : r = [NoLocal EXCEPT !.cfd = fdOf[c], !.newAddr = ReadConnected(fdOf[c])]
    OBVIOUS
  <2>3. isExisted(r.newAddr)
    BY <2>1, <2>2 DEF NoLocal
  <2>4. /\ local'["loop"] = r /\ pc'["loop"] = "leave"
        /\ \A u \in Threads \ {"loop"} : pc'[u] = pc[u] /\ local'[u] = local[u]
    BY <1>1, <2>1, <2>2 DEF Shape
  <2> QED
    BY <1>1, <2>1, <2>3, <2>4, BackupsKept DEF Gap, Mending, Mourning
<1> QED
  BY <1>2, <1>3, <1>4

(* The event loop looks up the neighbours of the one that leaves, and      *)
(* their descriptors.                                                      *)
LEMMA BackupsLeave ==
  ASSUME Consistent, BackupsTold, LeaveNeighbours \/ LeaveFds
  PROVE  BackupsTold'
<1> DEFINE l == local["loop"]
<1>1. /\ "loop" \in Threads /\ "loop" \notin Workers /\ pc \in [Threads -> Labels]
      /\ Shape /\ Books /\ TypeOK
  BY ValuesAssumption DEF Threads, Consistent, TypeOK
<1>2. UNCHANGED <<connectList, fdOf, told>>
  BY DEF LeaveNeighbours, LeaveFds, registry, sent
<1>3. pc["loop"] \in {"leave", "leave_fds"} /\ LeavingAt(pc["loop"], l)
  BY DEF LeaveNeighbours, LeaveFds, On, Consistent, Steps, Leaving, Mourning
<1>4. CASE LeaveNeighbours
  <2>1. PICK r : r = [l EXCEPT !.prev = getPrev(l.newAddr), !.next = getNext(l.newAddr)]
    OBVIOUS
  <2>2. r.newAddr = l.newAddr /\ r.prev = getPrev(r.newAddr) /\ r.next = getNext(r.newAddr)
    BY <1>1, <2>1 DEF Shape, Fields
  <2>3. local' = [local EXCEPT !["loop"] = r] /\ pc' = [pc EXCEPT !["loop"] = "leave_fds"]
    BY <1>1, <1>4, <2>1 DEF LeaveNeighbours, Goto, Shape
  <2>4. /\ local'["loop"] = r /\ pc'["loop"] = "leave_fds"
        /\ \A u \in Threads \ {"loop"} : pc'[u] = pc[u] /\ local'[u] = local[u]
    BY <1>1, <2>3 DEF Shape
  <2>5. Gap(pc'["loop"], local'["loop"]) /\ isExisted(local'["loop"].newAddr) /\ ~Mending
    BY <1>3, <2>2, <2>4 DEF Gap, Mending, LeavingAt
  <2> QED
    BY <1>1, <1>2, <2>4, <2>5, BackupsKept
<1>5. CASE LeaveFds
  <2>1. pc["loop"] = "leave_fds"
    BY <1>5 DEF LeaveFds, On
  <2>2. PICK r : r = [l EXCEPT !.prev_fd = ReadRegisted(l.prev), !.next_fd = ReadRegisted(l.next)]
    OBVIOUS
  <2>3. /\ r.newAddr = l.newAddr
        /\ r.prev_fd = ReadRegisted(l.prev) /\ r.next_fd = ReadRegisted(l.next)
    BY <1>1, <2>2 DEF Shape, Fields
  <2>4. {l.prev, l.next} \in SUBSET connectList.map_
    BY <1>3, <2>1 DEF LeavingAt, isExisted
  <2>5. ReadRegisted(l.prev) = fdOf[l.prev] /\ ReadRegisted(l.next) = fdOf[l.next]
    BY <1>1, <2>4, RegistedOf
  <2>6. l.prev = getPrev(l.newAddr) /\ l.next = getNext(l.newAddr)
    BY <2>1 DEF BackupsTold, KnowsGap, Gap
  <2>7. local' = [local EXCEPT !["loop"] = r] /\ pc' = [pc EXCEPT !["loop"] = "erase"]
    BY <1>1, <1>5, <2>2 DEF LeaveFds, Goto, Shape
  <2>8. /\ local'["loop"] = r /\ pc'["loop"] = "erase"
        /\ \A u \in Threads \ {"loop"} : pc'[u] = pc[u] /\ local'[u] = local[u]
    BY <1>1, <2>7 DEF Shape
  <2>9. Gap(pc'["loop"], local'["loop"]) /\ isExisted(local'["loop"].newAddr) /\ ~Mending
    BY <1>3, <2>1, <2>3, <2>5, <2>6, <2>8 DEF Gap, Mending, LeavingAt
  <2> QED
    BY <1>1, <1>2, <2>8, <2>9, BackupsKept
<1> QED
  BY <1>4, <1>5

(* The steps that send a ring, or nothing: each thread goes on with what   *)
(* it is doing.                                                            *)
LEMMA ThreadGoesOn ==
  ASSUME Consistent, NEW t \in Threads,
         \/ BuildRing(t) \/ SendRings(t)
         \/ /\ t \in Workers
            /\ \/ TakeRegister(t) \/ ReadAddr(t) \/ CopyRegisted(t) \/ AddToHash(t)
               \/ SendMove(t) \/ CheckExists(t)
               \/ \E k \in Keys : GetDistribute(t, k)
  PROVE  /\ UNCHANGED <<regime, peer, connectList, fdOf>>
         /\ \A u \in Threads \ {t} : pc'[u] = pc[u] /\ local'[u] = local[u]
         /\ \A c \in Conns : told'[c].backup = told[c].backup
         /\ pc[t] \in {"uh_build", "uh_send"} =>
              /\ pc'[t] \in {"uh_send", IF t = "loop" THEN "recover" ELSE "reg_move"}
              /\ local'[t].newAddr = local[t].newAddr
              /\ local'[t].prev_fd = local[t].prev_fd /\ local'[t].next_fd = local[t].next_fd
         /\ pc[t] \notin {"uh_build", "uh_send"} =>
              /\ t \in Workers
              /\ pc[t] \in {"reg_hash", "reg_move", "reg_exists", "idle"} \cup Before
              /\ IF pc[t] \in Before \cup {"idle"}
                   THEN pc'[t] \in Before \cup {"idle"}
                   ELSE /\ pc'[t] \in {"uh_build", "reg_move", "reg_exists", "reg_neighbours"}
                        /\ local'[t].newAddr = local[t].newAddr
<1>1. /\ pc \in [Threads -> Labels] /\ Shape /\ Books /\ TypeOK
      /\ "loop" \notin Workers /\ "loop" \in Threads /\ Workers \subseteq Threads
  BY ValuesAssumption DEF Threads, Consistent, TypeOK
<1>2. UNCHANGED <<regime, peer, connectList, fdOf>>
  BY DEF TakeRegister, ReadAddr, CopyRegisted, AddToHash, SendMove, CheckExists, GetDistribute,
         BuildRing, SendRings, registry, outside
<1>3. \A u \in Threads \ {t} : pc'[u] = pc[u] /\ local'[u] = local[u]
  <2>1. CASE BuildRing(t) \/ SendRings(t)
    BY <1>1, <2>1 DEF BuildRing, SendRings, Goto, Shape
  <2>2. CASE t \in Workers /\ (TakeRegister(t) \/ AddToHash(t) \/ SendMove(t))
    BY <1>1, <2>2 DEF TakeRegister, AddToHash, SendMove, Goto, Shape
  <2>3. CASE t \in Workers /\ (CheckExists(t) \/ \E k \in Keys : GetDistribute(t, k))
    BY <1>1, <2>3 DEF CheckExists, GetDistribute, Goto, End, Shape
  <2>4. CASE t \in Workers /\ (ReadAddr(t) \/ CopyRegisted(t))
    BY <1>1, <2>4 DEF ReadAddr, CopyRegisted, Goto, Shape
  <2> QED
    BY <2>1, <2>2, <2>3, <2>4
<1>4. \A c \in Conns : told'[c].backup = told[c].backup
  <2>1. ASSUME NEW f, NEW m, Send(f, m, <<>>), Dead = {}
        PROVE  \A c \in Conns : told'[c].backup = told[c].backup
    BY <2>1, SendLeaves
  <2>2. ASSUME NEW f, NEW a, SendRing(f, a), Dead = {}
        PROVE  \A c \in Conns : told'[c].backup = told[c].backup
    <3>1. "backup" \notin DOMAIN [ring |-> a] /\ "reset" \notin DOMAIN [ring |-> a]
      OBVIOUS
    <3> QED
      BY <2>2, <3>1, SendLeaves DEF SendRing
  <2>3. CASE SendRings(t)
    <3>1. Dead = {}
      BY <2>3, BusyMeansAlive DEF SendRings, On
    <3> QED
      BY <2>2, <2>3, <3>1 DEF SendRings, sent
  <2>4. CASE SendMove(t)
    <3>1. Dead = {}
      BY <2>4, BusyMeansAlive DEF SendMove, On
    <3> QED
      BY <2>1, <2>4, <3>1 DEF SendMove, sent
  <2>5. CASE \/ BuildRing(t) \/ TakeRegister(t) \/ ReadAddr(t) \/ CopyRegisted(t)
             \/ AddToHash(t) \/ CheckExists(t) \/ \E k \in Keys : GetDistribute(t, k)
    BY <2>5 DEF BuildRing, TakeRegister, ReadAddr, CopyRegisted, AddToHash, CheckExists,
                GetDistribute, sent
  <2> QED
    BY <2>3, <2>4, <2>5
<1>5. /\ pc[t] \in {"uh_build", "uh_send"} =>
            /\ pc'[t] \in {"uh_send", IF t = "loop" THEN "recover" ELSE "reg_move"}
            /\ local'[t].newAddr = local[t].newAddr
            /\ local'[t].prev_fd = local[t].prev_fd /\ local'[t].next_fd = local[t].next_fd
      /\ pc[t] \notin {"uh_build", "uh_send"} =>
            /\ t \in Workers
            /\ pc[t] \in {"reg_hash", "reg_move", "reg_exists", "idle"} \cup Before
            /\ IF pc[t] \in Before \cup {"idle"}
                 THEN pc'[t] \in Before \cup {"idle"}
                 ELSE /\ pc'[t] \in {"uh_build", "reg_move", "reg_exists", "reg_neighbours"}
                      /\ local'[t].newAddr = local[t].newAddr
  <2>1. CASE BuildRing(t)
    <3>1. PICK r : r = [local[t] EXCEPT !.ring = {listenMap[f] : f \in Registered}, !.cur = Absent]
      OBVIOUS
    <3>2. /\ r.newAddr = local[t].newAddr /\ r.prev_fd = local[t].prev_fd
          /\ r.next_fd = local[t].next_fd
      BY <1>1, <3>1 DEF Shape, Fields
    <3>3. local' = [local EXCEPT ![t] = r]
      BY <1>1, <2>1, <3>1 DEF BuildRing, Shape
    <3> QED
      BY <1>1, <2>1, <3>2, <3>3 DEF BuildRing, On, Goto, Shape, Before
  <2>2. CASE SendRings(t)
    <3>1. PICK f : f = Min({g \in Registered : g > local[t].cur})
      OBVIOUS
    <3>2. PICK r : r = [local[t] EXCEPT !.cur = f]
      OBVIOUS
    <3>3. /\ r.newAddr = local[t].newAddr /\ r.prev_fd = local[t].prev_fd
          /\ r.next_fd = local[t].next_fd
      BY <1>1, <3>2 DEF Shape, Fields
    <3>4. pc[t] = "uh_send"
      BY <2>2 DEF SendRings, On
    <3>5. \/ local' = [local EXCEPT ![t] = r] /\ UNCHANGED pc
          \/ UNCHANGED local /\ Goto(t, IF t = "loop" THEN "recover" ELSE "reg_move")
          \/ UNCHANGED <<local, pc>>
      BY <1>1, <2>2, <3>1, <3>2 DEF SendRings, Shape
    <3> QED
      BY <1>1, <3>3, <3>4, <3>5 DEF Goto, Shape, Before
  <2>3. CASE t \in Workers /\ SendMove(t)
    <3>1. PICK r : r = [local[t] EXCEPT !.notity = @ \ {Min(local[t].notity)}]
      OBVIOUS
    <3>2. r.newAddr = local[t].newAddr
      BY <1>1, <3>1 DEF Shape, Fields
    <3>3. \/ local' = [local EXCEPT ![t] = r] /\ UNCHANGED pc
          \/ UNCHANGED local /\ Goto(t, "reg_exists")
      BY <1>1, <2>3, <3>1 DEF SendMove, Shape
    <3> QED
      BY <1>1, <2>3, <3>2, <3>3 DEF SendMove, On, Goto, Shape, Before
  <2>4. CASE t \in Workers /\ (TakeRegister(t) \/ AddToHash(t))
    BY <1>1, <2>4 DEF TakeRegister, AddToHash, On, Goto, Before
  <2>5. CASE t \in Workers /\ CheckExists(t)
    <3>1. pc[t] = "reg_exists" /\ isExisted(local[t].newAddr)
      BY <2>5 DEF CheckExists, On, Consistent, Steps, Registering, After
    <3> QED
      BY <1>1, <2>5, <3>1 DEF CheckExists, Goto, Before
  <2>6. CASE t \in Workers /\ \E k \in Keys : GetDistribute(t, k)
    BY <1>1, <2>6 DEF GetDistribute, On, Before
  <2>7. CASE t \in Workers /\ (ReadAddr(t) \/ CopyRegisted(t))
    BY <1>1, <2>7 DEF ReadAddr, CopyRegisted, On, Goto, Before
  <2> QED
    BY <2>1, <2>2, <2>3, <2>4, <2>5, <2>6, <2>7
<1> QED
  BY <1>2, <1>3, <1>4, <1>5

(* They leave the backups as they are. *)
LEMMA BackupsThread ==
  ASSUME Consistent, BackupsTold, NEW t \in Threads,
         \/ BuildRing(t) \/ SendRings(t)
         \/ /\ t \in Workers
            /\ \/ TakeRegister(t) \/ ReadAddr(t) \/ CopyRegisted(t) \/ AddToHash(t)
               \/ SendMove(t) \/ CheckExists(t)
               \/ \E k \in Keys : GetDistribute(t, k)
  PROVE  BackupsTold'
<1>1. "loop" \notin Workers /\ "loop" \in Threads /\ Workers \subseteq Threads
  BY ValuesAssumption DEF Threads
<1>2. /\ UNCHANGED <<connectList, fdOf>>
      /\ \A u \in Threads \ {t} : pc'[u] = pc[u] /\ local'[u] = local[u]
      /\ \A c \in connectList.map_ : told'[c].backup = told[c].backup
  BY ThreadGoesOn, MembersDiffer
<1>3. t \in Workers =>
         /\ pc[t] \in After => /\ pc'[t] \in After /\ local'[t].newAddr = local[t].newAddr
                               /\ pc'[t] # "reg_self"
         /\ pc'[t] \in After => pc[t] \in After
         /\ Knows(pc'[t], local'[t])
  BY <1>1, ThreadGoesOn DEF After, Before, Knows
<1>4. pc[t] \in After /\ t \in Workers => isExisted(local[t].newAddr)
  BY DEF Consistent, Steps, Registering
<1>5. t = "loop" => /\ Mending /\ pc'[t] \in {"uh_build", "uh_send", "recover"}
                    /\ local'[t].prev_fd = local[t].prev_fd
                    /\ pc'[t] \notin Mourning /\ Gap(pc'[t], local'[t])
  <2> HAVE t = "loop"
  <2>1. pc[t] \in {"uh_build", "uh_send"} /\ pc'[t] \in {"uh_send", "recover"}
    BY <1>1, ThreadGoesOn
  <2>2. \/ connectList.map_ = {}
        \/ \E p \in connectList.map_ : /\ local["loop"].prev_fd = fdOf[p]
                                       /\ local["loop"].next_fd = fdOf[getNext(p)]
    BY <2>1 DEF BackupsTold, KnowsGap, Gap
  <2> QED
    BY <2>1, <2>2, ThreadGoesOn DEF Gap, Mending, Mourning
<1> QED
  BY <1>1, <1>2, <1>3, <1>4, <1>5, BackupsKept

(* Register() reads the neighbours, ... *)
LEMMA BackupsNeighbours ==
  ASSUME Consistent, BackupsTold, NEW w \in Workers, ReadNeighbours(w) \/ ReadFds(w)
  PROVE  BackupsTold'
<1>1. /\ pc \in [Threads -> Labels] /\ Shape /\ Books /\ TypeOK
      /\ w \in Threads /\ w # "loop"
  BY ValuesAssumption DEF Threads, Consistent, TypeOK
<1>2. UNCHANGED <<connectList, fdOf, told>>
  BY DEF ReadNeighbours, ReadFds, registry, sent
<1>3. \A u \in Threads \ {w} : pc'[u] = pc[u] /\ local'[u] = local[u]
  BY <1>1 DEF ReadNeighbours, ReadFds, Goto, Shape
<1>4. PICK n : n = local[w].newAddr
  OBVIOUS
<1>5. pc[w] \in After /\ pc[w] # "reg_self" /\ isExisted(n)
  BY <1>4 DEF ReadNeighbours, ReadFds, On, Consistent, Steps, Registering, After
<1>6. local'[w].newAddr = n /\ pc'[w] \in {"reg_fds", "reg_prev"} /\ Knows(pc'[w], local'[w])
  <2>1. CASE ReadNeighbours(w)
    <3>1. PICK r : r = [local[w] EXCEPT !.prev = getPrev(n), !.next = getNext(n)]
      OBVIOUS
    <3>2. r.newAddr = n /\ r.prev = getPrev(n) /\ r.next = getNext(n)
      BY <1>1, <1>4, <3>1 DEF Shape, Fields
    <3>3. local' = [local EXCEPT ![w] = r] /\ Goto(w, "reg_fds")
      BY <1>1, <1>4, <1>5, <2>1, <3>1 DEF ReadNeighbours, Shape
    <3>4. local'[w] = r /\ pc'[w] = "reg_fds"
      BY <1>1, <3>3 DEF Goto, Shape
    <3> QED
      BY <3>2, <3>4 DEF Knows
  <2>2. CASE ReadFds(w)
    <3>1. pc[w] = "reg_fds"
      BY <2>2 DEF ReadFds, On
    <3>2. /\ local[w].prev = getPrev(n) /\ local[w].next = getNext(n)
          /\ getPrev(n) \in connectList.map_ /\ getNext(n) \in connectList.map_
      BY <1>4, <1>5, <3>1, MembersDiffer DEF BackupsTold, KnowsNeighbours, Knows, isExisted
    <3>3. ReadRegisted(getPrev(n)) = fdOf[getPrev(n)] /\ ReadRegisted(getNext(n)) = fdOf[getNext(n)]
      BY <1>1, <3>2, RegistedOf
    <3>4. PICK r : r = [local[w] EXCEPT !.prev_fd = fdOf[getPrev(n)], !.next_fd = fdOf[getNext(n)]]
      OBVIOUS
    <3>5. r.newAddr = n /\ r.prev_fd = fdOf[getPrev(n)] /\ r.next_fd = fdOf[getNext(n)]
      BY <1>1, <1>4, <3>4 DEF Shape, Fields
    <3>6. local' = [local EXCEPT ![w] = r] /\ Goto(w, "reg_prev")
      BY <1>1, <2>2, <3>2, <3>3, <3>4 DEF ReadFds, Shape
    <3>7. local'[w] = r /\ pc'[w] = "reg_prev"
      BY <1>1, <3>6 DEF Goto, Shape
    <3> QED
      BY <3>5, <3>7 DEF Knows
  <2> QED
    BY <2>1, <2>2
<1> QED
  BY <1>1, <1>2, <1>3, <1>4, <1>5, <1>6, BackupsKept DEF After

(* ... tells the predecessor of the new server, unless it is alone, ... *)
LEMMA BackupsPrev ==
  ASSUME Consistent, regime.oneAtATime, BackupsTold, NEW w \in Workers, BackupPrev(w)
  PROVE  BackupsTold'
<1>1. /\ pc \in [Threads -> Labels] /\ Shape /\ Books /\ TypeOK /\ Registry
      /\ w \in Threads /\ w # "loop" /\ pc[w] = "reg_prev"
  BY ValuesAssumption DEF BackupPrev, On, Threads, Consistent, TypeOK, Books
<1>2. UNCHANGED <<connectList, fdOf>>
  BY DEF BackupPrev
<1>3. \A u \in Threads \ {w} : pc[u] = "idle"
  BY <1>1, OneBusy
<1>4. \A u \in Threads \ {w} : pc'[u] = "idle"
  BY <1>1, <1>3 DEF BackupPrev, Goto, End
<1>5. "loop" \in Threads \ {w} /\ w \in Joining /\ Dead = {}
  BY <1>1, BusyMeansAlive DEF Threads, Joining, After
<1>6. PICK n : n = local[w].newAddr
  OBVIOUS
<1>7. n \in connectList.map_ /\ local[w].cfd = fdOf[n] /\ fdOf[n] \in MemberFds
  BY <1>1, <1>6 DEF Consistent, Steps, Registering, After, MemberFds, isExisted
<1>8. PICK p : p = getPrev(n)
  OBVIOUS
<1>9. /\ local[w].prev_fd = fdOf[p] /\ local[w].next_fd = fdOf[getNext(n)]
      /\ p \in connectList.map_ /\ getNext(n) \in connectList.map_
  BY <1>1, <1>6, <1>7, <1>8, MembersDiffer DEF BackupsTold, KnowsNeighbours, Knows
<1>10. \A c : getNext(c)' = getNext(c) /\ getPrev(c)' = getPrev(c)
  BY <1>2 DEF getNext, getPrev, node
<1>11. KnowsGap' /\ ~Mending'
  BY <1>4, <1>5 DEF KnowsGap, Gap, Mending
<1>12. CASE /\ SendBackup(local[w].prev_fd, ReadListen(local[w].cfd), TRUE)
            /\ Goto(w, "reg_self") /\ UNCHANGED local
  <2>1. ReadListen(fdOf[n]) = Host[n]
    BY <1>1, <1>7, ListenOf, RegisteredAre
  <2>2. fdOf[p] # Absent
    BY <1>9 DEF Consistent, Books, Registry
  <2>3. SendBackup(fdOf[p], Host[n], TRUE)
    BY <1>7, <1>9, <1>12, <2>1
  <2>4. PICK h : h = Host[n]
    OBVIOUS
  <2>5. /\ \A c \in Conns : fdOf[c] = fdOf[p] => told'[c].backup = h
        /\ \A c \in Conns : fdOf[c] # fdOf[p] => told'[c].backup = told[c].backup
    <3>1. PICK f : f = fdOf[p]
      OBVIOUS
    <3>2. SendBackup(f, h, TRUE) /\ f # Absent
      BY <2>2, <2>3, <2>4, <3>1
    <3>3. /\ \A c \in Conns : fdOf[c] = f => told'[c].backup = h
          /\ \A c \in Conns : fdOf[c] # f => told'[c].backup = told[c].backup
      BY <1>5, <3>2, SendBackupTells
    <3> QED
      BY <3>1, <3>3
  <2>6. /\ told'[p].backup = h
        /\ \A c \in connectList.map_ \ {p} : told'[c].backup = told[c].backup
    BY <1>9, <2>5, MembersDiffer
  <2>7. pc'[w] = "reg_self" /\ local'[w] = local[w] /\ w \in Joining'
    BY <1>1, <1>12 DEF Goto, Joining, After
  <2>8. NextIsTold'
    <3> SUFFICES ASSUME Len(connectList.list) > 1, NEW c \in connectList.map_
                 PROVE  Due(c)' \/ told'[c].backup = Host[getNext(c)]
      BY <1>2, <1>10 DEF NextIsTold
    <3>1. CASE c = n
      BY <1>6, <2>7, <3>1 DEF Due
    <3>2. CASE c = p
      <4>1. getNext(c) = n
        BY <1>1, <1>7, <1>8, <3>2, Circle
      <4> QED
        BY <2>4, <2>6, <3>2, <4>1
    <3>3. CASE c # n /\ c # p
      <4>1. ~Due(c)
        BY <1>5, <1>6, <1>8, <3>3, DueIs
      <4> QED
        BY <2>6, <3>3, <4>1 DEF BackupsTold, NextIsTold
    <3> QED
      BY <3>1, <3>2, <3>3
  <2>9. KnowsNeighbours'
    <3>1. Knows(pc[w], local[w])'
      BY <1>2, <1>6, <1>8, <1>9, <1>10, <2>7 DEF Knows
    <3>2. \A v \in Workers \ {w} : Knows(pc[v], local[v])'
      BY <1>4 DEF Knows, Threads
    <3> QED
      BY <3>1, <3>2 DEF KnowsNeighbours
  <2> QED
    BY <1>11, <2>8, <2>9 DEF BackupsTold
<1>13. CASE /\ local[w].next_fd = local[w].cfd /\ local[w].prev_fd = local[w].cfd
            /\ End(w) /\ UNCHANGED sent
  <2>1. p = n
    BY <1>7, <1>9, <1>13, MembersDiffer
  <2>2. ~(Len(connectList.list) > 1)
    BY <1>1, <1>7, <1>8, <2>1, Circle
  <2>3. \A v \in Workers : pc'[v] = "idle"
    BY <1>1, <1>4, <1>13 DEF End, Goto, Threads
  <2> QED
    BY <1>2, <1>11, <2>2, <2>3 DEF BackupsTold, NextIsTold, KnowsNeighbours, Knows
<1> QED
  BY <1>12, <1>13 DEF BackupPrev

(* ... and the new server. *)
LEMMA BackupsSelf ==
  ASSUME Consistent, regime.oneAtATime, BackupsTold, NEW w \in Workers, BackupSelf(w)
  PROVE  BackupsTold'
<1>1. /\ pc \in [Threads -> Labels] /\ Shape /\ Books /\ TypeOK /\ Registry
      /\ w \in Threads /\ w # "loop" /\ pc[w] = "reg_self"
  BY ValuesAssumption DEF BackupSelf, On, Threads, Consistent, TypeOK, Books
<1>2. UNCHANGED <<connectList, fdOf>> /\ End(w)
  BY DEF BackupSelf
<1>3. \A u \in Threads \ {w} : pc[u] = "idle"
  BY <1>1, OneBusy
<1>4. \A u \in Threads : pc'[u] = "idle"
  BY <1>1, <1>2, <1>3 DEF Goto, End
<1>5. "loop" \in Threads \ {w} /\ w \in Joining /\ Dead = {}
  BY <1>1, BusyMeansAlive DEF Threads, Joining, After
<1>6. PICK n : n = local[w].newAddr
  OBVIOUS
<1>7. n \in connectList.map_ /\ local[w].cfd = fdOf[n] /\ fdOf[n] # Absent
  BY <1>1, <1>6 DEF Consistent, Steps, Registering, After, isExisted, Registry
<1>8. /\ local[w].next_fd = fdOf[getNext(n)] /\ getNext(n) \in connectList.map_
      /\ fdOf[getNext(n)] \in MemberFds
  BY <1>1, <1>6, <1>7, MembersDiffer DEF BackupsTold, KnowsNeighbours, Knows, MemberFds
<1>9. ReadListen(fdOf[getNext(n)]) = Host[getNext(n)]
  BY <1>1, <1>8, ListenOf, RegisteredAre
<1>10. PICK h : h = Host[getNext(n)]
  OBVIOUS
<1>11. /\ told'[n].backup = h
       /\ \A c \in connectList.map_ \ {n} : told'[c].backup = told[c].backup
  <2>1. PICK f : f = fdOf[n]
    OBVIOUS
  <2>2. SendBackup(f, h, TRUE) /\ f # Absent
    BY <1>7, <1>8, <1>9, <1>10, <2>1 DEF BackupSelf
  <2>3. /\ \A c \in Conns : fdOf[c] = f => told'[c].backup = h
        /\ \A c \in Conns : fdOf[c] # f => told'[c].backup = told[c].backup
    BY <1>5, <2>2, SendBackupTells
  <2> QED
    BY <1>7, <2>1, <2>3, MembersDiffer
<1>12. \A c : getNext(c)' = getNext(c)
  BY <1>2 DEF getNext, node
<1>13. ASSUME Len(connectList.list) > 1, NEW c \in connectList.map_
       PROVE  told'[c].backup = Host[getNext(c)]
  <2>1. CASE c = n
    BY <1>10, <1>11, <2>1
  <2>2. CASE c # n
    <3>1. ~Due(c)
      BY <1>1, <1>5, <1>6, <2>2, DueIs
    <3> QED
      BY <1>11, <1>13, <2>2, <3>1 DEF BackupsTold, NextIsTold
  <2> QED
    BY <2>1, <2>2
<1>14. NextIsTold'
  BY <1>2, <1>12, <1>13 DEF NextIsTold
<1>15. KnowsNeighbours' /\ KnowsGap'
  BY <1>4, <1>5 DEF KnowsNeighbours, Knows, KnowsGap, Gap, Threads
<1> QED
  BY <1>14, <1>15 DEF BackupsTold

(* The event loop tells the predecessor of the server that left, unless    *)
(* there is nobody left to tell.                                           *)
LEMMA BackupsMend ==
  ASSUME Consistent, regime.oneAtATime, BackupsTold, SendRecover \/ SendRebackup
  PROVE  BackupsTold'
<1>1. /\ pc \in [Threads -> Labels] /\ Shape /\ Books /\ TypeOK /\ Registry
      /\ "loop" \in Threads /\ "loop" \notin Workers /\ Workers \subseteq Threads
      /\ pc["loop"] \in {"recover", "rebackup"}
  BY ValuesAssumption DEF SendRecover, SendRebackup, Rebackup, On, Threads, Consistent, TypeOK,
                          Books
<1>2. UNCHANGED <<connectList, fdOf>>
  BY DEF SendRecover, SendRebackup, Rebackup, registry
<1>3. Dead = {} /\ \A u \in Threads \ {"loop"} : pc[u] = "idle"
  BY <1>1, BusyMeansAlive, OneBusy
<1>4. Joining = {}
  BY <1>1, <1>3 DEF Joining, After
<1>5. \A u \in Threads \ {"loop"} : pc'[u] = "idle" /\ local'[u] = local[u]
  BY <1>1, <1>3 DEF SendRecover, SendRebackup, Rebackup, Goto, End, Shape
<1>6. \A c : getNext(c)' = getNext(c)
  BY <1>2 DEF getNext, node
<1>7. KnowsNeighbours'
  BY <1>1, <1>5 DEF KnowsNeighbours, Knows
<1>8. PICK l : l = local["loop"]
  OBVIOUS
<1>9. \/ connectList.map_ = {}
      \/ \E p \in connectList.map_ : l.prev_fd = fdOf[p] /\ l.next_fd = fdOf[getNext(p)]
  BY <1>1, <1>8 DEF BackupsTold, KnowsGap, Gap
<1>10. CASE SendRecover
  <2>1. pc["loop"] = "recover"
    BY <1>10 DEF SendRecover, On
  <2>2. CASE l.cfd \in {l.prev_fd, l.next_fd} /\ End("loop")
    <3>1. connectList.map_ = {}
      <4>1. l.cfd \notin MemberFds
        BY <1>8, <2>1 DEF Consistent, Steps, Leaving
      <4>2. \A p \in connectList.map_ : fdOf[p] \in MemberFds /\ fdOf[getNext(p)] \in MemberFds
        BY MembersDiffer DEF MemberFds
      <4> QED
        BY <1>9, <2>2, <4>1, <4>2
    <3>2. pc'["loop"] = "idle"
      BY <1>1, <2>2 DEF End, Goto
    <3>3. NextIsTold' /\ KnowsGap'
      BY <1>2, <3>1, <3>2 DEF NextIsTold, KnowsGap, Gap
    <3> QED
      BY <1>7, <3>3 DEF BackupsTold
  <2>3. CASE /\ Send(l.next_fd, Command("RECOVER_BACKUP", {}, FALSE), <<>>)
             /\ Goto("loop", "rebackup") /\ UNCHANGED local
    <3>1. pc'["loop"] = "rebackup" /\ local'["loop"] = l
      BY <1>1, <1>8, <2>3 DEF Goto
    <3>2. \A c \in connectList.map_ : told'[c].backup = told[c].backup
      <4>1. "reset" \notin DOMAIN <<>> /\ "backup" \notin DOMAIN <<>>
        OBVIOUS
      <4>2. \A c \in Conns : told'[c].backup = told[c].backup
        BY <1>3, <2>3, <4>1, SendLeaves
      <4> QED
        BY <4>2, MembersDiffer
    <3>3. Gap(pc'["loop"], local'["loop"])
      BY <1>9, <3>1 DEF Gap
    <3>4. \A u \in Threads \ {"loop"} : pc'[u] = pc[u] /\ local'[u] = local[u]
      BY <1>3, <1>5
    <3> QED
      BY <1>1, <1>2, <1>8, <3>1, <3>2, <3>3, <3>4, BackupsKept DEF Mourning
  <2> QED
    BY <1>8, <1>10, <2>2, <2>3 DEF SendRecover
<1>11. CASE SendRebackup
  <2>1. /\ pc["loop"] = "rebackup" /\ SendBackup(l.prev_fd, ReadListen(l.next_fd), FALSE)
        /\ End("loop")
    BY <1>8, <1>11 DEF SendRebackup, Rebackup, On
  <2>2. l.prev_fd \in MemberFds
    BY <1>8, <2>1 DEF Consistent, Steps, Leaving
  <2>3. connectList.map_ # {}
    BY <2>2 DEF MemberFds
  <2>4. PICK p \in connectList.map_ : l.prev_fd = fdOf[p] /\ l.next_fd = fdOf[getNext(p)]
    BY <1>9, <2>3
  <2>5. fdOf[p] # Absent /\ getNext(p) \in connectList.map_ /\ fdOf[getNext(p)] \in MemberFds
    BY <1>1, <2>4, MembersDiffer DEF MemberFds, Registry
  <2>6. PICK h : h = Host[getNext(p)] /\ ReadListen(fdOf[getNext(p)]) = h
    BY <1>1, <2>5, ListenOf, RegisteredAre
  <2>7. /\ told'[p].backup = h
        /\ \A c \in connectList.map_ \ {p} : told'[c].backup = told[c].backup
    <3>1. PICK f : f = fdOf[p]
      OBVIOUS
    <3>2. SendBackup(f, h, FALSE) /\ f # Absent
      BY <2>1, <2>4, <2>5, <2>6, <3>1
    <3>3. /\ \A c \in Conns : fdOf[c] = f => told'[c].backup = h
          /\ \A c \in Conns : fdOf[c] # f => told'[c].backup = told[c].backup
      BY <1>3, <3>2, SendBackupTells
    <3> QED
      BY <2>4, <3>1, <3>3, MembersDiffer
  <2>8. ASSUME Len(connectList.list) > 1, NEW c \in connectList.map_
        PROVE  told'[c].backup = Host[getNext(c)]
    <3>1. CASE c = p
      BY <2>6, <2>7, <3>1
    <3>2. CASE c # p
      <4>1. ~Due(c)
        <5>1. fdOf[c] # l.prev_fd
          BY <2>4, <3>2, MembersDiffer
        <5> QED
          BY <1>4, <1>8, <5>1, DueIs
      <4> QED
        BY <2>7, <2>8, <3>2, <4>1 DEF BackupsTold, NextIsTold
    <3> QED
      BY <3>1, <3>2
  <2>9. pc'["loop"] = "idle"
    BY <1>1, <2>1 DEF End, Goto
  <2>10. NextIsTold' /\ KnowsGap'
    BY <1>2, <1>6, <2>8, <2>9 DEF NextIsTold, KnowsGap, Gap
  <2> QED
    BY <1>7, <2>10 DEF BackupsTold
<1> QED
  BY <1>10, <1>11

(* The successors and predecessors by their places in the list *)
Places ==
    \A c, i : i \in DOMAIN connectList.list /\ connectList.list[i] = c =>
       LET n == Len(connectList.list)
       IN  /\ getNext(c) = connectList.list[IF i = n THEN 1 ELSE i + 1]
           /\ getPrev(c) = connectList.list[IF i = 1 THEN n ELSE i - 1]

(* They are what getNext() and getPrev() return, ... *)
LEMMA PlacesHold == Consistent => Places
BY NeighboursOf DEF Places, Consistent, Books

(* ... and so they are after the step. *)
LEMMA PlacesHoldNext == Consistent' => Places'
BY PlacesHold, PTL

(* The neighbours after a list has grown at its end: only the last entry   *)
(* gets a new successor.                                                   *)
LEMMA NextAppended ==
  ASSUME Consistent, Consistent', NEW n, ~isExisted(n), connectList' = add(n)
  PROVE  /\ connectList'.map_ = connectList.map_ \cup {n}
         /\ \A c \in connectList.map_ : \/ c = getPrev(n)'
                                        \/ getNext(c)' = getNext(c) /\ Len(connectList.list) > 1
<1>1. PICK l \in Seq(Names) : l = connectList.list /\ IsInjective(l) /\ Range(l) = connectList.map_
  BY DEF Consistent, TypeOK, Books, Registry
<1>2. PICK m \in Seq(Names) :
         m = connectList'.list /\ IsInjective(m) /\ Range(m) = connectList'.map_
  BY DEF Consistent, TypeOK, Books, Registry
<1>3. connectList' = [list |-> Append(connectList.list, n), map_ |-> connectList.map_ \cup {n}]
  BY DEF add
<1>4. m = Append(l, n) /\ connectList'.map_ = connectList.map_ \cup {n}
  BY <1>1, <1>2, <1>3
<1>5. PICK k \in Nat : k = Len(l) /\ DOMAIN l = 1..k
  BY <1>1
<1>6. n \in Names
  <2>1. connectList'.map_ \subseteq Names
    BY DEF Consistent, TypeOK
  <2> QED
    BY <1>4, <2>1
<1>7. Len(m) = k + 1 /\ m[k + 1] = n /\ \A i \in 1..k : m[i] = l[i]
  BY <1>4, <1>5, <1>6
<1>8. \A i \in 1..k : getNext(l[i]) = l[IF i = k THEN 1 ELSE i + 1]
  BY <1>1, <1>5, NeighboursOf DEF Consistent, Books
<1>9. Places'
  BY PlacesHoldNext
<1>10. \A i \in 1..k + 1 : \A c : m[i] = c => /\ getNext(c)' = m[IF i = k + 1 THEN 1 ELSE i + 1]
                                             /\ getPrev(c)' = m[IF i = 1 THEN k + 1 ELSE i - 1]
  <2>1. \A i \in DOMAIN m : \A c : m[i] = c =>
           /\ getNext(c)' = m[IF i = Len(m) THEN 1 ELSE i + 1]
           /\ getPrev(c)' = m[IF i = 1 THEN Len(m) ELSE i - 1]
    BY <1>2, <1>9 DEF Places
  <2>2. DOMAIN m = 1..k + 1 /\ Len(m) = k + 1
    BY <1>2, <1>5, <1>7
  <2> QED
    BY <2>1, <2>2
<1>11. ASSUME NEW c \in connectList.map_
       PROVE  \/ c = getPrev(n)'
              \/ getNext(c)' = getNext(c) /\ k > 1
  <2>1. PICK i \in 1..k : l[i] = c
    BY <1>1, <1>5 DEF Range
  <2>2. CASE i = k
    <3>1. k + 1 \in 1..k + 1 /\ k + 1 # 1 /\ (k + 1) - 1 = k
      BY <2>1
    <3>2. getPrev(n)' = m[k]
      BY <1>7, <1>10, <3>1
    <3> QED
      BY <1>7, <2>1, <2>2, <3>2
  <2>3. CASE i # k
    <3>1. i \in 1..k + 1 /\ i # k + 1 /\ i + 1 \in 1..k /\ k > 1
      BY <1>5, <2>3
    <3>2. getNext(c)' = m[i + 1] /\ getNext(c) = l[i + 1]
      BY <1>7, <1>8, <1>10, <2>1, <2>3, <3>1
    <3> QED
      BY <1>7, <2>1, <3>1, <3>2
  <2> QED
    BY <2>2, <2>3
<1> QED
  BY <1>1, <1>4, <1>5, <1>11

(* A new server is appended: it and its predecessor are due. *)
LEMMA BackupsInsert ==
  ASSUME Consistent, regime.oneAtATime, BackupsTold, NEW w \in Workers, Insert(w)
  PROVE  BackupsTold'
<1>1. /\ pc \in [Threads -> Labels] /\ Shape /\ w \in Threads /\ w # "loop"
      /\ pc[w] = "reg_insert" /\ w \in Inserting
  BY ValuesAssumption
     DEF Insert, InsertAs, On, Inserting, Before, Threads, Consistent, TypeOK
<1>2. \A u \in Threads \ {w} : pc[u] = "idle"
  BY <1>1, OneBusy
<1>3. PICK n : n = local[w].newAddr
  OBVIOUS
<1>4. ~isExisted(n) /\ registedMap[n] = Absent
  <2>1. PICK c \in Conns : Brings(w, c)
    BY <1>1 DEF Consistent, Steps, OncePending
  <2>2. n = c /\ ~isExisted(c) /\ c \in Names
    BY <1>1, <1>3, <2>1 DEF Brings, Waits, Names
  <2> QED
    BY <2>2 DEF Consistent, Books, Registry
<1>5. /\ connectList' = add(n) /\ Goto(w, "reg_hash") /\ UNCHANGED <<fdOf, told, local>>
  BY <1>3, <1>4 DEF Insert, InsertAs, sent
<1>6. /\ pc'[w] = "reg_hash" /\ \A u \in Threads \ {w} : pc'[u] = "idle"
  BY <1>1, <1>2, <1>5 DEF Goto
<1>7. Joining = {} /\ ~Mending /\ w \in Joining'
  BY <1>1, <1>2, <1>6 DEF Joining, Mending, After, Threads
<1>8. Consistent'
  BY InsertKeeps
<1>9. /\ connectList'.map_ = connectList.map_ \cup {n}
      /\ \A c \in connectList.map_ : \/ c = getPrev(n)'
                                     \/ getNext(c)' = getNext(c) /\ Len(connectList.list) > 1
  BY <1>4, <1>5, <1>8, NextAppended
<1>10. NextIsTold'
  <2> SUFFICES ASSUME NEW c \in connectList'.map_
               PROVE  Due(c)' \/ told'[c].backup = Host[getNext(c)']
    BY DEF NextIsTold
  <2>1. CASE c = n
    BY <1>3, <1>5, <1>7, <2>1 DEF Due
  <2>2. CASE c \in connectList.map_ /\ c = getPrev(n)'
    <3>1. local'[w].newAddr = n /\ pc'[w] # "reg_self"
      BY <1>3, <1>5, <1>6
    <3>2. c = getPrev(local[w].newAddr)'
      BY <2>2, <3>1 DEF getPrev, node
    <3> QED
      BY <1>7, <3>1, <3>2 DEF Due
  <2>3. CASE c \in connectList.map_ /\ getNext(c)' = getNext(c) /\ Len(connectList.list) > 1
    <3>1. ~Due(c)
      BY <1>7, DueIs
    <3> QED
      BY <1>5, <2>3, <3>1 DEF BackupsTold, NextIsTold
  <2> QED
    BY <1>9, <2>1, <2>2, <2>3
<1>11. KnowsNeighbours' /\ KnowsGap'
  BY <1>1, <1>6 DEF KnowsNeighbours, Knows, KnowsGap, Gap, Threads
<1> QED
  BY <1>10, <1>11 DEF BackupsTold

(* Without the k-th entry, the entry before it is followed by the one      *)
(* after it, and every other entry by the same as before.                  *)
LEMMA RemovedFromCircle ==
  ASSUME NEW n \in Nat, n > 1, NEW k \in 1..n, NEW j \in 1..n, j # k,
         NEW i, i = IF j < k THEN j ELSE j - 1,
         NEW nxt, nxt = IF j = n THEN 1 ELSE j + 1,
         NEW to, to = IF nxt = k THEN IF k = n THEN 1 ELSE k + 1 ELSE nxt,
         NEW from, from = IF i = n - 1 THEN 1 ELSE i + 1
  PROVE  /\ i \in 1..n - 1 /\ from \in 1..n - 1 /\ to \in 1..n
         /\ (IF i < k THEN i ELSE i + 1) = j
         /\ (IF from < k THEN from ELSE from + 1) = to
OBVIOUS

(* The list that RemoveAt() leaves, entry by entry *)
LEMMA RemovedIs ==
  ASSUME NEW S, NEW l \in Seq(S), IsInjective(l), NEW n, n = Len(l), NEW k \in DOMAIN l,
         NEW m, m = RemoveAt(l, k), NEW i \in 1..n - 1
  PROVE  m[i] = IF i < k THEN l[i] ELSE l[i + 1]
<1>1. /\ m \in Seq(S) /\ Len(m) = Len(l) - 1
      /\ \A j \in DOMAIN m : m[j] = IF j < k THEN l[j] ELSE l[j + 1]
  BY RemoveOne
<1> QED
  BY <1>1

(* The neighbours after a server has left *)
LEMMA NextRemoved ==
  ASSUME Consistent, Consistent', NEW c \in connectList.map_, connectList' = del(c)
  PROVE  /\ connectList'.map_ = connectList.map_ \ {c}
         /\ Len(connectList'.list) = Len(connectList.list) - 1
         /\ \A d \in connectList'.map_ :
              getNext(d)' = IF getNext(d) = c THEN getNext(c) ELSE getNext(d)
<1>1. PICK l \in Seq(Names) : l = connectList.list /\ IsInjective(l) /\ Range(l) = connectList.map_
  BY DEF Consistent, TypeOK, Books, Registry
<1>2. PICK n \in Nat : n = Len(l) /\ DOMAIN l = 1..n
  BY <1>1
<1>3. PICK k \in 1..n : l[k] = c
  BY <1>1, <1>2 DEF Range
<1>4. node(c) = k
  BY <1>1, <1>2, <1>3, NodeOf DEF node
<1>5. connectList' = [list |-> RemoveAt(l, k), map_ |-> connectList.map_ \ {c}]
  BY <1>1, <1>4 DEF del
<1>6. k \in DOMAIN l
  BY <1>2
<1>7. PICK m : m = RemoveAt(l, k)
  OBVIOUS
<1>8. /\ m \in Seq(Names) /\ Len(m) = n - 1
      /\ \A i \in 1..n - 1 : m[i] = IF i < k THEN l[i] ELSE l[i + 1]
  <2>1. m \in Seq(Names) /\ Len(m) = n - 1
    BY <1>1, <1>2, <1>6, <1>7, RemoveOne
  <2>2. \A i \in 1..n - 1 : m[i] = IF i < k THEN l[i] ELSE l[i + 1]
    BY <1>1, <1>2, <1>6, <1>7, RemovedIs
  <2> QED
    BY <2>1, <2>2
<1>9. DOMAIN m = 1..n - 1 /\ connectList'.list = m /\ connectList'.map_ = connectList.map_ \ {c}
  BY <1>2, <1>5, <1>7, <1>8
<1>10. \A i \in 1..n : \A d : l[i] = d => getNext(d) = l[IF i = n THEN 1 ELSE i + 1]
  <2>1. Places
    BY PlacesHold
  <2> QED
    BY <1>1, <1>2, <2>1 DEF Places
<1>11. \A i \in 1..n - 1 : \A d : m[i] = d => getNext(d)' = m[IF i = n - 1 THEN 1 ELSE i + 1]
  <2>1. Places'
    BY PlacesHoldNext
  <2>2. PICK q : q = connectList'.list
    OBVIOUS
  <2>3. \A i \in DOMAIN q : \A d : q[i] = d => getNext(d)' = q[IF i = Len(q) THEN 1 ELSE i + 1]
    BY <2>1, <2>2 DEF Places
  <2>4. q = m /\ DOMAIN q = 1..n - 1 /\ Len(q) = n - 1
    BY <1>8, <1>9, <2>2
  <2> QED
    BY <2>3, <2>4
<1>12. ASSUME NEW d \in connectList'.map_
       PROVE  getNext(d)' = IF getNext(d) = c THEN getNext(c) ELSE getNext(d)
  <2>1. PICK j \in 1..n : l[j] = d /\ j # k
    BY <1>1, <1>2, <1>3, <1>9 DEF Range
  <2>2. n > 1
    BY <2>1
  <2>3. PICK i, nxt, to, from :
          /\ i = IF j < k THEN j ELSE j - 1
          /\ nxt = IF j = n THEN 1 ELSE j + 1
          /\ to = IF nxt = k THEN IF k = n THEN 1 ELSE k + 1 ELSE nxt
          /\ from = IF i = n - 1 THEN 1 ELSE i + 1
    OBVIOUS
  <2>4. /\ i \in 1..n - 1 /\ from \in 1..n - 1 /\ to \in 1..n
        /\ (IF i < k THEN i ELSE i + 1) = j
        /\ (IF from < k THEN from ELSE from + 1) = to
    BY <2>1, <2>2, <2>3, RemovedFromCircle
  <2>5. m[i] = d /\ m[from] = l[to]
    <3>1. m[i] = l[IF i < k THEN i ELSE i + 1]
      BY <1>8, <1>9, <2>4
    <3>2. m[from] = l[IF from < k THEN from ELSE from + 1]
      BY <1>8, <1>9, <2>4
    <3> QED
      BY <2>1, <2>4, <3>1, <3>2
  <2>6. getNext(d)' = l[to]
    BY <1>11, <2>3, <2>4, <2>5
  <2>7. getNext(d) = l[nxt] /\ getNext(c) = l[IF k = n THEN 1 ELSE k + 1] /\ nxt \in 1..n
    BY <1>3, <1>10, <2>1, <2>3
  <2>8. getNext(d) = c <=> nxt = k
    BY <1>1, <1>2, <1>3, <2>7 DEF IsInjective
  <2> QED
    BY <2>3, <2>6, <2>7, <2>8
<1> QED
  BY <1>1, <1>2, <1>8, <1>9, <1>12

(* A server is erased: its predecessor is due. *)
LEMMA BackupsErase ==
  ASSUME Consistent, regime.oneAtATime, BackupsTold, Erase
  PROVE  BackupsTold'
<1>1. /\ pc \in [Threads -> Labels] /\ Shape /\ TypeOK /\ Registry
      /\ "loop" \in Threads /\ "loop" \notin Workers /\ Workers \subseteq Threads
      /\ pc["loop"] = "erase"
  BY ValuesAssumption DEF Erase, EraseExcept, On, Threads, Consistent, TypeOK, Books
<1>2. \A u \in Threads \ {"loop"} : pc[u] = "idle"
  BY <1>1, OneBusy
<1>3. PICK c, l : l = local["loop"] /\ c = l.newAddr
  OBVIOUS
<1>4. /\ c \in connectList.map_ /\ l.cfd = fdOf[c] /\ c \in Conns /\ fdOf[c] # Absent
      /\ l.prev_fd = fdOf[getPrev(c)] /\ l.next_fd = fdOf[getNext(c)]
  BY <1>1, <1>3, MembersDiffer
     DEF Consistent, Steps, Leaving, Mourning, LeavingAt, isExisted, BackupsTold, KnowsGap, Gap,
         Registry
<1>5. (CHOOSE d \in Conns : fdOf[d] = l.cfd) = c
  BY <1>4 DEF Consistent, Books, Descriptors
<1>6. /\ connectList' = del(c) /\ fdOf' = [fdOf EXCEPT ![c] = Absent]
      /\ Goto("loop", "uh_build") /\ UNCHANGED <<told, local>>
  BY <1>3, <1>5 DEF Erase, EraseExcept, sent
<1>7. /\ pc'["loop"] = "uh_build" /\ local'["loop"] = l
      /\ \A u \in Threads \ {"loop"} : pc'[u] = "idle"
  BY <1>1, <1>2, <1>3, <1>6 DEF Goto
<1>8. Joining = {} /\ ~Mending /\ Mending'
  BY <1>1, <1>2, <1>7 DEF Joining, Mending, After
<1>9. Consistent'
  BY EraseKeeps
<1>10. /\ connectList'.map_ = connectList.map_ \ {c}
      /\ Len(connectList'.list) = Len(connectList.list) - 1
      /\ \A d \in connectList'.map_ :
           getNext(d)' = IF getNext(d) = c THEN getNext(c) ELSE getNext(d)
  BY <1>4, <1>6, <1>9, NextRemoved
<1>11. \A d \in connectList'.map_ : fdOf'[d] = fdOf[d] /\ d \in Conns
  BY <1>1, <1>6, <1>10 DEF TypeOK, Registry
<1>12. PICK p : p = getPrev(c)
  OBVIOUS
<1>13. /\ p \in connectList.map_ /\ getNext(p) = c /\ getNext(c) \in connectList.map_
       /\ \A d \in connectList.map_ : getNext(d) = c => d = p
       /\ Len(connectList.list) > 1 => p # c /\ getNext(c) # c
  BY <1>1, <1>4, <1>12, Circle, MembersDiffer
<1>14. Len(connectList.list) \in Nat /\ (connectList'.map_ # {} => Len(connectList.list) > 1)
  <2>1. PICK s \in Seq(Names) : s = connectList.list /\ Range(s) = connectList.map_
    BY <1>1 DEF TypeOK, Registry
  <2>2. ASSUME NEW d \in connectList.map_, d # c PROVE Len(s) > 1
    <3>1. PICK i \in DOMAIN s, j \in DOMAIN s : s[i] = c /\ s[j] = d
      BY <1>4, <2>1, <2>2 DEF Range
    <3>2. i # j /\ i \in 1..Len(s) /\ j \in 1..Len(s) /\ Len(s) \in Nat
      BY <2>2, <3>1
    <3> QED
      BY <3>2
  <2> QED
    BY <1>10, <2>1, <2>2
<1>15. NextIsTold'
  <2> SUFFICES ASSUME Len(connectList'.list) > 1, NEW d \in connectList'.map_
               PROVE  Due(d)' \/ told'[d].backup = Host[getNext(d)']
    BY DEF NextIsTold
  <2>1. CASE d = p
    BY <1>4, <1>7, <1>8, <1>11, <1>12, <2>1 DEF Due
  <2>2. CASE d # p
    <3>1. getNext(d)' = getNext(d) /\ d \in connectList.map_
      BY <1>10, <1>13, <2>2
    <3>2. ~Due(d)
      BY <1>8, DueIs
    <3>3. Len(connectList.list) > 1
      BY <1>14
    <3> QED
      BY <1>6, <3>1, <3>2, <3>3 DEF BackupsTold, NextIsTold
  <2> QED
    BY <2>1, <2>2
<1>16. KnowsGap'
  <2>1. ASSUME connectList'.map_ # {}
        PROVE  p \in connectList'.map_ /\ l.prev_fd = fdOf'[p] /\ l.next_fd = fdOf'[getNext(p)']
    <3>1. p # c /\ getNext(c) # c
      BY <1>13, <1>14, <2>1
    <3>2. p \in connectList'.map_ /\ getNext(c) \in connectList'.map_
      BY <1>10, <1>13, <3>1
    <3>3. getNext(p)' = getNext(c)
      BY <1>10, <1>13, <3>2
    <3> QED
      BY <1>4, <1>11, <1>12, <3>2, <3>3
  <2> QED
    BY <1>7, <2>1 DEF KnowsGap, Gap
<1>17. KnowsNeighbours'
  BY <1>1, <1>7 DEF KnowsNeighbours, Knows
<1> QED
  BY <1>15, <1>16, <1>17 DEF BackupsTold

(* Every step keeps the backups. *)
LEMMA BackupsNext ==
  ASSUME Consistent, regime.oneAtATime, BackupsTold,
         [Next]_vars \/ \E c \in Conns : dealwithMasterMsg(c)
  PROVE  BackupsTold'
<1>1. CASE \E c \in Conns : \/ Connect(c) \/ Die(c) \/ NewConn(c) \/ Announce(c) \/ Disconnect(c)
  BY <1>1, BackupsOutside
<1>2. CASE \/ UNCHANGED vars \/ \E c \in Conns : dealwithMasterMsg(c)
           \/ \E k \in Keys : Client(k)
  <2>1. UNCHANGED <<connectList, fdOf, pc, local, told>>
    BY <1>2 DEF vars, registry, dealwithMasterMsg, Client, sent
  <2> QED
    BY <2>1, BackupsUnread
<1>3. CASE Erase \/ BuildRing("loop") \/ SendRings("loop") \/ SendRecover \/ SendRebackup
  <2>1. "loop" \in Threads
    BY DEF Threads
  <2>2. CASE Erase
    BY <2>2, BackupsErase
  <2>3. CASE BuildRing("loop") \/ SendRings("loop")
    BY <2>1, <2>3, BackupsThread
  <2>4. CASE SendRecover \/ SendRebackup
    BY <2>4, BackupsMend
  <2> QED
    BY <1>3, <2>2, <2>3, <2>4
<1>4. ASSUME NEW w \in Workers, Worker(w) PROVE BackupsTold'
  <2>1. w \in Threads
    BY DEF Threads
  <2>2. CASE \/ BuildRing(w) \/ SendRings(w) \/ TakeRegister(w) \/ ReadAddr(w)
             \/ CopyRegisted(w) \/ AddToHash(w) \/ SendMove(w) \/ CheckExists(w)
             \/ \E k \in Keys : GetDistribute(w, k)
    BY <2>1, <2>2, BackupsThread
  <2>3. CASE ReadNeighbours(w) \/ ReadFds(w)
    BY <2>3, BackupsNeighbours
  <2>4. CASE BackupPrev(w) \/ BackupSelf(w) \/ Insert(w)
    BY <2>4, BackupsPrev, BackupsSelf, BackupsInsert
  <2> QED
    BY <1>4, <2>2, <2>3, <2>4 DEF Worker, Register
<1>5. CASE LeaveNeighbours \/ LeaveFds
  BY <1>5, BackupsLeave
<1> QED
  BY <1>1, <1>2, <1>3, <1>4, <1>5 DEF Next, Loop, Leave

-----------------------------------------------------------------------------
(* The rings and the backups                                               *)

(* Where servers come and go one at a time, no assumption on the other     *)
(* scenarios is needed.                                                    *)
Ordered == regime.oneAtATime => Consistent /\ RingsTold /\ BackupsTold

(* At first there is no server to tell anything. *)
LEMMA InitOrdered ==
  ASSUME Init
  PROVE  Ordered
<1>1. Consistent
  BY InitConsistent
<1>2. connectList.map_ = {} /\ \A t \in Threads : pc[t] = "idle"
  BY DEF Init
<1>3. RingsTold
  BY <1>2 DEF RingsTold
<1>4. BackupsTold
  <2>1. "loop" \in Threads /\ Workers \subseteq Threads
    BY DEF Threads
  <2> QED
    BY <1>2, <2>1 DEF BackupsTold, NextIsTold, KnowsNeighbours, Knows, KnowsGap, Gap
<1> QED
  BY <1>1, <1>3, <1>4 DEF Ordered

(* Every step of the cluster keeps the order. *)
LEMMA OrderKept ==
  ASSUME Ordered, [ClusterNext]_cvars
  PROVE  Ordered'
<1>1. [Next]_vars \/ \E c \in Conns : dealwithMasterMsg(c)
  BY ClusterSteps
<1>2. UNCHANGED regime
  BY <1>1, RegimeKept DEF dealwithMasterMsg
<1>3. ASSUME regime.oneAtATime PROVE Consistent' /\ RingsTold' /\ BackupsTold'
  <2>1. Consistent /\ RingsTold /\ BackupsTold
    BY <1>3 DEF Ordered
  <2>2. Consistent'
    <3>1. ASSUME NEW c \in Conns, dealwithMasterMsg(c) PROVE Consistent'
      BY <2>1, <3>1, UnreadKeeps DEF dealwithMasterMsg
    <3> QED
      BY <1>1, <1>3, <2>1, <3>1, NextKeeps DEF Calm
  <2> QED
    BY <1>1, <1>3, <2>1, <2>2, RingsNext, BackupsNext
<1> QED
  BY <1>2, <1>3 DEF Ordered

(* At rest nothing is being updated and no member is due. *)
LEMMA OrderedAtRest ==
  ASSUME Ordered, regime.oneAtATime, AtRest
  PROVE  /\ \A c \in connectList.map_ : told[c].ring = LiveHosts
         /\ Len(connectList.list) > 1 =>
              \A c \in connectList.map_ : told[c].backup = Host[getNext(c)]
<1>1. \A t \in Threads : pc[t] = "idle"
  BY DEF AtRest
<1>2. ~Mending /\ Joining = {}
  BY <1>1 DEF Mending, Joining, After, Threads
<1> QED
  BY <1>1, <1>2 DEF Ordered, RingsTold, Updating, BackupsTold, NextIsTold, Due

(* Every registered server was last sent the ring of exactly the           *)
(* registered servers, whatever came and went before (UpdateHash()).       *)
THEOREM RingsAgreeAtRest == ClusterSpec => []RingsAgree
<1>1. ClusterInit => Ordered
  BY InitOrdered DEF ClusterInit
<1>2. Ordered /\ [ClusterNext]_cvars => Ordered'
  BY OrderKept
<1>3. Ordered => RingsAgree
  BY OrderedAtRest DEF RingsAgree, isExisted
<1> QED
  BY <1>1, <1>2, <1>3, PTL DEF ClusterSpec

(* Every registered server was last told to keep its backup on its         *)
(* successor, however many there are and wherever servers joined and left  *)
(* (Register(), dealwithCacheServer()).                                    *)
THEOREM BackupsFormACycle == ClusterSpec => []BackupCycle
<1>1. ClusterInit => Ordered
  BY InitOrdered DEF ClusterInit
<1>2. Ordered /\ [ClusterNext]_cvars => Ordered'
  BY OrderKept
<1>3. Ordered => BackupCycle
  BY OrderedAtRest DEF BackupCycle, isExisted
<1> QED
  BY <1>1, <1>2, <1>3, PTL DEF ClusterSpec

-----------------------------------------------------------------------------
(* The commands on their way                                               *)

Commands == [cmd : {"UPDATE_HASH", "MOVE_DATA", "RECOVER_BACKUP", "UPDATE_BACKUP"},
             addrs : SUBSET Servers, nul : BOOLEAN]

NodesShape ==
    /\ inbox \in [Conns -> Seq(Commands)] /\ threads \in [Conns -> Seq(Commands)]
    /\ ring = [c \in Conns |-> ring[c]] /\ sentTo = [c \in Conns |-> sentTo[c]]

(* Something is on its way that will change the list, and nothing else is. *)
Waiting == unread # {} \/ ~NoRegister \/ Inserting # {} \/ Dead # {}

(* The member has been sent the ring that follows the last change. *)
Passed(f, l, r) ==
    /\ l \notin {"reg_hash", "uh_build"}
    /\ l = "uh_send" => f <= r.cur

Reached(c) ==
    isExisted(c) /\ c \notin Dead /\ \A t \in Threads : Passed(fdOf[c], pc[t], local[t])

Clear(c) == inbox[c] = <<>> /\ threads[c] = <<>>

(* A command that is no ring and only names members *)
Brief(m) == m.cmd # "UPDATE_HASH" /\ m.addrs \subseteq LiveHosts

(* The ring is the first thing it will read, or it has read it and has not *)
(* been sent another.                                                      *)
Fresh(c) ==
    /\ inbox[c] # <<>> /\ threads[c] = <<>>
    /\ inbox[c][1].cmd = "UPDATE_HASH" /\ inbox[c][1].addrs = LiveHosts
    /\ \A i \in 2..Len(inbox[c]) : Brief(inbox[c][i])

Current(c) ==
    /\ \A i \in 1..Len(inbox[c]) : Brief(inbox[c][i])
    /\ ring[c] \cap Servers = LiveHosts
    /\ "dropped" \notin faults => ring[c] = LiveHosts

Served(c) ==
    /\ ~Reached(c) \/ Waiting => Clear(c)
    /\ Reached(c) => Fresh(c) \/ Current(c)

(* MOVE_DATA goes to servers that were members when Register() began. *)
NotifiesMembers ==
    \A w \in Workers : pc[w] \in After \cup {"reg_insert"} => local[w].notity \subseteq MemberFds

Delivery == NodesShape /\ NotifiesMembers /\ \A c \in regime.observed : Served(c)

(* The servers whose commands are followed are connections. *)
LEMMA ObservedAre ==
  ASSUME TypeOK
  PROVE  regime.observed \subseteq Conns /\ regime.oneAtATime \in BOOLEAN
BY MasterAssumption DEF TypeOK

(* What is sent on the descriptor of a member arrives there. *)
LEMMA SendDelivers ==
  ASSUME Consistent, NodesShape, Dead = {}, NEW f \in MemberFds, NEW m \in Commands, NEW news,
         Send(f, m, news)
  PROVE  /\ inbox' \in [Conns -> Seq(Commands)]
         /\ \A c \in Conns : fdOf[c] # f => inbox'[c] = inbox[c]
         /\ \A c \in regime.observed : fdOf[c] = f => inbox'[c] = Append(inbox[c], m)
<1> USE DEF Consistent, Books
<1>1. PICK c \in connectList.map_ : fdOf[c] = f
  BY DEF MemberFds
<1>2. c \in Conns /\ f # Absent
  BY <1>1, RegisteredAre, MasterAssumption DEF Registry
<1>3. \A d \in Conns : fdOf[d] = f => d = c
  BY <1>1, <1>2 DEF Descriptors
<1>4. (CHOOSE d \in Conns : fdOf[d] = f) = c
  BY <1>1, <1>2, <1>3
<1>5. peer[c] = "alive"
  BY <1>1, <1>2 DEF Descriptors, Dead
<1>6. inbox' = IF c \in regime.observed THEN [inbox EXCEPT ![c] = Append(@, m)] ELSE inbox
  <2> HIDE DEF Consistent, Books
  <2> QED
    BY <1>1, <1>2, <1>4, <1>5 DEF Send
<1>7. Append(inbox[c], m) \in Seq(Commands)
  BY <1>2 DEF NodesShape
<1> QED
  BY <1>1, <1>2, <1>3, <1>6, <1>7, ObservedAre DEF NodesShape

(* A command more at the end *)
LEMMA AppendedIs ==
  ASSUME NEW S, NEW s \in Seq(S), NEW m \in S
  PROVE  /\ Append(s, m) \in Seq(S) /\ Append(s, m) # <<>>
         /\ Len(Append(s, m)) = Len(s) + 1
         /\ Append(s, m)[1] = IF s = <<>> THEN m ELSE s[1]
         /\ \A i \in 1..Len(s) : Append(s, m)[i] = s[i]
         /\ Append(s, m)[Len(s) + 1] = m
<1>1. s = <<>> <=> Len(s) = 0
  OBVIOUS
<1> QED
  BY <1>1

(* As long as the list waits to be changed, nobody is being told anything. *)
LEMMA WaitingStill ==
  ASSUME Consistent, regime.oneAtATime, Waiting
  PROVE  /\ \A w \in Workers : pc[w] \in Before \cup {"idle"}
         /\ pc["loop"] \in Mourning \cup {"idle"}
<1> USE DEF Consistent, Steps
<1>1. \A w \in Workers : pc[w] \in Before \cup {"idle"}
  <2>1. CASE Inserting # {}
    BY <2>1, OneBusy DEF Inserting, Threads, Before
  <2>2. CASE unread # {} \/ ~NoRegister \/ Dead # {}
    BY <2>2 DEF Undisturbed, Alone
  <2> QED
    BY <2>1, <2>2 DEF Waiting
<1>2. pc["loop"] \in Mourning \cup {"idle"}
  <2>1. CASE Dead # {}
    BY <2>1 DEF Leaving
  <2>2. CASE pc["loop"] # "idle"
    BY <2>1, <2>2 DEF Undisturbed, Waiting, Inserting, Before
  <2> QED
    BY <2>1, <2>2
<1> QED
  BY <1>1, <1>2

(* The frame: nothing of what is on its way to c changes. *)
LEMMA ServedKept ==
  ASSUME NEW c, Served(c), ring'[c] = ring[c], inbox'[c] = inbox[c], threads'[c] = threads[c],
         faults \subseteq faults', LiveHosts' = LiveHosts,
         Reached(c)' => Reached(c),
         ~Reached(c)' \/ Waiting' => ~Reached(c) \/ Waiting \/ Clear(c)
  PROVE  Served(c)'
<1>1. Clear(c)' <=> Clear(c)
  BY DEF Clear
<1>2. Fresh(c) => Fresh(c)'
  BY DEF Fresh, Brief
<1>3. Current(c) => Current(c)'
  BY DEF Current, Brief
<1> QED
  BY <1>1, <1>2, <1>3 DEF Served

(* Nobody has been sent the ring that follows the change, *)
LEMMA NotReached ==
  ASSUME NEW c, ~Reached(c)', inbox'[c] = <<>>, threads'[c] = <<>>
  PROVE  Served(c)'
BY DEF Served, Clear

(* Nothing is on its way while the list waits to be changed. *)
LEMMA WaitingClear ==
  ASSUME Delivery, Waiting, NEW c \in regime.observed
  PROVE  Clear(c) /\ (Reached(c) => Current(c))
BY DEF Delivery, Served, Clear, Fresh

(* The same holds when all rests. *)
LEMMA RestClear ==
  ASSUME Consistent, Delivery, AtRest, NodesAtRest, NEW c \in regime.observed
  PROVE  Clear(c) /\ (Reached(c) => Current(c))
<1>1. c \in Conns
  BY ObservedAre DEF Consistent
<1>2. Reached(c) => peer[c] = "alive"
  BY <1>1 DEF Reached, isExisted, Consistent, Books, Registry, Descriptors, Dead
<1>3. CASE Reached(c)
  BY <1>1, <1>2, <1>3 DEF Clear, AtRest, NodesAtRest, Delivery, Served, Fresh
<1>4. CASE ~Reached(c)
  BY <1>4 DEF Delivery, Served
<1> QED
  BY <1>3, <1>4

(* Nor is it before the ring is sent. *)
LEMMA UnreachedClear ==
  ASSUME Delivery, NEW t \in Threads, pc[t] \in {"reg_hash", "uh_build"},
         NEW c \in regime.observed
  PROVE  Clear(c)
BY DEF Delivery, Served, Reached, Passed

(* The same list means the same addresses. *)
LEMMA SameHosts == UNCHANGED connectList => LiveHosts' = LiveHosts
BY DEF LiveHosts, isExisted

(* A change that nothing was on its way before, and nothing is after *)
LEMMA StillClear ==
  ASSUME NEW c, Clear(c), Reached(c) => Current(c), ring'[c] = ring[c],
         inbox'[c] = <<>>, threads'[c] = <<>>,
         faults \subseteq faults', UNCHANGED connectList, Reached(c)' => Reached(c)
  PROVE  Served(c)'
<1>1. LiveHosts' = LiveHosts
  BY SameHosts
<1>2. Current(c) => Current(c)'
  BY <1>1 DEF Current, Clear
<1> QED
  BY <1>2 DEF Served, Clear

(* Who is reached depends on where the threads are, *)
LEMMA ReachedSame ==
  ASSUME UNCHANGED <<connectList, peer>>, NEW c \in connectList.map_, fdOf'[c] = fdOf[c],
         \A t \in Threads : Passed(fdOf[c], pc'[t], local'[t]) <=> Passed(fdOf[c], pc[t], local[t])
  PROVE  Reached(c)' <=> Reached(c)
BY DEF Reached, isExisted, Dead

(* and a server that is in no list is not. *)
LEMMA NotMemberNext ==
  ASSUME NEW c, UNCHANGED connectList, c \notin connectList.map_
  PROVE  ~Reached(c) /\ ~Reached(c)'
BY DEF Reached, isExisted

(* A step that sends nothing and leaves everybody where it was *)
LEMMA DeliveryKept ==
  ASSUME Delivery, NotifiesMembers', Waiting' => Waiting,
         UNCHANGED <<regime, peer, connectList, inbox, ring, threads, sentTo, faults>>,
         \A c \in connectList.map_ : fdOf'[c] = fdOf[c],
         \A t \in Threads : \A c \in connectList.map_ :
            Passed(fdOf[c], pc'[t], local'[t]) <=> Passed(fdOf[c], pc[t], local[t])
  PROVE  Delivery'
<1>1. NodesShape'
  BY DEF Delivery, NodesShape
<1>2. \A c : Reached(c)' <=> Reached(c)
  BY ReachedSame, NotMemberNext
<1>3. LiveHosts' = LiveHosts
  BY SameHosts
<1>4. ASSUME NEW c \in regime.observed PROVE Served(c)'
  BY <1>2, <1>3, ServedKept DEF Delivery
<1> QED
  BY <1>1, <1>4 DEF Delivery

(* Who is notified, is a member while the members stay. *)
LEMMA NotifiesKept ==
  ASSUME NotifiesMembers,
         connectList.map_ \subseteq connectList'.map_,
         \A c \in connectList.map_ : fdOf'[c] = fdOf[c],
         \A w \in Workers : pc'[w] \in After \cup {"reg_insert"} =>
            \/ local'[w].notity \subseteq MemberFds
            \/ pc[w] \in After \cup {"reg_insert"} /\ local'[w].notity \subseteq local[w].notity
  PROVE  NotifiesMembers'
<1>1. MemberFds \subseteq MemberFds'
  BY DEF MemberFds
<1> QED
  BY <1>1 DEF NotifiesMembers

(* A server connects: nothing is on its way. *)
LEMMA DeliveryConnect ==
  ASSUME Consistent, regime.oneAtATime, Delivery, NEW c \in Conns, NodeConnect(c)
  PROVE  Delivery'
<1>1. /\ AtRest /\ NodesAtRest /\ UNCHANGED nodes /\ peer[c] = "none"
      /\ peer' = [peer EXCEPT ![c] = "alive"]
      /\ UNCHANGED <<regime, fdOf, connectList, pc, local, inbox>>
  BY DEF NodeConnect, Connect, MayChange, registry, sent
<1>2. NodesShape' /\ NotifiesMembers'
  BY <1>1 DEF Delivery, NodesShape, NotifiesMembers, nodes, MemberFds
<1>3. ASSUME NEW d \in regime.observed PROVE Served(d)'
  <2>1. Clear(d) /\ (Reached(d) => Current(d))
    BY <1>1, RestClear
  <2>2. Reached(d)' => Reached(d)
    BY <1>1 DEF Reached, isExisted, Dead, Consistent, TypeOK, Passed
  <2> QED
    BY <1>1, <2>1, <2>2, StillClear DEF Clear, nodes
<1> QED
  BY <1>1, <1>2, <1>3 DEF Delivery

(* One dies, and takes what is its own with it. *)
LEMMA DeliveryDie ==
  ASSUME Consistent, regime.oneAtATime, Delivery, NEW c \in Conns, NodeDie(c)
  PROVE  Delivery'
<1>1. /\ AtRest /\ NodesAtRest
      /\ peer' = [peer EXCEPT ![c] = "dead"]
      /\ UNCHANGED <<regime, fdOf, connectList, pc, local, faults>>
      /\ inbox' = [inbox EXCEPT ![c] = <<>>]
      /\ threads' = [threads EXCEPT ![c] = <<>>]
      /\ ring' = [ring EXCEPT ![c] = {}]
      /\ sentTo' = [d \in Conns |-> IF d = c THEN {} ELSE sentTo[d] \ {Host[c]}]
  BY DEF NodeDie, Die, MayChange, registry
<1>2. NodesShape' /\ NotifiesMembers'
  <2>1. NotifiesMembers'
    BY <1>1 DEF Delivery, NotifiesMembers, MemberFds
  <2>2. <<>> \in Seq(Commands)
    OBVIOUS
  <2>3. inbox' \in [Conns -> Seq(Commands)] /\ threads' \in [Conns -> Seq(Commands)]
    BY <1>1, <2>2 DEF Delivery, NodesShape
  <2>4. ring' = [d \in Conns |-> ring'[d]] /\ sentTo' = [d \in Conns |-> sentTo'[d]]
    BY <1>1 DEF Delivery, NodesShape
  <2> QED
    BY <2>1, <2>3, <2>4 DEF NodesShape
<1>3. ASSUME NEW d \in regime.observed PROVE Served(d)'
  <2>1. d \in Conns /\ peer' \in [Conns -> {"none", "alive", "dead", "gone"}]
    BY <1>1, ObservedAre DEF Consistent, TypeOK
  <2>2. Clear(d) /\ (Reached(d) => Current(d))
    BY <1>1, RestClear
  <2>3. inbox'[d] = <<>> /\ threads'[d] = <<>>
    BY <1>1, <2>1, <2>2 DEF Clear, Delivery, NodesShape
  <2>4. CASE d = c
    <3>1. ~Reached(d)'
      BY <1>1, <2>1, <2>4 DEF Reached, Dead, Consistent, TypeOK
    <3> QED
      BY <2>3, <3>1, NotReached
  <2>5. CASE d # c
    <3>1. Reached(d)' => Reached(d)
      BY <1>1, <2>1, <2>5 DEF Reached, isExisted, Dead, Consistent, TypeOK, Passed
    <3>2. ring'[d] = ring[d]
      BY <1>1, <2>1, <2>5 DEF Delivery, NodesShape
    <3> QED
      BY <1>1, <2>2, <2>3, <3>1, <3>2, StillClear
  <2> QED
    BY <2>4, <2>5
<1> QED
  BY <1>1, <1>2, <1>3 DEF Delivery

(* A client asks, a connection is accepted, a server has called listen(). *)
LEMMA DeliveryAccept ==
  ASSUME Consistent, Delivery, UNCHANGED nodes, NEW c \in Conns,
         NewConn(c) \/ \E k \in Keys : Client(k)
  PROVE  Delivery'
<1>1. /\ UNCHANGED <<regime, peer, unread, connectList, pc, local, inbox>>
      /\ \A d \in Conns : fdOf[d] # Absent => fdOf'[d] = fdOf[d]
  <2>1. CASE NewConn(c)
    BY <2>1 DEF NewConn, outside, sent, Consistent, TypeOK
  <2>2. CASE \E k \in Keys : Client(k)
    BY <2>2 DEF Client, outside, registry, sent
  <2> QED
    BY <2>1, <2>2
<1>2. \A d \in connectList.map_ : fdOf'[d] = fdOf[d]
  BY <1>1 DEF Consistent, Books, Registry
<1>3. NotifiesMembers'
  BY <1>1, <1>2, NotifiesKept DEF Delivery
<1>4. NoRegister => NoRegister'
  <2>1. CASE NewConn(c)
    BY <2>1 DEF NewConn, NoRegister, IsRegister
  <2>2. ASSUME NEW k \in Keys, Client(k) PROVE NoRegister => NoRegister'
    <3>1. /\ [type |-> "GETDISTRIBUTE", key |-> k] \in Requests
          /\ Enqueue([type |-> "GETDISTRIBUTE", key |-> k])
      BY <2>2 DEF Client, Requests
    <3>2. PICK r \in Requests : r.type = "GETDISTRIBUTE" /\ Enqueue(r)
      BY <3>1
    <3> QED
      BY <3>2, Enqueued DEF NoRegister, IsRegister, Consistent
  <2> QED
    BY <2>1, <2>2
<1>5. Waiting' => Waiting
  BY <1>1, <1>4 DEF Waiting, Inserting, Dead
<1> QED
  BY <1>1, <1>2, <1>3, <1>5, DeliveryKept DEF nodes

(* A server announces itself, or is seen to have left. *)
LEMMA DeliveryWaits ==
  ASSUME Consistent, regime.oneAtATime, Delivery, UNCHANGED nodes, NEW c \in Conns,
         Announce(c) \/ Disconnect(c)
  PROVE  Delivery'
<1>1. /\ UNCHANGED <<regime, peer, fdOf, connectList, inbox>>
      /\ \A t \in Threads : pc'[t] \notin {"reg_hash", "uh_build", "uh_send"} =>
            pc[t] \notin {"reg_hash", "uh_build", "uh_send"}
      /\ \A t \in Workers : UNCHANGED <<pc[t], local[t]>>
  BY ValuesAssumption DEF Announce, Disconnect, LeaveList, EndOfFile, outside, registry, sent,
     On, Goto, Consistent, TypeOK, Shape, Threads
<1>2. Waiting
  BY DEF Announce, Disconnect, LeaveList, EndOfFile, Waiting, Dead
<1>3. NodesShape' /\ NotifiesMembers'
  <2>1. NotifiesMembers'
    BY <1>1, NotifiesKept DEF Delivery
  <2>2. NodesShape'
    BY <1>1 DEF Delivery, NodesShape, nodes
  <2> QED
    BY <2>1, <2>2
<1>4. ASSUME NEW d \in regime.observed PROVE Served(d)'
  <2>1. Clear(d) /\ (Reached(d) => Current(d))
    BY <1>2, WaitingClear
  <2>2. Reached(d)' => Reached(d)
    BY <1>1, <1>2, WaitingStill DEF Reached, isExisted, Dead, Passed, Threads, Before, Mourning
  <2> QED
    BY <1>1, <2>1, <2>2, StillClear DEF Clear, nodes
<1> QED
  BY <1>1, <1>3, <1>4 DEF Delivery

(* The event loop goes on with the server that left. *)
LEMMA DeliveryLeave ==
  ASSUME Consistent, Delivery, UNCHANGED nodes, LeaveNeighbours \/ LeaveFds
  PROVE  Delivery'
<1>1. UNCHANGED <<regime, peer, fdOf, connectList, inbox>>
  BY DEF LeaveNeighbours, LeaveFds, outside, registry, sent
<1>2. /\ pc["loop"] \in {"leave", "leave_fds"} /\ pc'["loop"] \in {"leave_fds", "erase"}
      /\ \A t \in Threads \ {"loop"} : pc'[t] = pc[t] /\ local'[t] = local[t]
  BY DEF LeaveNeighbours, LeaveFds, On, Goto, Consistent, TypeOK, Shape, Threads
<1>3. Waiting
  BY <1>2 DEF Waiting, Consistent, Steps, Leaving, LeavingAt, Mourning
<1>4. NotifiesMembers'
  BY <1>1, <1>2, ValuesAssumption, NotifiesKept DEF Delivery, Threads
<1>5. \A t \in Threads : \A c \in connectList.map_ :
        Passed(fdOf[c], pc'[t], local'[t]) <=> Passed(fdOf[c], pc[t], local[t])
  BY <1>2 DEF Passed
<1> QED
  BY <1>1, <1>3, <1>4, <1>5, DeliveryKept DEF nodes

(* A server starts a thread's work: it has its ring. *)
LEMMA DeliveryRun ==
  ASSUME Consistent, Delivery, NEW c \in Conns, startListen(c) \/ RunThread(c)
  PROVE  Delivery'
<1>1. UNCHANGED vars /\ UNCHANGED ring /\ faults \subseteq faults'
  BY DEF startListen, RunThread
<1>2. UNCHANGED <<regime, peer, unread, fdOf, connectList, m_workqueue, pc, local, inbox>>
  BY <1>1 DEF vars, registry
<1>3. NotifiesMembers'
  BY <1>2 DEF Delivery, NotifiesMembers, MemberFds
<1>4. LiveHosts' = LiveHosts /\ (Waiting' <=> Waiting) /\ \A d : Reached(d)' <=> Reached(d)
  BY <1>2, SameHosts DEF Waiting, NoRegister, IsRegister, Inserting, Dead, Reached, isExisted,
     Passed
<1>5. CASE startListen(c)
  <2>1. UNCHANGED nodes \/ UNCHANGED <<ring, threads, sentTo, faults>>
    BY <1>5 DEF startListen
  <2>2. NodesShape'
    BY <1>2, <1>5 DEF startListen, NodesShape, Delivery
  <2>3. ASSUME NEW d \in regime.observed PROVE Served(d)'
    BY <1>1, <1>2, <1>4, <1>5, ServedKept DEF startListen, Delivery
  <2> QED
    BY <1>2, <1>3, <2>2, <2>3 DEF Delivery
<1>6. CASE RunThread(c)
  <2>1. PICK i \in DOMAIN threads[c] :
          /\ threads' = [threads EXCEPT ![c] = RemoveAt(@, i)]
          /\ c \in regime.observed
          /\ \E S : sentTo' = [sentTo EXCEPT ![c] = S]
    BY <1>6 DEF RunThread, Running
  <2>2. threads[c] \in Seq(Commands) /\ threads[c] # <<>>
    BY <2>1 DEF Delivery, NodesShape
  <2>3. Reached(c) /\ ~Waiting /\ Current(c)
    BY <2>1, <2>2 DEF Delivery, Served, Clear, Fresh
  <2>4. RemoveAt(threads[c], i) \in Seq(Commands)
    BY <2>1, <2>2 DEF RemoveAt
  <2>5. NodesShape'
    BY <1>1, <1>2, <2>1, <2>4 DEF Delivery, NodesShape
  <2>6. Served(c)'
    BY <1>1, <1>2, <1>4, <2>3 DEF Served, Current, Brief
  <2>7. ASSUME NEW d \in regime.observed, d # c PROVE Served(d)'
    <3>1. d \in Conns
      BY ObservedAre DEF Consistent
    <3>2. threads'[d] = threads[d]
      BY <2>1, <2>7, <3>1 DEF Delivery, NodesShape
    <3> QED
      BY <1>1, <1>2, <1>4, <3>2, ServedKept DEF Delivery
  <2> QED
    BY <1>2, <1>3, <2>5, <2>6, <2>7 DEF Delivery
<1> QED
  BY <1>5, <1>6

(* What recv() takes, and what it leaves *)
LEMMA RestIs ==
  ASSUME NEW S, NEW s \in Seq(S), NEW n \in 1..Len(s)
  PROVE  /\ SubSeq(s, 1, n) \in Seq(S) /\ Len(SubSeq(s, 1, n)) = n
         /\ \A i \in 1..n : SubSeq(s, 1, n)[i] = s[i]
         /\ SubSeq(s, n + 1, Len(s)) \in Seq(S)
         /\ Len(SubSeq(s, n + 1, Len(s))) = Len(s) - n
         /\ \A i \in 1..Len(s) - n : SubSeq(s, n + 1, Len(s))[i] = s[n + i]
OBVIOUS

(* The ring a server takes from what it has received has the addresses of  *)
(* the first command, and besides them only pieces of commands.            *)
LEMMA RingTaken ==
  ASSUME NEW b \in Seq(Commands), b # <<>>, NEW H, b[1].addrs = H, H \subseteq Servers,
         \A i \in 2..Len(b) : b[i].addrs \subseteq H
  PROVE  /\ ip_ports(b) \cap Servers = H
         /\ Len(b) = 1 => ip_ports(b) = H
<1>1. Len(b) \in Nat /\ Len(b) >= 1
  OBVIOUS
<1>2. "" \notin Servers /\ \A i \in 2..Len(b) : b[i].cmd \notin Servers
  <2>1. \A m \in Commands : m.cmd \notin Servers
    BY CommandsAssumption DEF Commands
  <2>2. \A i \in 2..Len(b) : b[i] \in Commands
    OBVIOUS
  <2> QED
    BY <2>1, <2>2, ValuesAssumption
<1>3. PICK T : T = UNION {{IF b[i - 1].nul THEN "" ELSE b[i].cmd} \cup b[i].addrs :
                                 i \in 2..Len(b)}
  OBVIOUS
<1>4. T \cap Servers \subseteq H
  <2> SUFFICES ASSUME NEW x \in T, x \in Servers PROVE x \in H
    OBVIOUS
  <2>1. PICK i \in 2..Len(b) : x \in {IF b[i - 1].nul THEN "" ELSE b[i].cmd} \cup b[i].addrs
    BY <1>3
  <2> QED
    BY <1>2, <2>1
<1>5. Len(b) = 1 => T = {}
  BY <1>1, <1>3
<1> QED
  BY <1>3, <1>4, <1>5 DEF ip_ports

(* dealwithMasterMsg(): the ring is taken, or a thread is started.         *)
LEMMA DeliveryMsg ==
  ASSUME Consistent, Delivery, NEW c \in Conns, dealwithMasterMsg(c)
  PROVE  Delivery'
<1>1. /\ c \in regime.observed
      /\ UNCHANGED <<regime, peer, unread, fdOf, connectList, m_workqueue, pc, local, sentTo>>
  BY DEF dealwithMasterMsg, Running, registry
<1>2. PICK n \in 1..Len(inbox[c]) :
        LET b == SubSeq(inbox[c], 1, n)
            m == FirstCommand(b)
        IN  /\ inbox' = [inbox EXCEPT ![c] = SubSeq(@, n + 1, Len(@))]
            /\ ring' = [ring EXCEPT ![c] = IF m.cmd = "UPDATE_HASH" THEN ip_ports(b) ELSE @]
            /\ threads' = [threads EXCEPT ![c] = IF m.cmd = "UPDATE_HASH" THEN @
                                                 ELSE Append(@, m)]
            /\ faults' = faults \cup IF n > 1 THEN {"dropped"} ELSE {}
  BY DEF dealwithMasterMsg
<1>3. PICK b, m :
        /\ b = SubSeq(inbox[c], 1, n) /\ m = FirstCommand(b)
        /\ inbox' = [inbox EXCEPT ![c] = SubSeq(@, n + 1, Len(@))]
        /\ ring' = [ring EXCEPT ![c] = IF m.cmd = "UPDATE_HASH" THEN ip_ports(b) ELSE @]
        /\ threads' = [threads EXCEPT ![c] = IF m.cmd = "UPDATE_HASH" THEN @ ELSE Append(@, m)]
        /\ faults' = faults \cup IF n > 1 THEN {"dropped"} ELSE {}
  BY <1>2
<1>4. inbox[c] \in Seq(Commands) /\ threads[c] \in Seq(Commands) /\ inbox[c] # <<>>
  BY <1>3 DEF Delivery, NodesShape
<1>5. PICK r \in Seq(Commands) :
        /\ r = inbox'[c] /\ Len(r) = Len(inbox[c]) - n
        /\ \A i \in 1..Len(r) : r[i] = inbox[c][n + i]
  <2>1. inbox'[c] = SubSeq(inbox[c], n + 1, Len(inbox[c]))
    BY <1>3 DEF Delivery, NodesShape
  <2>2. SubSeq(inbox[c], n + 1, Len(inbox[c])) \in Seq(Commands)
    BY <1>3, <1>4, RestIs
  <2>3. Len(SubSeq(inbox[c], n + 1, Len(inbox[c]))) = Len(inbox[c]) - n
    BY <1>3, <1>4, RestIs
  <2>4. \A i \in 1..Len(inbox[c]) - n :
          SubSeq(inbox[c], n + 1, Len(inbox[c]))[i] = inbox[c][n + i]
    BY <1>3, <1>4, RestIs
  <2> QED
    BY <2>1, <2>2, <2>3, <2>4
<1>6. b \in Seq(Commands) /\ Len(b) = n /\ \A i \in 1..n : b[i] = inbox[c][i]
  <2>1. b \in Seq(Commands) /\ Len(b) = n
    BY <1>3, <1>4, RestIs
  <2>2. \A i \in 1..n : SubSeq(inbox[c], 1, n)[i] = inbox[c][i]
    BY <1>3, <1>4, RestIs
  <2> QED
    BY <1>3, <2>1, <2>2
<1>7. m = inbox[c][1] /\ m \in Commands /\ Append(threads[c], m) \in Seq(Commands)
  BY <1>3, <1>4, <1>6 DEF FirstCommand
<1>8. NodesShape'
  BY <1>1, <1>3, <1>4, <1>5, <1>7 DEF Delivery, NodesShape
<1>9. NotifiesMembers'
  BY <1>1 DEF Delivery, NotifiesMembers, MemberFds
<1>10. LiveHosts' = LiveHosts /\ (Waiting' <=> Waiting) /\ \A d : Reached(d)' <=> Reached(d)
  BY <1>1, SameHosts DEF Waiting, NoRegister, IsRegister, Inserting, Dead, Reached, isExisted,
     Passed
<1>11. ASSUME NEW d \in regime.observed, d # c PROVE Served(d)'
  <2>1. d \in Conns
    BY ObservedAre DEF Consistent
  <2>2. inbox'[d] = inbox[d] /\ threads'[d] = threads[d] /\ ring'[d] = ring[d]
    BY <1>3, <1>11, <2>1 DEF Delivery, NodesShape
  <2> QED
    BY <1>3, <1>10, <2>2, ServedKept DEF Delivery
<1>12. Reached(c) /\ ~Waiting /\ (Fresh(c) \/ Current(c))
  BY <1>1, <1>4 DEF Delivery, Served, Clear
<1>13. \A i \in 1..Len(r) : Brief(r[i])
  <2>1. \A i \in 2..Len(inbox[c]) : Brief(inbox[c][i])
    BY <1>12 DEF Fresh, Current
  <2>2. Len(inbox[c]) \in Nat
    BY <1>4
  <2>3. \A i \in 1..Len(r) : n + i \in 2..Len(inbox[c])
    BY <1>5, <2>2
  <2> QED
    BY <1>5, <2>1, <2>3
<1>14. \A i \in 1..Len(r) : Brief(r[i])'
  BY <1>10, <1>13 DEF Brief
<1>15. Current(c)'
  <2>1. CASE Fresh(c)
    <3>1. ring'[c] = ip_ports(b)
      BY <1>1, <1>3, <1>7, <2>1 DEF Fresh, Delivery, NodesShape
    <3>2. b[1].addrs = LiveHosts /\ \A i \in 2..Len(b) : b[i].addrs \subseteq LiveHosts
      <4>1. 1 \in 1..n /\ \A i \in 2..n : i \in 1..n /\ i \in 2..Len(inbox[c])
        BY <1>3, <1>4
      <4> QED
        BY <1>6, <2>1, <4>1 DEF Fresh, Brief
    <3>3. LiveHosts \subseteq Servers
      BY MasterAssumption DEF LiveHosts
    <3>4. b # <<>>
      BY <1>3, <1>6
    <3>5. ip_ports(b) \cap Servers = LiveHosts /\ (n = 1 => ip_ports(b) = LiveHosts)
      BY <1>6, <3>2, <3>3, <3>4, RingTaken
    <3>6. "dropped" \notin faults' => n = 1
      BY <1>3
    <3> QED
      BY <1>5, <1>10, <1>14, <3>1, <3>5, <3>6 DEF Current
  <2>2. CASE Current(c)
    <3>1. Brief(m)
      BY <1>4, <1>7, <2>2 DEF Current
    <3>2. ring'[c] = ring[c]
      BY <1>3, <3>1 DEF Brief, Delivery, NodesShape
    <3>3. "dropped" \notin faults' => "dropped" \notin faults
      BY <1>3
    <3> QED
      BY <1>5, <1>10, <1>14, <2>2, <3>2, <3>3 DEF Current
  <2> QED
    BY <1>12, <2>1, <2>2
<1>16. Served(c)'
  BY <1>10, <1>12, <1>15 DEF Served
<1> QED
  BY <1>1, <1>8, <1>9, <1>11, <1>16 DEF Delivery

(* When nobody is reached after a step and nothing was on its way *)
LEMMA DeliveryStarts ==
  ASSUME Consistent, Delivery, UNCHANGED <<regime, inbox, nodes>>, NotifiesMembers',
         \A c \in regime.observed : Clear(c),
         NEW t \in Threads,
         \/ pc'[t] \in {"reg_hash", "uh_build"}
         \/ pc'[t] = "uh_send" /\ \A c \in connectList'.map_ : ~(fdOf'[c] <= local'[t].cur)
  PROVE  Delivery'
<1>1. NodesShape'
  BY DEF Delivery, NodesShape, nodes
<1>2. ASSUME NEW c \in regime.observed PROVE Served(c)'
  <2>1. ~Reached(c)'
    BY DEF Reached, Passed, isExisted
  <2> QED
    BY <2>1, NotReached DEF Clear, nodes
<1> QED
  BY <1>1, <1>2 DEF Delivery

(* The list changes: there is one more server, or one less; or the thread  *)
(* that changed it goes on.                                                *)
LEMMA DeliveryChange ==
  ASSUME Consistent, Consistent', regime.oneAtATime, Delivery, UNCHANGED nodes,
         NEW t \in Threads,
         \/ t = "loop" /\ Erase
         \/ t \in Workers /\ (Insert(t) \/ AddToHash(t))
         \/ BuildRing(t)
  PROVE  Delivery'
<1>1. CASE t = "loop" /\ Erase
  <2>1. /\ pc[t] = "erase" /\ pc'[t] = "uh_build" /\ UNCHANGED <<regime, inbox>>
        /\ \A w \in Workers : pc'[w] = pc[w]
    BY <1>1, ValuesAssumption DEF Erase, EraseExcept, On, Goto, sent, Consistent, TypeOK,
       Threads
  <2>2. local["loop"].newAddr \in Dead
    BY <1>1, <2>1 DEF Consistent, Steps, Leaving, LeavingAt, Mourning
  <2>3. Waiting /\ \A w \in Workers : pc[w] = "idle"
    BY <2>2 DEF Waiting, Consistent, Steps, Undisturbed
  <2>4. NotifiesMembers'
    BY <2>1, <2>3 DEF NotifiesMembers, After
  <2> QED
    BY <2>1, <2>3, <2>4, WaitingClear, DeliveryStarts
<1>2. CASE t \in Workers /\ Insert(t)
  <2>1. /\ pc[t] = "reg_insert" /\ Inserting # {}
    BY <1>2 DEF Insert, InsertAs, On, Inserting, Before
  <2>2. Waits(local[t].newAddr, local[t])
    BY <1>2, <2>1 DEF Consistent, Steps, OncePending, Inserting, Before, Brings
  <2>3. registedMap[local[t].newAddr] = Absent
    BY <2>2 DEF Waits, Consistent, Books, Registry, Names
  <2>4. /\ pc' = [pc EXCEPT ![t] = "reg_hash"]
        /\ UNCHANGED <<regime, fdOf, local, inbox>> /\ connectList' = add(local[t].newAddr)
    BY <1>2, <2>3 DEF Insert, InsertAs, Goto, outside, sent
  <2>5. NotifiesMembers'
    <3>1. connectList.map_ \subseteq connectList'.map_
      BY <2>4 DEF add
    <3>2. \A w \in Workers : pc'[w] \in After \cup {"reg_insert"} =>
             pc[w] \in After \cup {"reg_insert"} /\ local'[w].notity \subseteq local[w].notity
      BY <2>1, <2>4 DEF Consistent, TypeOK, Threads
    <3> QED
      BY <2>4, <3>1, <3>2, NotifiesKept DEF Delivery
  <2>6. Waiting /\ pc'[t] = "reg_hash"
    BY <2>1, <2>4 DEF Waiting, Consistent, TypeOK
  <2> QED
    BY <2>4, <2>5, <2>6, WaitingClear, DeliveryStarts
<1>3. CASE t \in Workers /\ AddToHash(t)
  <2>1. /\ pc[t] = "reg_hash" /\ pc' = [pc EXCEPT ![t] = "uh_build"] /\ pc'[t] = "uh_build"
        /\ UNCHANGED <<regime, fdOf, connectList, local, inbox>>
    BY <1>3 DEF AddToHash, On, Goto, outside, registry, sent, Consistent, TypeOK
  <2>2. NotifiesMembers'
    <3>1. \A w \in Workers : pc'[w] \in After \cup {"reg_insert"} =>
             pc[w] \in After \cup {"reg_insert"} /\ local'[w].notity \subseteq local[w].notity
      BY <2>1 DEF Consistent, TypeOK, Threads, After
    <3> QED
      BY <2>1, <3>1, NotifiesKept DEF Delivery
  <2> QED
    BY <2>1, <2>2, UnreachedClear, DeliveryStarts
<1>4. CASE BuildRing(t)
  <2>1. PICK r : r = [local[t] EXCEPT !.ring = {listenMap[f] : f \in Registered}, !.cur = Absent]
    OBVIOUS
  <2>2. /\ pc[t] = "uh_build" /\ pc' = [pc EXCEPT ![t] = "uh_send"] /\ pc'[t] = "uh_send"
        /\ UNCHANGED <<regime, fdOf, connectList, inbox>>
        /\ local' = [local EXCEPT ![t] = r]
    BY <1>4, <2>1 DEF BuildRing, On, Goto, outside, registry, sent, Consistent, TypeOK, Shape
  <2>3. r.cur = Absent /\ r.notity = local[t].notity
    BY <2>1 DEF Consistent, Shape, Fields
  <2>4. local'[t] = r /\ \A u \in Threads : local'[u].notity = local[u].notity
    BY <2>2, <2>3 DEF Consistent, Shape
  <2>5. NotifiesMembers'
    <3>1. \A w \in Workers : pc'[w] \in After \cup {"reg_insert"} =>
             pc[w] \in After \cup {"reg_insert"} /\ local'[w].notity \subseteq local[w].notity
      BY <2>2, <2>4 DEF Consistent, TypeOK, Threads, After
    <3> QED
      BY <2>2, <3>1, NotifiesKept DEF Delivery
  <2>6. \A c \in connectList'.map_ : ~(fdOf'[c] <= Absent)
    BY <2>2, RegisteredAre DEF Consistent, Fds, NoFd, Absent
  <2> QED
    BY <2>2, <2>3, <2>4, <2>5, <2>6, UnreachedClear, DeliveryStarts
<1> QED
  BY <1>1, <1>2, <1>3, <1>4

(* A worker takes a request or looks something up, and sends nothing. *)
LEMMA DeliveryWorker ==
  ASSUME Consistent, Delivery, UNCHANGED nodes, NEW w \in Workers,
         \/ TakeRegister(w) \/ ReadAddr(w) \/ CopyRegisted(w)
         \/ CheckExists(w) \/ ReadNeighbours(w) \/ ReadFds(w)
         \/ \E k \in Keys : GetDistribute(w, k)
  PROVE  Delivery'
<1>1. UNCHANGED <<regime, peer, unread, fdOf, connectList, inbox>>
  BY DEF TakeRegister, ReadAddr, CopyRegisted, CheckExists, ReadNeighbours, ReadFds,
         GetDistribute, registry, outside, sent
<1>2. w \in Threads /\ pc \in [Threads -> Labels] /\ Shape /\ TypeOK
  BY DEF Threads, Consistent, TypeOK
<1>3. \A u \in Threads \ {w} : pc'[u] = pc[u] /\ local'[u] = local[u]
  BY <1>2 DEF TakeRegister, ReadAddr, CopyRegisted, CheckExists, ReadNeighbours, ReadFds,
              GetDistribute, Goto, End, Shape
<1>4. /\ {pc[w], pc'[w]} \cap {"reg_hash", "uh_build", "uh_send"} = {}
      /\ pc'[w] \in Before => pc[w] \in Before \/ ~NoRegister
      /\ NoRegister => NoRegister'
      /\ pc'[w] \in After \cup {"reg_insert"} =>
           \/ local'[w].notity \subseteq MemberFds
           \/ pc[w] \in After /\ local'[w].notity = local[w].notity
  <2>1. CASE TakeRegister(w)
    <3>1. pc'[w] = "reg_addr" /\ pc[w] = "idle"
      BY <1>2, <2>1 DEF TakeRegister, On, Goto
    <3>2. ~NoRegister
      BY <1>2, <2>1, Dequeued DEF TakeRegister, NoRegister, IsRegister
    <3> QED
      BY <3>1, <3>2 DEF After
  <2>2. CASE ReadAddr(w)
    <3>1. pc[w] = "reg_addr" /\ pc'[w] = "reg_copy" /\ UNCHANGED m_workqueue
      BY <1>2, <2>2 DEF ReadAddr, On, Goto
    <3> QED
      BY <3>1 DEF After, Before, NoRegister, IsRegister
  <2>3. CASE CopyRegisted(w)
    <3>1. PICK r : r = [local[w] EXCEPT !.notity = {registedMap[c] : c \in Names} \ {Absent}]
      OBVIOUS
    <3>2. r.notity = {registedMap[c] : c \in Names} \ {Absent}
      BY <1>2, <3>1 DEF Shape, Fields
    <3>3. /\ local' = [local EXCEPT ![w] = r] /\ pc[w] = "reg_copy"
          /\ pc' = [pc EXCEPT ![w] = "reg_insert"] /\ UNCHANGED m_workqueue
      BY <1>2, <2>3, <3>1 DEF CopyRegisted, On, Goto, Shape
    <3>4. r.notity \subseteq MemberFds
      BY <3>2 DEF Consistent, Books, Registry, MemberFds, isExisted
    <3> QED
      BY <1>2, <3>3, <3>4 DEF Shape, Before, NoRegister, IsRegister
  <2>4. CASE CheckExists(w)
    BY <1>2, <2>4 DEF CheckExists, On, Goto, End, After, Before, NoRegister, IsRegister, Shape
  <2>5. CASE ReadNeighbours(w)
    <3>1. pc[w] = "reg_neighbours" /\ isExisted(local[w].newAddr)
      BY <2>5 DEF ReadNeighbours, On, Consistent, Steps, Registering, After
    <3>2. PICK r : r = [local[w] EXCEPT !.prev = getPrev(local[w].newAddr),
                                        !.next = getNext(local[w].newAddr)]
      OBVIOUS
    <3>3. r.notity = local[w].notity
      BY <1>2, <3>2 DEF Shape, Fields
    <3>4. local' = [local EXCEPT ![w] = r] /\ pc' = [pc EXCEPT ![w] = "reg_fds"]
      BY <1>2, <2>5, <3>1, <3>2 DEF ReadNeighbours, Goto, Shape
    <3>5. UNCHANGED m_workqueue
      BY <2>5 DEF ReadNeighbours
    <3> QED
      BY <1>2, <3>1, <3>3, <3>4, <3>5 DEF Shape, After, Before, NoRegister, IsRegister
  <2>6. CASE ReadFds(w)
    <3>1. PICK r : r = [local[w] EXCEPT !.prev_fd = ReadRegisted(local[w].prev),
                                        !.next_fd = ReadRegisted(local[w].next)]
      OBVIOUS
    <3>2. r.notity = local[w].notity
      BY <1>2, <3>1 DEF Shape, Fields
    <3>3. /\ local' = [local EXCEPT ![w] = r] /\ pc[w] = "reg_fds"
          /\ pc' = [pc EXCEPT ![w] = "reg_prev"] /\ UNCHANGED m_workqueue
      BY <1>2, <2>6, <3>1 DEF ReadFds, On, Goto, Shape
    <3> QED
      BY <1>2, <3>2, <3>3 DEF Shape, After, Before, NoRegister, IsRegister
  <2>7. CASE \E k \in Keys : GetDistribute(w, k)
    <3>1. /\ pc[w] = "idle" /\ pc'[w] = "idle" /\ m_workqueue # <<>>
          /\ m_workqueue' = Tail(m_workqueue)
          /\ Head(m_workqueue).type # "REGISTER"
      BY <2>7 DEF GetDistribute, On
    <3>2. NoRegister => NoRegister'
      BY <1>2, <3>1, Dequeued DEF NoRegister, IsRegister
    <3> QED
      BY <3>1, <3>2 DEF After, Before
  <2> QED
    BY <2>1, <2>2, <2>3, <2>4, <2>5, <2>6, <2>7
<1>5. NotifiesMembers'
  BY <1>1, <1>2, <1>3, <1>4, NotifiesKept DEF Delivery, Threads
<1>6. Waiting' => Waiting
  <2>1. ASSUME NEW u \in Inserting' PROVE Inserting # {} \/ ~NoRegister
    BY <1>3, <1>4 DEF Inserting, Threads
  <2> QED
    BY <1>1, <1>4, <2>1 DEF Waiting, Dead, Inserting
<1>7. \A t \in Threads : \A c \in connectList.map_ :
        Passed(fdOf[c], pc'[t], local'[t]) <=> Passed(fdOf[c], pc[t], local[t])
  BY <1>3, <1>4 DEF Passed
<1> QED
  BY <1>1, <1>5, <1>6, <1>7, DeliveryKept DEF nodes

(* The labels at which a command other than the ring is sent *)
Sending == {"reg_move", "reg_prev", "reg_self", "recover", "rebackup"}

(* The address of a member's descriptor is that of a registered server. *)
LEMMA HostOfFd ==
  ASSUME TypeOK, Books, NEW f \in MemberFds
  PROVE  ReadListen(f) \in LiveHosts /\ LiveHosts \subseteq Servers
<1>1. f \in Registered /\ ReadListen(f) = listenMap[f]
  BY RegisteredAre, ListenOf
<1>2. listenMap[f] \in LiveHosts
  BY <1>1, HostsAre
<1> QED
  BY <1>1, <1>2, MasterAssumption DEF LiveHosts

(* A brief command is read after the ring, by a member that has it or that *)
(* will read it first.                                                     *)
LEMMA BriefSent ==
  ASSUME Consistent, regime.oneAtATime, Delivery, UNCHANGED nodes,
         UNCHANGED <<regime, peer, unread, fdOf, connectList, m_workqueue>>,
         NEW t \in Threads, pc[t] \in Sending, pc'[t] \notin Updating \cup Before,
         \A u \in Threads \ {t} : pc'[u] = pc[u] /\ local'[u] = local[u],
         t \in Workers /\ pc'[t] \in After =>
            pc[t] \in After /\ local'[t].notity \subseteq local[t].notity,
         NEW f \in MemberFds, NEW m \in Commands, Brief(m), NEW news, Send(f, m, news)
  PROVE  Delivery'
<1>1. Dead = {} /\ \A u \in Threads \ {t} : pc[u] = "idle"
  BY BusyMeansAlive, OneBusy DEF Sending
<1>2. ~Waiting /\ ~Waiting'
  <2>1. ~Waiting
    BY WaitingStill DEF Sending, Threads, Before, Mourning
  <2>2. Inserting' = {}
    BY <1>1 DEF Inserting, Threads, Before
  <2> QED
    BY <2>1, <2>2 DEF Waiting, NoRegister, IsRegister, Dead
<1>3. \A c : Reached(c) <=> isExisted(c)
  BY <1>1 DEF Reached, Passed, Sending
<1>4. \A c : Reached(c)' <=> isExisted(c)
  BY <1>1 DEF Reached, Passed, Updating, isExisted, Dead
<1>5. NotifiesMembers'
  BY NotifiesKept DEF Delivery, Threads, Before
<1>6. /\ inbox' \in [Conns -> Seq(Commands)]
      /\ \A c \in Conns : fdOf[c] # f => inbox'[c] = inbox[c]
      /\ \A c \in regime.observed : fdOf[c] = f => inbox'[c] = Append(inbox[c], m)
  BY <1>1, SendDelivers DEF Delivery
<1>7. NodesShape'
  BY <1>6 DEF Delivery, NodesShape, nodes
<1>8. LiveHosts' = LiveHosts
  BY SameHosts
<1>9. ASSUME NEW c \in regime.observed PROVE Served(c)'
  <2>1. c \in Conns
    BY ObservedAre DEF Consistent
  <2>2. CASE fdOf[c] # f
    BY <1>2, <1>3, <1>4, <1>6, <1>8, <2>1, <2>2, ServedKept DEF Delivery, nodes
  <2>3. CASE fdOf[c] = f
    <3>1. isExisted(c)
      <4>1. PICK d \in connectList.map_ : fdOf[d] = f
        BY DEF MemberFds
      <4>2. d \in Conns /\ f # Absent
        BY <4>1 DEF Consistent, Books, Registry
      <4> QED
        BY <2>1, <2>3, <4>1, <4>2 DEF isExisted, Consistent, Books, Descriptors
    <3>2. Fresh(c) \/ Current(c)
      BY <1>3, <3>1 DEF Delivery, Served
    <3>3. PICK b \in Seq(Commands) : b = inbox[c]
      BY <2>1 DEF Delivery, NodesShape
    <3>4. PICK r \in Seq(Commands) : r = Append(b, m)
      BY AppendedIs
    <3>5. /\ b = inbox[c] /\ r = inbox'[c] /\ r # <<>> /\ Len(r) = Len(b) + 1
          /\ r[1] = IF b = <<>> THEN m ELSE b[1]
          /\ \A i \in 1..Len(b) : r[i] = b[i]
          /\ r[Len(b) + 1] = m
      <4>1. inbox'[c] = Append(inbox[c], m)
        BY <1>6, <2>3
      <4> QED
        BY <3>3, <3>4, <4>1, AppendedIs
    <3>6. \A i \in 1..Len(r) : i = Len(b) + 1 \/ i \in 1..Len(b)
      BY <3>5
    <3>7. UNCHANGED <<ring, threads, faults>>
      BY DEF nodes
    <3>8. Brief(m)' /\ \A i \in 1..Len(b) : Brief(b[i]) => Brief(b[i])'
      BY <1>8 DEF Brief
    <3>9. CASE Fresh(c)
      <4>1. \A i \in 2..Len(r) : Brief(r[i])'
        <5>1. \A i \in 2..Len(r) : i \in 1..Len(r) /\ (i \in 1..Len(b) => i \in 2..Len(b))
          BY <3>5
        <5> QED
          BY <3>5, <3>6, <3>8, <3>9, <5>1 DEF Fresh
      <4>2. Fresh(c)'
        BY <1>8, <3>5, <3>7, <3>9, <4>1 DEF Fresh
      <4> QED
        BY <1>2, <1>4, <3>1, <4>2 DEF Served
    <3>10. CASE Current(c)
      <4>1. \A i \in 1..Len(r) : Brief(r[i])'
        BY <3>5, <3>6, <3>8, <3>10 DEF Current
      <4>2. Current(c)'
        BY <1>8, <3>5, <3>7, <3>10, <4>1 DEF Current
      <4> QED
        BY <1>2, <1>4, <3>1, <4>2 DEF Served
    <3> QED
      BY <3>2, <3>9, <3>10
  <2> QED
    BY <2>2, <2>3
<1> QED
  BY <1>5, <1>7, <1>9 DEF Delivery

(* MOVE_DATA, RECOVER_BACKUP and UPDATE_BACKUP name members at most. *)
LEMMA DeliveryBrief ==
  ASSUME Consistent, regime.oneAtATime, Delivery, UNCHANGED nodes, NEW t \in Threads,
         \/ t \in Workers /\ (SendMove(t) \/ BackupPrev(t) \/ BackupSelf(t))
         \/ t = "loop" /\ (SendRecover \/ SendRebackup)
  PROVE  Delivery'
<1>1. /\ TypeOK /\ Shape /\ Books /\ pc \in [Threads -> Labels]
      /\ t = "loop" => t \notin Workers
  BY ValuesAssumption DEF Consistent, TypeOK
<1>2. /\ UNCHANGED <<regime, peer, unread, fdOf, connectList, m_workqueue>>
      /\ pc[t] \in Sending
  BY DEF SendMove, BackupPrev, BackupSelf, SendRecover, SendRebackup, Rebackup, registry,
         outside, On, Sending
<1>3. \A u \in Threads \ {t} : pc'[u] = pc[u] /\ local'[u] = local[u]
  <2>1. CASE t \in Workers /\ SendMove(t)
    BY <1>1, <2>1 DEF SendMove, Goto, Shape
  <2>2. CASE t \in Workers /\ (BackupPrev(t) \/ BackupSelf(t))
    BY <1>1, <2>2 DEF BackupPrev, BackupSelf, Goto, End, Shape
  <2>3. CASE t = "loop" /\ (SendRecover \/ SendRebackup)
    BY <1>1, <2>3 DEF SendRecover, SendRebackup, Rebackup, Goto, End, Shape
  <2> QED
    BY <2>1, <2>2, <2>3
<1>4. /\ pc'[t] \notin Updating \cup Before
      /\ t \in Workers /\ pc'[t] \in After =>
            pc[t] \in After /\ local'[t].notity \subseteq local[t].notity
  <2>1. CASE t \in Workers /\ SendMove(t)
    <3>1. PICK r : r = [local[t] EXCEPT !.notity = @ \ {Min(@)}]
      OBVIOUS
    <3>2. r.notity \subseteq local[t].notity
      BY <1>1, <3>1 DEF Shape, Fields
    <3>3. /\ pc[t] = "reg_move"
          /\ pc' = pc \/ pc' = [pc EXCEPT ![t] = "reg_exists"]
          /\ local' = local \/ local' = [local EXCEPT ![t] = r]
      BY <1>1, <2>1, <3>1 DEF SendMove, On, Goto, Shape
    <3> QED
      BY <1>1, <3>2, <3>3 DEF Shape, Updating, Before, After
  <2>2. CASE t \in Workers /\ (BackupPrev(t) \/ BackupSelf(t))
    BY <1>1, <2>2 DEF BackupPrev, BackupSelf, On, Goto, End, Updating, Before, After
  <2>3. CASE t = "loop" /\ (SendRecover \/ SendRebackup)
    BY <1>1, <2>3 DEF SendRecover, SendRebackup, Rebackup, On, Goto, End, Updating, Before
  <2> QED
    BY <2>1, <2>2, <2>3
<1>5. \/ UNCHANGED inbox
      \/ \E f \in MemberFds, m \in Commands : Brief(m) /\ \E news : Send(f, m, news)
  <2>1. CASE t \in Workers /\ SendMove(t)
    <3>1. CASE local[t].notity = {}
      BY <2>1, <3>1 DEF SendMove, sent
    <3>2. CASE local[t].notity # {}
      <4>1. local[t].notity \subseteq MemberFds
        BY <2>1 DEF SendMove, On, Delivery, NotifiesMembers, After
      <4>2. MemberFds \subseteq Nat
        BY <1>1, RegisteredAre
      <4>3. Min(local[t].notity) \in MemberFds
        BY <3>2, <4>1, <4>2, LeastFd
      <4>4. PICK m \in Commands : m = Command("MOVE_DATA", {}, TRUE)
        BY DEF Command, Commands
      <4>5. Brief(m)
        BY <4>4 DEF Command, Brief
      <4> QED
        BY <2>1, <3>2, <4>3, <4>4, <4>5 DEF SendMove
    <3> QED
      BY <3>1, <3>2
  <2>2. \A h \in LiveHosts : \A nul \in BOOLEAN :
          /\ Command("UPDATE_BACKUP", {h}, nul) \in Commands
          /\ Brief(Command("UPDATE_BACKUP", {h}, nul))
    BY MasterAssumption DEF Command, Commands, Brief, LiveHosts
  <2>3. ASSUME NEW f \in MemberFds, NEW g \in MemberFds, NEW nul \in BOOLEAN,
               SendBackup(f, ReadListen(g), nul)
        PROVE  \E h \in MemberFds, m \in Commands : Brief(m) /\ \E news : Send(h, m, news)
    BY <1>1, <2>2, <2>3, HostOfFd DEF SendBackup
  <2>4. CASE t \in Workers /\ BackupPrev(t)
    <3>1. /\ pc[t] = "reg_prev" /\ local[t].prev_fd \in MemberFds
          /\ local[t].cfd \in MemberFds
      BY <2>4 DEF BackupPrev, On, Consistent, Steps, Registering, After, MemberFds, isExisted
    <3>2. UNCHANGED inbox \/ SendBackup(local[t].prev_fd, ReadListen(local[t].cfd), TRUE)
      BY <2>4 DEF BackupPrev, sent
    <3> QED
      BY <2>3, <3>1, <3>2
  <2>5. CASE t \in Workers /\ BackupSelf(t)
    <3>1. /\ pc[t] = "reg_self" /\ local[t].next_fd \in MemberFds
          /\ local[t].cfd \in MemberFds
      BY <2>5 DEF BackupSelf, On, Consistent, Steps, Registering, After, MemberFds, isExisted
    <3>2. SendBackup(local[t].cfd, ReadListen(local[t].next_fd), TRUE)
      BY <2>5 DEF BackupSelf
    <3> QED
      BY <2>3, <3>1, <3>2
  <2>6. CASE t = "loop" /\ SendRecover
    <3>1. local[t].next_fd \in MemberFds \cup {local[t].cfd}
      BY <2>6 DEF SendRecover, On, Consistent, Steps, Leaving
    <3>2. PICK m \in Commands : m = Command("RECOVER_BACKUP", {}, FALSE)
      BY DEF Command, Commands
    <3>3. Brief(m)
      BY <3>2 DEF Command, Brief
    <3>4. \/ UNCHANGED inbox
          \/ local[t].cfd # local[t].next_fd /\ Send(local[t].next_fd, m, <<>>)
      BY <2>6, <3>2 DEF SendRecover, sent
    <3> QED
      BY <3>1, <3>4, <3>3
  <2>7. CASE t = "loop" /\ SendRebackup
    <3>1. local[t].next_fd \in MemberFds /\ local[t].prev_fd \in MemberFds
      BY <2>7 DEF SendRebackup, Rebackup, On, Consistent, Steps, Leaving
    <3>2. SendBackup(local[t].prev_fd, ReadListen(local[t].next_fd), FALSE)
      BY <2>7 DEF SendRebackup, Rebackup
    <3> QED
      BY <2>3, <3>1, <3>2
  <2> QED
    BY <2>1, <2>4, <2>5, <2>6, <2>7
<1>6. CASE UNCHANGED inbox
  <2>1. NotifiesMembers'
    BY <1>2, <1>3, <1>4, NotifiesKept DEF Delivery, Threads, Before
  <2>2. Inserting' \subseteq Inserting
    BY <1>3, <1>4 DEF Inserting, Threads
  <2>3. Waiting' => Waiting
    BY <1>2, <2>2 DEF Waiting, NoRegister, IsRegister, Dead
  <2>4. \A u \in Threads : \A c \in connectList.map_ :
          Passed(fdOf[c], pc'[u], local'[u]) <=> Passed(fdOf[c], pc[u], local[u])
    BY <1>2, <1>3, <1>4 DEF Passed, Sending, Updating
  <2> QED
    BY <1>2, <1>6, <2>1, <2>3, <2>4, DeliveryKept DEF nodes
<1> QED
  BY <1>2, <1>3, <1>4, <1>5, <1>6, BriefSent

(* A command that is the only one *)
LEMMA FirstIs ==
  ASSUME NEW m
  PROVE  \E b : b = Append(<<>>, m) /\ b # <<>> /\ b[1] = m /\ Len(b) = 1
<1>1. Append(<<>>, m) = <<m>>
  OBVIOUS
<1>2. <<m>> # <<>> /\ <<m>>[1] = m /\ Len(<<m>>) = 1
  OBVIOUS
<1> QED
  BY <1>1, <1>2, Zenon

(* UPDATE_HASH to the next in the order of descriptors *)
LEMMA DeliveryRing ==
  ASSUME Consistent, regime.oneAtATime, RingsTold, Delivery, UNCHANGED nodes,
         NEW t \in Threads, SendRings(t)
  PROVE  Delivery'
<1> DEFINE rest == {f \in Registered : f > local[t].cur}
<1>1. /\ pc[t] = "uh_send" /\ pc \in [Threads -> Labels] /\ TypeOK /\ Shape /\ Books
      /\ UNCHANGED <<regime, peer, unread, fdOf, connectList, m_workqueue>>
      /\ local[t].ring = LiveHosts
  BY DEF SendRings, On, outside, Consistent, TypeOK, RingsTold
<1>2. Dead = {} /\ \A u \in Threads \ {t} : pc[u] = "idle"
  BY <1>1, BusyMeansAlive, OneBusy
<1>3. /\ local[t].cur \in Registered \cup {Absent}
      /\ Registered \subseteq Nat /\ Registered = MemberFds
  BY <1>1, RegisteredAre DEF Consistent, Steps, Iterating
<1>4. local[t].cur \in Int
  <2>1. \A f \in Registered \cup {Absent} : f \in Int
    BY <1>3 DEF Absent
  <2> QED
    BY <1>3, <2>1
<1>5. \A c \in connectList.map_ : c \in Conns /\ fdOf[c] \in Registered /\ fdOf[c] \in Nat
  BY <1>1, <1>3, RegisteredAre DEF MemberFds
<1>6. ~Waiting
  BY <1>1, WaitingStill DEF Threads, Before, Mourning
<1>7. CASE /\ rest = {}
           /\ Goto(t, IF t = "loop" THEN "recover" ELSE "reg_move")
           /\ UNCHANGED <<connectedMap, local, sent>>
  <2>1. /\ pc'[t] \in {"recover", "reg_move"} /\ UNCHANGED <<local, inbox>>
        /\ \A u \in Threads \ {t} : pc'[u] = pc[u]
    BY <1>1, <1>7 DEF Goto, sent
  <2>2. \A c \in connectList.map_ : ~(fdOf[c] > local[t].cur)
    BY <1>5, <1>7
  <2>3. \A c \in connectList.map_ : fdOf[c] <= local[t].cur
    BY <1>4, <1>5, <2>2
  <2>4. \A u \in Threads : \A c \in connectList.map_ :
          Passed(fdOf[c], pc'[u], local'[u]) <=> Passed(fdOf[c], pc[u], local[u])
    BY <1>1, <2>1, <2>3 DEF Passed
  <2>5. NotifiesMembers'
    BY <1>1, <2>1, NotifiesKept DEF Delivery, Threads, After
  <2>6. Inserting' \subseteq Inserting
    BY <2>1 DEF Inserting, Threads, Before
  <2>7. Waiting' => Waiting
    BY <1>1, <2>6 DEF Waiting, NoRegister, IsRegister, Dead
  <2> QED
    BY <1>1, <2>1, <2>4, <2>5, <2>7, DeliveryKept DEF nodes
<1>8. CASE /\ rest # {}
           /\ SendRing(Min(rest), local[t].ring)
           /\ local' = [local EXCEPT ![t].cur = Min(rest)]
           /\ UNCHANGED pc
  <2>1. PICK f \in rest : f = Min(rest) /\ \A g \in rest : f <= g
    <3>1. rest \in SUBSET Nat
      BY <1>3
    <3> HIDE DEF rest
    <3> QED
      BY <1>8, <3>1, LeastFd
  <2>2. f \in MemberFds /\ f \in Nat /\ f > local[t].cur
    BY <1>3
  <2>3. PICK r : r = [local[t] EXCEPT !.cur = f]
    OBVIOUS
  <2>4. r.cur = f /\ r.notity = local[t].notity
    BY <1>1, <2>3 DEF Shape, Fields
  <2>5. /\ local' = [local EXCEPT ![t] = r] /\ local'[t] = r
        /\ \A u \in Threads \ {t} : local'[u] = local[u]
    BY <1>1, <1>8, <2>1, <2>3 DEF Shape
  <2>6. NotifiesMembers'
    BY <1>1, <1>8, <2>4, <2>5, NotifiesKept DEF Delivery, Threads
  <2>7. PICK m \in Commands : /\ m.cmd = "UPDATE_HASH" /\ m.addrs = LiveHosts
                              /\ Send(f, m, [ring |-> LiveHosts])
    <3>1. LiveHosts \subseteq Servers
      BY MasterAssumption DEF LiveHosts
    <3>2. Command("UPDATE_HASH", LiveHosts, TRUE) \in Commands
      BY <3>1 DEF Command, Commands
    <3> QED
      BY <1>1, <1>8, <2>1, <3>2 DEF SendRing, Command
  <2>8. /\ inbox' \in [Conns -> Seq(Commands)]
        /\ \A c \in Conns : fdOf[c] # f => inbox'[c] = inbox[c]
        /\ \A c \in regime.observed : fdOf[c] = f => inbox'[c] = Append(inbox[c], m)
    BY <1>2, <2>2, <2>7, SendDelivers DEF Delivery
  <2>9. NodesShape'
    BY <2>8 DEF Delivery, NodesShape, nodes
  <2>10. LiveHosts' = LiveHosts
    BY <1>1, SameHosts
  <2>11. ~Waiting'
    BY <1>1, <1>6, <1>8 DEF Waiting, NoRegister, IsRegister, Dead, Inserting
  <2>12. ASSUME NEW c \in regime.observed, fdOf[c] # f PROVE Served(c)'
    <3>1. Reached(c)' <=> Reached(c)
      <4>1. CASE c \in connectList.map_
        <5>1. fdOf[c] <= f <=> fdOf[c] <= local[t].cur
          <6>1. fdOf[c] \in Nat /\ (fdOf[c] > local[t].cur => f <= fdOf[c])
            BY <1>5, <2>1, <4>1
          <6> QED
            BY <1>4, <2>2, <2>12, <6>1
        <5>2. \A u \in Threads :
                Passed(fdOf[c], pc'[u], local'[u]) <=> Passed(fdOf[c], pc[u], local[u])
          BY <1>1, <1>2, <1>8, <2>4, <2>5, <5>1 DEF Passed
        <5> QED
          BY <1>1, <4>1, <5>2, ReachedSame
      <4>2. CASE c \notin connectList.map_
        BY <1>1, <4>2, NotMemberNext
      <4> QED
        BY <4>1, <4>2
    <3>2. c \in Conns
      BY <1>1, ObservedAre
    <3> QED
      BY <2>8, <2>10, <2>11, <2>12, <3>1, <3>2, ServedKept DEF Delivery, nodes
  <2>13. ASSUME NEW c \in regime.observed, fdOf[c] = f PROVE Served(c)'
    <3>1. c \in connectList.map_
      <4>1. PICK d \in connectList.map_ : fdOf[d] = f
        BY <2>2 DEF MemberFds
      <4>2. d \in Conns /\ f # Absent /\ c \in Conns
        BY <1>1, <4>1, ObservedAre DEF Books, Registry
      <4> QED
        BY <1>1, <2>13, <4>1, <4>2 DEF Books, Descriptors
    <3>2. ~(f <= local[t].cur)
      BY <1>4, <2>2
    <3>3. ~Reached(c)
      BY <1>1, <2>13, <3>2 DEF Reached, Passed
    <3>4. Clear(c)
      BY <3>3 DEF Delivery, Served
    <3>5. f <= f
      BY <2>2
    <3>6. Reached(c)'
      BY <1>1, <1>2, <1>8, <2>4, <2>5, <2>13, <3>1, <3>5 DEF Reached, Passed, isExisted, Dead
    <3>7. inbox'[c] = Append(<<>>, m) /\ threads'[c] = <<>>
      BY <2>8, <2>13, <3>4 DEF Clear, nodes
    <3>8. PICK b : b = inbox'[c] /\ b # <<>> /\ b[1] = m /\ Len(b) = 1
      BY <3>7, FirstIs
    <3>9. Fresh(c)'
      <4>1. \A i \in 2..Len(b) : FALSE
        BY <3>8
      <4> QED
        BY <2>7, <2>10, <3>7, <3>8, <4>1 DEF Fresh
    <3> QED
      BY <2>11, <3>6, <3>9 DEF Served
  <2> QED
    BY <1>1, <2>6, <2>9, <2>12, <2>13 DEF Delivery
<1>9. ~(local[t].cur # Absent /\ local[t].cur \notin Registered)
  BY <1>3
<1> QED
  BY <1>7, <1>8, <1>9 DEF SendRings

(* Every step keeps it, where servers come and go one at a time. *)
LEMMA DeliveryNext ==
  ASSUME Consistent, Consistent', regime.oneAtATime, RingsTold, Delivery, [ClusterNext]_cvars
  PROVE  Delivery'
<1>1. ASSUME NEW c \in Conns,
             \/ NodeConnect(c) \/ NodeDie(c) \/ startListen(c) \/ dealwithMasterMsg(c)
             \/ RunThread(c)
      PROVE  Delivery'
  BY <1>1, DeliveryConnect, DeliveryDie, DeliveryRun, DeliveryMsg
<1>2. ASSUME NEW k \in Keys, Client(k), UNCHANGED nodes PROVE Delivery'
  <2>1. CASE Conns = {}
    <3>1. regime.observed = {} /\ UNCHANGED <<regime, connectList, inbox, pc, local, fdOf>>
      BY <1>2, <2>1, ObservedAre DEF Consistent, Client, outside, registry, sent
    <3> QED
      BY <1>2, <3>1 DEF Delivery, NodesShape, NotifiesMembers, MemberFds, nodes
  <2>2. CASE \E c \in Conns : TRUE
    BY <1>2, <2>2, DeliveryAccept
  <2> QED
    BY <2>1, <2>2
<1>3. ASSUME Loop, UNCHANGED nodes PROVE Delivery'
  <2>1. "loop" \in Threads
    BY DEF Threads
  <2>2. ASSUME NEW c \in Conns, NewConn(c) \/ Announce(c) \/ Disconnect(c) PROVE Delivery'
    BY <1>3, <2>2, DeliveryAccept, DeliveryWaits
  <2>3. CASE LeaveNeighbours \/ LeaveFds
    BY <1>3, <2>3, DeliveryLeave
  <2>4. CASE Erase \/ BuildRing("loop")
    BY <1>3, <2>1, <2>4, DeliveryChange
  <2>5. CASE SendRings("loop")
    BY <1>3, <2>1, <2>5, DeliveryRing
  <2>6. CASE SendRecover \/ SendRebackup
    BY <1>3, <2>1, <2>6, DeliveryBrief
  <2> QED
    BY <1>3, <2>2, <2>3, <2>4, <2>5, <2>6 DEF Loop, Leave
<1>4. ASSUME NEW w \in Workers, Worker(w), UNCHANGED nodes PROVE Delivery'
  <2>1. w \in Threads
    BY DEF Threads
  <2>2. CASE Insert(w) \/ AddToHash(w) \/ BuildRing(w)
    BY <1>4, <2>1, <2>2, DeliveryChange
  <2>3. CASE SendRings(w)
    BY <1>4, <2>1, <2>3, DeliveryRing
  <2>4. CASE SendMove(w) \/ BackupPrev(w) \/ BackupSelf(w)
    BY <1>4, <2>1, <2>4, DeliveryBrief
  <2>5. CASE \/ TakeRegister(w) \/ ReadAddr(w) \/ CopyRegisted(w)
             \/ CheckExists(w) \/ ReadNeighbours(w) \/ ReadFds(w)
             \/ \E k \in Keys : GetDistribute(w, k)
    BY <1>4, <2>5, DeliveryWorker
  <2> QED
    BY <1>4, <2>2, <2>3, <2>4, <2>5 DEF Worker, Register
<1>5. CASE UNCHANGED cvars
  <2>1. UNCHANGED <<regime, peer, unread, fdOf, connectList, m_workqueue, pc, local, inbox, nodes>>
    BY <1>5 DEF cvars, vars, registry
  <2>2. Waiting' => Waiting
    BY <2>1 DEF Waiting, NoRegister, IsRegister, Dead, Inserting
  <2>3. NotifiesMembers'
    BY <2>1 DEF Delivery, NotifiesMembers, MemberFds
  <2> QED
    BY <2>1, <2>2, <2>3, DeliveryKept DEF nodes
<1> QED
  BY <1>1, <1>2, <1>3, <1>4, <1>5 DEF ClusterNext, Worker

(* At first nothing is on its way. *)
LEMMA InitDelivery ==
  ASSUME ClusterInit
  PROVE  Delivery
<1>1. connectList.map_ = {} /\ \A t \in Threads : pc[t] = "idle"
  BY DEF ClusterInit, Init
<1>2. /\ inbox = [c \in Conns |-> <<>>] /\ threads = [c \in Conns |-> <<>>]
      /\ ring = [c \in Conns |-> {}] /\ sentTo = [c \in Conns |-> {}]
  BY DEF ClusterInit, Init
<1>3. <<>> \in Seq(Commands)
  OBVIOUS
<1>4. NodesShape
  BY <1>2, <1>3 DEF NodesShape
<1>5. NotifiesMembers
  BY <1>1 DEF NotifiesMembers, After, Threads
<1>6. regime.observed \subseteq Conns
  BY MasterAssumption DEF ClusterInit, Init
<1> QED
  BY <1>1, <1>2, <1>4, <1>5, <1>6 DEF Delivery, Served, Reached, Clear, isExisted

-----------------------------------------------------------------------------
(* The rings that arrive                                                   *)

(* What is on its way, where servers come and go one at a time *)
Arriving == regime.oneAtATime => Consistent /\ RingsTold /\ Delivery

(* The scenario is one of those of the instance. *)
LEMMA RegimeIs ==
  ASSUME regime \in Regimes, [ClusterNext]_cvars
  PROVE  regime' \in Regimes
BY ClusterSteps, RegimeKept DEF dealwithMasterMsg

(* Every step of the cluster keeps what is on its way. *)
LEMMA ArrivingKept ==
  ASSUME Ordered, Arriving, [ClusterNext]_cvars
  PROVE  Arriving'
<1>1. UNCHANGED regime
  BY ClusterSteps, RegimeKept DEF dealwithMasterMsg
<1>2. Ordered'
  BY OrderKept
<1>3. ASSUME regime.oneAtATime PROVE Delivery'
  BY <1>1, <1>2, <1>3, DeliveryNext DEF Ordered, Arriving
<1> QED
  BY <1>1, <1>2, <1>3 DEF Ordered, Arriving

(* At rest every member has read what it was sent, the last ring included. *)
LEMMA RingsHaveArrived ==
  ASSUME Arriving, Settled, NEW c \in regime.observed, isExisted(c)
  PROVE  Current(c)
<1>1. Consistent /\ Served(c) /\ AtRest
  BY DEF Arriving, Delivery, Settled
<1>2. c \in Conns
  BY <1>1, ObservedAre DEF Consistent
<1>3. Dead = {} /\ \A t \in Threads : pc[t] = "idle"
  BY <1>1 DEF AtRest, Dead
<1>4. peer[c] = "alive"
  BY <1>1, <1>2, <1>3 DEF Consistent, Books, Descriptors, Registry, Dead, isExisted
<1>5. inbox[c] = <<>>
  BY <1>1, <1>2, <1>4 DEF AtRest
<1>6. Reached(c)
  BY <1>3 DEF Reached, Passed
<1> QED
  BY <1>1, <1>5, <1>6 DEF Served, Fresh

(* Also when commands are received together and all but the first are      *)
(* lost, every server ends with the ring of the registered servers         *)
(* (UpdateHash(), dealwithMasterMsg()).                                    *)
THEOREM RingsAreReceived == ClusterSpec => []RingsReceived
<1>1. ClusterInit => Ordered /\ Arriving
  BY InitOrdered, InitDelivery DEF ClusterInit, Ordered, Arriving
<1>2. Ordered /\ Arriving /\ [ClusterNext]_cvars => Ordered' /\ Arriving'
  BY OrderKept, ArrivingKept
<1>3. Arriving => RingsReceived
  BY RingsHaveArrived DEF RingsReceived, Current
<1> QED
  BY <1>1, <1>2, <1>3, PTL DEF ClusterSpec

(* The instances of the next theorem: the commands of a scenario are       *)
(* followed only where servers come and go one at a time.                  *)
FollowsOrder == \A r \in Regimes : r.oneAtATime \/ r.observed = {}

(* A server migrates or recovers keys by the ring of the servers that are  *)
(* registered then: UPDATE_HASH is the first command after a change, so a  *)
(* thread that MOVE_DATA or RECOVER_BACKUP has started finds the new ring  *)
(* (move(), recover()).                                                    *)
THEOREM MigrationFollowsRing ==
  ASSUME FollowsOrder
  PROVE  ClusterSpec => []MigratesByNewRing
<1> DEFINE Inv == Ordered /\ Arriving /\ regime \in Regimes
<1>1. ClusterInit => Inv
  BY InitOrdered, InitDelivery DEF ClusterInit, Init, Ordered, Arriving
<1>2. Inv /\ [ClusterNext]_cvars => Inv'
  BY OrderKept, ArrivingKept, RegimeIs
<1>3. Inv => MigratesByNewRing
  <2> SUFFICES ASSUME Inv, NEW c \in regime.observed, NEW i \in DOMAIN threads[c]
               PROVE  ring[c] \cap Servers = LiveHosts
    BY DEF MigratesByNewRing
  <2>1. regime.oneAtATime
    BY DEF FollowsOrder
  <2>2. Served(c)
    BY <2>1 DEF Arriving, Delivery
  <2>3. threads[c] # <<>>
    OBVIOUS
  <2> QED
    BY <2>2, <2>3 DEF Served, Clear, Fresh, Current
<1> QED
  BY <1>1, <1>2, <1>3, PTL DEF ClusterSpec

-----------------------------------------------------------------------------
(* The backups that are sent                                               *)

Alive == {c \in connectList.map_ : peer[c] = "alive"}

(* c has sent its backup to h, or has been told to. *)
IsBackup(m, h) == m.cmd = "UPDATE_BACKUP" /\ m.addrs = {h}

Sends(c, h) ==
    \/ h \in sentTo[c]
    \/ \E i \in DOMAIN inbox[c] : IsBackup(inbox[c][i], h)
    \/ \E i \in DOMAIN threads[c] : IsBackup(threads[c][i], h)

(* The server that was alone has not been told about the second one. *)
Second == Len(connectList.list) = 2 /\ \E w \in Joining : pc[w] # "reg_self"

(* No two servers run with the same address. *)
OneAlive ==
    \A c, d \in Conns : peer[c] = "alive" /\ peer[d] = "alive" /\ Host[c] = Host[d] => c = d

(* A server is told its backup only when the others have been. *)
NotTold ==
    /\ \A c \in Conns :
         peer[c] \in {"none", "alive"} /\ ~isExisted(c) => told[c].backup = Nobody
    /\ \A w \in Joining : told[local[w].newAddr].backup = Nobody

(* What was told a server last is done or will be. *)
ToldIsSent ==
    faults = {} /\ ~Second =>
        \A c \in regime.observed \cap Alive : \A d \in Alive :
            told[c].backup = Host[d] => Sends(c, Host[d])

Linked == OneAlive /\ NotTold /\ ToldIsSent

(* Nothing is taken from what c has been sent. *)
Grows(c) == \A i \in DOMAIN inbox[c] : i \in DOMAIN inbox'[c] /\ inbox'[c][i] = inbox[c][i]

(* Who sends what does so after a step that leaves it what it has. *)
LEMMA SendsKept ==
  ASSUME NEW c, NEW h, UNCHANGED nodes, Grows(c), Sends(c, h)
  PROVE  Sends(c, h)'
BY DEF Sends, Grows, IsBackup, nodes

(* send() takes nothing away. *)
LEMMA SendGrows ==
  ASSUME NodesShape, NEW f, NEW m, NEW news, Send(f, m, news), NEW c \in Conns
  PROVE  Grows(c)
<1>1. inbox[c] \in Seq(Commands)
  BY DEF NodesShape
<1>2. inbox'[c] = inbox[c] \/ inbox'[c] = Append(inbox[c], m)
  <2>1. PICK d : \/ inbox' = [inbox EXCEPT ![d] = Append(@, m)]
                 \/ inbox' = inbox
    BY DEF Send, sent
  <2> QED
    BY <2>1 DEF NodesShape
<1>3. CASE inbox'[c] = Append(inbox[c], m)
  <2>1. inbox[c] \in Seq(Commands \cup {m}) /\ m \in Commands \cup {m}
    BY <1>1
  <2> QED
    BY <1>3, <2>1, AppendedIs DEF Grows
<1> QED
  BY <1>2, <1>3 DEF Grows

(* At most two servers are in a list of two. *)
LEMMA TwoMembers ==
  ASSUME TypeOK, Registry, Len(connectList.list) = 2,
         NEW n \in connectList.map_, NEW p \in connectList.map_, n # p,
         NEW c \in connectList.map_
  PROVE  c \in {n, p}
<1>1. PICK l \in Seq(Names) : l = connectList.list /\ IsInjective(l) /\ Range(l) = connectList.map_
  BY DEF TypeOK, Registry
<1>2. DOMAIN l = 1..2
  BY <1>1
<1>3. PICK i \in 1..2, j \in 1..2, k \in 1..2 : l[i] = n /\ l[j] = p /\ l[k] = c
  BY <1>1, <1>2 DEF Range
<1>4. i # j
  BY <1>3
<1>5. k = i \/ k = j
  BY <1>4
<1> QED
  BY <1>3, <1>5

(* A step that tells no backup *)
LEMMA LinkedKept ==
  ASSUME Consistent, Linked, UNCHANGED <<regime, peer, connectList>>,
         faults \subseteq faults',
         \A c \in Conns : told'[c].backup = told[c].backup,
         \A w \in Workers :
            /\ pc'[w] \in After <=> pc[w] \in After
            /\ pc[w] \in After => /\ local'[w].newAddr = local[w].newAddr
                                  /\ pc'[w] = "reg_self" <=> pc[w] = "reg_self",
         faults' = {} => \A c \in regime.observed : \A h : Sends(c, h) => Sends(c, h)'
  PROVE  Linked'
<1>1. Joining' = Joining
  BY DEF Joining
<1>2. \A w \in Joining : local'[w].newAddr = local[w].newAddr /\ local[w].newAddr \in Conns
  BY MembersDiffer DEF Joining, Consistent, Steps, Registering, isExisted
<1>3. OneAlive'
  BY DEF Linked, OneAlive
<1>4. NotTold'
  BY <1>1, <1>2 DEF Linked, NotTold, isExisted
<1>5. Second' <=> Second
  BY <1>1 DEF Second, Joining
<1>6. Alive' = Alive /\ regime.observed \subseteq Conns
  BY ObservedAre DEF Alive, Consistent
<1>7. ToldIsSent'
  <2> SUFFICES ASSUME faults' = {}, ~Second', NEW c \in regime.observed \cap Alive,
                      NEW d \in Alive, told'[c].backup = Host[d]
               PROVE  Sends(c, Host[d])'
    BY <1>6 DEF ToldIsSent
  <2>1. faults = {} /\ c \in Conns
    BY <1>6
  <2>2. Sends(c, Host[d])
    BY <1>5, <2>1 DEF Linked, ToldIsSent
  <2> QED
    BY <2>2
<1> QED
  BY <1>3, <1>4, <1>7 DEF Linked

(* A server connects when all is at rest; its address is no other's. *)
LEMMA LinkedConnect ==
  ASSUME Consistent, regime.oneAtATime, Linked, NEW x \in Conns, NodeConnect(x)
  PROVE  Linked'
<1>1. /\ AtRest /\ UNCHANGED nodes /\ peer[x] = "none"
      /\ peer' = [peer EXCEPT ![x] = "alive"]
      /\ \A d \in Conns : Host[d] = Host[x] => peer[d] # "alive"
      /\ UNCHANGED <<regime, connectList, pc, local, inbox, told>>
  BY DEF NodeConnect, Connect, MayChange, registry, sent
<1>2. peer \in [Conns -> {"none", "alive", "dead", "gone"}]
  BY DEF Consistent, TypeOK
<1>3. x \notin connectList.map_
  BY <1>1 DEF Consistent, Books, Registry, Descriptors
<1>4. OneAlive'
  BY <1>1, <1>2 DEF Linked, OneAlive
<1>5. NotTold'
  BY <1>1, <1>2, <1>3 DEF Linked, NotTold, isExisted, Joining
<1>6. Alive' = Alive
  BY <1>1, <1>2, <1>3, MembersDiffer DEF Alive
<1>7. ToldIsSent'
  <2>1. Second' <=> Second
    BY <1>1 DEF Second, Joining
  <2>2. \A c, h : Sends(c, h)' <=> Sends(c, h)
    BY <1>1 DEF Sends, IsBackup, nodes
  <2> QED
    BY <1>1, <1>6, <2>1, <2>2 DEF Linked, ToldIsSent, nodes
<1> QED
  BY <1>4, <1>5, <1>7 DEF Linked

(* One dies: what was sent to it is lost, what was sent to others is not. *)
LEMMA LinkedDie ==
  ASSUME Consistent, regime.oneAtATime, NodesShape, Linked, NEW x \in Conns, NodeDie(x)
  PROVE  Linked'
<1>1. /\ AtRest /\ peer[x] = "alive" /\ peer' = [peer EXCEPT ![x] = "dead"]
      /\ UNCHANGED <<regime, connectList, pc, local, told, faults>>
      /\ inbox' = [inbox EXCEPT ![x] = <<>>]
      /\ threads' = [threads EXCEPT ![x] = <<>>]
      /\ sentTo' = [d \in Conns |-> IF d = x THEN {} ELSE sentTo[d] \ {Host[x]}]
  BY DEF NodeDie, Die, MayChange, registry
<1>2. peer \in [Conns -> {"none", "alive", "dead", "gone"}]
  BY DEF Consistent, TypeOK
<1>3. OneAlive'
  BY <1>1, <1>2 DEF Linked, OneAlive
<1>4. NotTold'
  BY <1>1, <1>2 DEF Linked, NotTold, isExisted, Joining
<1>5. ~Second
  BY <1>1 DEF AtRest, Second, Joining, After, Threads
<1>6. Alive' = Alive \ {x} /\ Alive \subseteq Conns
  BY <1>1, <1>2, MembersDiffer DEF Alive
<1>7. ToldIsSent'
  <2> SUFFICES ASSUME faults = {}, NEW c \in regime.observed \cap Alive, c # x,
                      NEW d \in Alive, d # x, told[c].backup = Host[d]
               PROVE  Sends(c, Host[d])'
    BY <1>1, <1>6 DEF ToldIsSent
  <2>1. Sends(c, Host[d])
    BY <1>5 DEF Linked, ToldIsSent
  <2>2. Host[d] # Host[x]
    BY <1>1, <1>6 DEF Linked, OneAlive, Alive
  <2>3. c \in Conns
    BY <1>6
  <2>4. inbox'[c] = inbox[c] /\ threads'[c] = threads[c] /\ sentTo'[c] = sentTo[c] \ {Host[x]}
    BY <1>1, <2>3 DEF NodesShape
  <2> QED
    BY <2>1, <2>2, <2>4 DEF Sends, IsBackup
<1> QED
  BY <1>3, <1>4, <1>7 DEF Linked

(* A new server is appended: the others send their backups to each other. *)
LEMMA LinkedInsert ==
  ASSUME Consistent, regime.oneAtATime, BackupsTold, Linked, UNCHANGED nodes,
         NEW w \in Workers, Insert(w)
  PROVE  Linked'
<1>1. /\ pc \in [Threads -> Labels] /\ Shape /\ TypeOK /\ w \in Threads /\ w # "loop"
      /\ pc[w] = "reg_insert" /\ w \in Inserting
  BY ValuesAssumption DEF Insert, InsertAs, On, Inserting, Before, Threads, Consistent, TypeOK
<1>2. Dead = {} /\ \A u \in Threads \ {w} : pc[u] = "idle"
  BY <1>1, BusyMeansAlive, OneBusy
<1>3. PICK n : n = local[w].newAddr
  OBVIOUS
<1>4. /\ n \in Conns /\ ~isExisted(n) /\ registedMap[n] = Absent
      /\ fdOf[n] # Absent
  BY <1>1, <1>3
     DEF Consistent, Steps, Books, OncePending, Brings, Waits, Registry, Names, isExisted
<1>5. /\ connectList' = add(n) /\ Goto(w, "reg_hash")
      /\ UNCHANGED <<regime, peer, fdOf, told, local, inbox>>
  BY <1>3, <1>4 DEF Insert, InsertAs, sent, outside
<1>6. /\ pc'[w] = "reg_hash" /\ \A u \in Threads \ {w} : pc'[u] = "idle"
  BY <1>1, <1>2, <1>5 DEF Goto
<1>7. /\ Joining = {} /\ ~Mending /\ Joining' = {w} /\ ~Second
      /\ Second' <=> Len(connectList'.list) = 2
  BY <1>1, <1>2, <1>6 DEF Joining, Mending, After, Threads, Second
<1>8. /\ connectList'.map_ = connectList.map_ \cup {n}
      /\ Len(connectList'.list) = Len(connectList.list) + 1
      /\ Len(connectList.list) \in Nat
  <2>1. PICK l \in Seq(Names) : l = connectList.list
    BY <1>1 DEF TypeOK
  <2>2. n \in Names /\ connectList' = [list |-> Append(l, n), map_ |-> connectList.map_ \cup {n}]
    BY <1>4, <1>5, <2>1 DEF add, Names
  <2> QED
    BY <2>1, <2>2
<1>9. peer[n] = "alive"
  BY <1>2, <1>4 DEF Dead, Consistent, Books, Descriptors
<1>10. told[n].backup = Nobody /\ Nobody \notin Servers
  BY <1>4, <1>9, ValuesAssumption DEF Linked, NotTold
<1>11. OneAlive'
  BY <1>5 DEF Linked, OneAlive
<1>12. NotTold'
  BY <1>3, <1>5, <1>7, <1>8, <1>10 DEF Linked, NotTold, isExisted
<1>13. Alive' = Alive \cup {n} /\ Alive \subseteq Conns
  BY <1>5, <1>8, <1>9, MembersDiffer DEF Alive
<1>14. \A c, h : Sends(c, h)' <=> Sends(c, h)
  BY <1>5 DEF Sends, IsBackup, nodes
<1>15. ASSUME ~Second', NEW c \in Alive, told[c].backup = Host[n] PROVE FALSE
  <2>1. c \in connectList.map_
    BY DEF Alive
  <2>2. Len(connectList.list) > 1
    <3>1. Len(connectList.list) > 0
      BY <2>1, Circle DEF Consistent, Books
    <3> QED
      BY <1>7, <1>8, <1>15, <3>1
  <2>3. told[c].backup = Host[getNext(c)]
    <3>1. ~Due(c)
      BY <1>7, DueIs
    <3> QED
      BY <2>1, <2>2, <3>1 DEF BackupsTold, NextIsTold
  <2>4. getNext(c) \in connectList.map_ /\ getNext(c) \in Conns
    BY <2>1, MembersDiffer
  <2>5. peer[getNext(c)] = "alive"
    BY <1>2, <2>4 DEF Dead, Consistent, Books, Descriptors, Registry
  <2>6. getNext(c) = n
    BY <1>4, <1>9, <1>15, <2>3, <2>4, <2>5 DEF Linked, OneAlive
  <2> QED
    BY <1>4, <2>4, <2>6 DEF isExisted
<1>16. ToldIsSent'
  <2> SUFFICES ASSUME faults = {}, ~Second', NEW c \in regime.observed \cap (Alive \cup {n}),
                      NEW d \in Alive \cup {n}, told[c].backup = Host[d]
               PROVE  Sends(c, Host[d])
    BY <1>5, <1>13, <1>14 DEF ToldIsSent, nodes
  <2>1. c # n
    BY <1>4, <1>10, <1>13, MasterAssumption
  <2>2. d # n
    BY <1>15, <2>1
  <2> QED
    BY <1>7, <2>1, <2>2 DEF Linked, ToldIsSent
<1> QED
  BY <1>11, <1>12, <1>16 DEF Linked

(* A server is erased. *)
LEMMA LinkedErase ==
  ASSUME Consistent, regime.oneAtATime, BackupsTold, Linked, UNCHANGED nodes, Erase
  PROVE  Linked'
<1>1. /\ pc \in [Threads -> Labels] /\ TypeOK
      /\ "loop" \in Threads /\ "loop" \notin Workers /\ Workers \subseteq Threads
      /\ pc["loop"] = "erase"
  BY ValuesAssumption DEF Erase, EraseExcept, On, Threads, Consistent, TypeOK
<1>2. \A u \in Threads \ {"loop"} : pc[u] = "idle"
  BY <1>1, OneBusy
<1>3. PICK c, l : l = local["loop"] /\ c = l.newAddr
  OBVIOUS
<1>4. c \in connectList.map_ /\ l.cfd = fdOf[c] /\ c \in Conns /\ fdOf[c] # Absent
  BY <1>1, <1>3, MembersDiffer
     DEF Consistent, Steps, Leaving, LeavingAt, Mourning, isExisted, Books, Registry
<1>5. (CHOOSE d \in Conns : fdOf[d] = l.cfd) = c
  BY <1>4 DEF Consistent, Books, Descriptors
<1>6. /\ connectList' = del(c) /\ peer' = [peer EXCEPT ![c] = "gone"]
      /\ Goto("loop", "uh_build") /\ UNCHANGED <<regime, told, inbox>>
  BY <1>3, <1>5 DEF Erase, EraseExcept, sent
<1>7. \A w \in Workers : pc'[w] = "idle"
  BY <1>1, <1>2, <1>6 DEF Goto
<1>8. Joining = {} /\ Joining' = {} /\ ~Second
  BY <1>1, <1>2, <1>7 DEF Joining, After, Second
<1>9. connectList'.map_ = connectList.map_ \ {c}
  BY <1>6 DEF del
<1>10. OneAlive'
  BY <1>1, <1>6 DEF Linked, OneAlive, TypeOK
<1>11. NotTold'
  BY <1>1, <1>4, <1>6, <1>8, <1>9 DEF Linked, NotTold, isExisted, TypeOK
<1>12. Alive' \subseteq Alive
  BY <1>1, <1>6, <1>9, MembersDiffer DEF Alive, TypeOK
<1>13. \A d, h : Sends(d, h)' <=> Sends(d, h)
  BY <1>6 DEF Sends, IsBackup, nodes
<1>14. ToldIsSent'
  BY <1>6, <1>8, <1>12, <1>13 DEF Linked, ToldIsSent, nodes
<1> QED
  BY <1>10, <1>11, <1>14 DEF Linked

(* A member is told its backup: the command is on its way. *)
LEMMA BackupIsSent ==
  ASSUME Consistent, Linked, NodesShape, Dead = {},
         UNCHANGED <<regime, peer, connectList, nodes>>,
         NEW p \in connectList.map_, NEW h \in Servers, NEW nul \in BOOLEAN,
         SendBackup(fdOf[p], h, nul),
         \A w \in Joining' : /\ w \in Joining /\ local'[w].newAddr = local[w].newAddr
                             /\ local[w].newAddr # p,
         \A c \in connectList.map_ \ {p} : ~Second \/ told[c].backup = Nobody
  PROVE  Linked'
<1>1. /\ p \in Conns /\ fdOf[p] # Absent /\ fdOf[p] \in MemberFds
      /\ connectList.map_ \subseteq Conns /\ regime.observed \subseteq Conns
  BY MembersDiffer, ObservedAre DEF MemberFds, Consistent, Books, Registry
<1>2. PICK f : f = fdOf[p]
  OBVIOUS
<1>3. /\ SendBackup(f, h, nul) /\ f # Absent
      /\ SendBackup(f, h, TRUE) \/ SendBackup(f, h, FALSE)
  <2>1. nul = TRUE \/ nul = FALSE
    OBVIOUS
  <2> QED
    BY <1>1, <1>2, <2>1
<1>4. /\ \A c \in Conns : fdOf[c] = f => told'[c].backup = h
      /\ \A c \in Conns : fdOf[c] # f => told'[c].backup = told[c].backup
  BY <1>3, SendBackupTells
<1>5. \A c \in Conns : fdOf[c] = f <=> c = p
  BY <1>1, <1>2 DEF Consistent, Books, Descriptors
<1>6. PICK m \in Commands : /\ m.cmd = "UPDATE_BACKUP" /\ m.addrs = {h}
                            /\ Send(f, m, [backup |-> h])
  <2>1. Command("UPDATE_BACKUP", {h}, nul) \in Commands
    BY DEF Command, Commands
  <2> QED
    BY <1>3, <2>1 DEF SendBackup, Command
<1>7. \A c \in Conns : Grows(c)
  BY <1>6, SendGrows
<1>8. p \in regime.observed => inbox'[p] = Append(inbox[p], m)
  BY <1>1, <1>2, <1>6, SendDelivers
<1>9. p \in regime.observed => Sends(p, h)'
  <2> HAVE p \in regime.observed
  <2>1. inbox[p] \in Seq(Commands)
    BY <1>1 DEF NodesShape
  <2>2. PICK k : k = Len(inbox[p]) + 1 /\ Append(inbox[p], m)[k] = m
    BY <1>6, <2>1, AppendedIs
  <2>3. k \in DOMAIN inbox'[p] /\ inbox'[p][k] = m
    BY <1>6, <1>8, <2>1, <2>2
  <2> QED
    BY <1>6, <2>3 DEF Sends, IsBackup
<1>10. OneAlive'
  BY DEF Linked, OneAlive
<1>11. NotTold'
  <2>1. ASSUME NEW c \in Conns, peer[c] \in {"none", "alive"}, c \notin connectList.map_
        PROVE  told'[c].backup = Nobody
    BY <1>4, <1>5, <2>1 DEF Linked, NotTold, isExisted
  <2>2. ASSUME NEW w \in Joining' PROVE told'[local'[w].newAddr].backup = Nobody
    <3>1. local[w].newAddr \in Conns
      BY <1>1 DEF Joining, Consistent, Steps, Registering, isExisted
    <3> QED
      BY <1>4, <1>5, <3>1 DEF Linked, NotTold
  <2> QED
    BY <2>1, <2>2 DEF NotTold, isExisted
<1>12. ToldIsSent'
  <2> SUFFICES ASSUME faults = {}, NEW c \in regime.observed \cap Alive,
                      NEW d \in Alive, told'[c].backup = Host[d]
               PROVE  Sends(c, Host[d])'
    BY DEF ToldIsSent, Alive, nodes
  <2>1. c \in Conns /\ c \in connectList.map_ /\ Host[d] \in Servers
    BY <1>1, MasterAssumption DEF Alive
  <2>2. CASE c = p
    BY <1>4, <1>5, <1>9, <2>1, <2>2
  <2>3. CASE c # p
    <3>1. told[c].backup = Host[d]
      BY <1>4, <1>5, <2>1, <2>3
    <3>2. ~Second
      BY <2>1, <2>3, <3>1, ValuesAssumption
    <3>3. Sends(c, Host[d])
      BY <3>1, <3>2 DEF Linked, ToldIsSent
    <3>4. Grows(c)
      BY <1>7, <2>1
    <3> QED
      BY <3>3, <3>4, SendsKept
  <2> QED
    BY <2>2, <2>3
<1> QED
  BY <1>10, <1>11, <1>12 DEF Linked

(* The predecessor of the new server is told, unless that is alone, ... *)
LEMMA LinkedPrev ==
  ASSUME Consistent, regime.oneAtATime, BackupsTold, NodesShape, Linked, UNCHANGED nodes,
         NEW w \in Workers, BackupPrev(w)
  PROVE  Linked'
<1>1. /\ pc \in [Threads -> Labels] /\ Shape /\ Books /\ TypeOK /\ Registry
      /\ w \in Threads /\ w # "loop" /\ pc[w] = "reg_prev"
      /\ UNCHANGED <<regime, peer, connectList>>
  BY ValuesAssumption DEF BackupPrev, On, Threads, Consistent, TypeOK, Books, outside
<1>2. \A u \in Threads \ {w} : pc[u] = "idle"
  BY <1>1, OneBusy
<1>3. \A u \in Threads \ {w} : pc'[u] = "idle"
  BY <1>1, <1>2 DEF BackupPrev, Goto, End
<1>4. w \in Joining /\ Dead = {} /\ Joining' \subseteq {w}
  BY <1>1, <1>3, BusyMeansAlive DEF Threads, Joining, After
<1>5. PICK n : n = local[w].newAddr
  OBVIOUS
<1>6. n \in connectList.map_ /\ local[w].cfd = fdOf[n] /\ fdOf[n] \in MemberFds /\ n \in Conns
  BY <1>1, <1>5, MembersDiffer
     DEF Consistent, Steps, Registering, After, MemberFds, isExisted
<1>7. PICK p : p = getPrev(n)
  OBVIOUS
<1>8. /\ local[w].prev_fd = fdOf[p] /\ local[w].next_fd = fdOf[getNext(n)]
      /\ p \in connectList.map_ /\ getNext(p) = n
  BY <1>1, <1>5, <1>6, <1>7, MembersDiffer, Circle DEF BackupsTold, KnowsNeighbours, Knows
<1>9. CASE /\ local[w].next_fd # local[w].cfd \/ local[w].prev_fd # local[w].cfd
           /\ SendBackup(local[w].prev_fd, ReadListen(local[w].cfd), TRUE)
           /\ UNCHANGED local
  <2>1. n # p
    BY <1>6, <1>8, <1>9
  <2>2. ReadListen(fdOf[n]) = Host[n] /\ Host[n] \in Servers
    BY <1>1, <1>6, ListenOf, RegisteredAre, MasterAssumption
  <2>3. PICK h \in Servers : h = Host[n] /\ SendBackup(fdOf[p], h, TRUE)
    BY <1>6, <1>8, <1>9, <2>2
  <2>4. ASSUME NEW c \in connectList.map_ \ {p}, Second PROVE told[c].backup = Nobody
    <3>1. c = n
      BY <1>1, <1>6, <1>8, <2>1, <2>4, TwoMembers DEF Second
    <3> QED
      BY <1>4, <1>5, <3>1 DEF Linked, NotTold
  <2> QED
    BY <1>1, <1>4, <1>5, <1>8, <1>9, <2>1, <2>3, <2>4, BackupIsSent
<1>10. CASE /\ local[w].next_fd = local[w].cfd /\ local[w].prev_fd = local[w].cfd
            /\ End(w) /\ UNCHANGED sent
  <2>1. p = n
    BY <1>6, <1>8, <1>10, MembersDiffer
  <2>2. ~(Len(connectList.list) > 1)
    BY <1>1, <1>6, <1>7, <2>1, Circle
  <2>3. ~Second /\ Joining' = {}
    <3>1. ~Second
      BY <2>2 DEF Second
    <3>2. pc'[w] = "idle"
      BY <1>1, <1>10 DEF End, Goto
    <3> QED
      BY <1>4, <3>1, <3>2 DEF Joining, After
  <2>4. UNCHANGED <<told, inbox>>
    BY <1>10 DEF sent
  <2>5. OneAlive' /\ NotTold'
    BY <1>1, <2>3, <2>4 DEF Linked, OneAlive, NotTold, isExisted
  <2>6. ToldIsSent'
    <3>1. \A d, h : Sends(d, h)' <=> Sends(d, h)
      BY <2>4 DEF Sends, IsBackup, nodes
    <3>2. Alive' = Alive
      BY <1>1 DEF Alive
    <3> QED
      BY <1>1, <2>3, <2>4, <3>1, <3>2 DEF Linked, ToldIsSent, nodes
  <2> QED
    BY <2>5, <2>6 DEF Linked
<1> QED
  BY <1>9, <1>10 DEF BackupPrev

(* ... then the new server itself, ... *)
LEMMA LinkedSelf ==
  ASSUME Consistent, regime.oneAtATime, BackupsTold, NodesShape, Linked, UNCHANGED nodes,
         NEW w \in Workers, BackupSelf(w)
  PROVE  Linked'
<1>1. /\ pc \in [Threads -> Labels] /\ Shape /\ Books /\ TypeOK /\ Registry
      /\ w \in Threads /\ w # "loop" /\ pc[w] = "reg_self"
      /\ UNCHANGED <<regime, peer, connectList>> /\ End(w)
  BY ValuesAssumption DEF BackupSelf, On, Threads, Consistent, TypeOK, Books, outside
<1>2. \A u \in Threads \ {w} : pc[u] = "idle"
  BY <1>1, OneBusy
<1>3. \A u \in Threads : pc'[u] = "idle"
  BY <1>1, <1>2 DEF Goto, End
<1>4. Joining = {w} /\ Dead = {} /\ Joining' = {} /\ ~Second
  BY <1>1, <1>2, <1>3, BusyMeansAlive DEF Threads, Joining, After, Second
<1>5. PICK n : n = local[w].newAddr
  OBVIOUS
<1>6. n \in connectList.map_ /\ local[w].cfd = fdOf[n]
  BY <1>1, <1>5 DEF Consistent, Steps, Registering, After, isExisted
<1>7. /\ local[w].next_fd = fdOf[getNext(n)] /\ fdOf[getNext(n)] \in MemberFds
      /\ getNext(n) \in Conns /\ getNext(n) \in connectList.map_
  BY <1>1, <1>5, <1>6, MembersDiffer DEF BackupsTold, KnowsNeighbours, Knows, MemberFds
<1>8. ReadListen(fdOf[getNext(n)]) = Host[getNext(n)] /\ Host[getNext(n)] \in Servers
  BY <1>1, <1>7, ListenOf, RegisteredAre, MasterAssumption
<1>9. PICK h \in Servers : SendBackup(fdOf[n], h, TRUE)
  BY <1>6, <1>7, <1>8 DEF BackupSelf
<1> QED
  BY <1>1, <1>4, <1>6, <1>9, BackupIsSent

(* ... or the predecessor of one that left. *)
LEMMA LinkedMend ==
  ASSUME Consistent, regime.oneAtATime, BackupsTold, NodesShape, Linked, UNCHANGED nodes,
         SendRebackup
  PROVE  Linked'
<1>1. /\ pc \in [Threads -> Labels] /\ Shape /\ Books /\ TypeOK /\ Registry
      /\ "loop" \in Threads /\ "loop" \notin Workers /\ Workers \subseteq Threads
      /\ pc["loop"] = "rebackup" /\ UNCHANGED <<regime, peer, connectList>> /\ End("loop")
  BY ValuesAssumption DEF SendRebackup, Rebackup, On, Threads, Consistent, TypeOK, Books, outside
<1>2. Dead = {} /\ \A u \in Threads \ {"loop"} : pc[u] = "idle"
  BY <1>1, BusyMeansAlive, OneBusy
<1>3. \A w \in Workers : pc'[w] = "idle"
  BY <1>1, <1>2 DEF Goto, End
<1>4. Joining = {} /\ Joining' = {} /\ ~Second
  BY <1>1, <1>2, <1>3 DEF Joining, After, Second
<1>5. PICK l : l = local["loop"]
  OBVIOUS
<1>6. l.prev_fd \in MemberFds
  BY <1>1, <1>5 DEF Consistent, Steps, Leaving
<1>7. connectList.map_ # {}
  BY <1>6 DEF MemberFds
<1>8. PICK p \in connectList.map_ : l.prev_fd = fdOf[p] /\ l.next_fd = fdOf[getNext(p)]
  BY <1>1, <1>5, <1>7 DEF BackupsTold, KnowsGap, Gap
<1>9. getNext(p) \in connectList.map_ /\ fdOf[getNext(p)] \in MemberFds /\ getNext(p) \in Conns
  BY <1>8, MembersDiffer DEF MemberFds
<1>10. ReadListen(fdOf[getNext(p)]) = Host[getNext(p)] /\ Host[getNext(p)] \in Servers
  BY <1>1, <1>9, ListenOf, RegisteredAre, MasterAssumption
<1>11. PICK h \in Servers : SendBackup(fdOf[p], h, FALSE)
  BY <1>5, <1>8, <1>10 DEF SendRebackup, Rebackup
<1> QED
  BY <1>1, <1>2, <1>4, <1>8, <1>11, BackupIsSent

(* A step of the master that tells no backup leaves what is sent. *)
LEMMA LinkedQuiet ==
  ASSUME Consistent, Linked, UNCHANGED nodes, UNCHANGED <<regime, peer, connectList>>,
         \A c \in Conns : told'[c].backup = told[c].backup,
         \A c \in Conns : Grows(c),
         \A w \in Workers :
            /\ pc'[w] \in After <=> pc[w] \in After
            /\ pc[w] \in After => /\ local'[w].newAddr = local[w].newAddr
                                  /\ pc'[w] = "reg_self" <=> pc[w] = "reg_self"
  PROVE  Linked'
<1>1. \A c \in regime.observed : \A h : Sends(c, h) => Sends(c, h)'
  BY SendsKept, ObservedAre DEF Consistent
<1>2. faults \subseteq faults'
  BY DEF nodes
<1> QED
  BY <1>1, <1>2, LinkedKept

(* The event loop accepts, notices and looks up. *)
LEMMA LinkedOutside ==
  ASSUME Consistent, Linked, UNCHANGED nodes,
         \/ \E c \in Conns : NewConn(c) \/ Announce(c) \/ Disconnect(c)
         \/ LeaveNeighbours \/ LeaveFds
         \/ \E k \in Keys : Client(k)
  PROVE  Linked'
<1>1. UNCHANGED <<regime, peer, connectList, told, inbox>>
  BY DEF NewConn, Announce, Disconnect, LeaveList, EndOfFile, LeaveNeighbours, LeaveFds, Client,
         outside, registry, sent
<1>2. \A w \in Workers : pc'[w] = pc[w] /\ local'[w] = local[w]
  BY ValuesAssumption
     DEF NewConn, Announce, Disconnect, LeaveList, EndOfFile, LeaveNeighbours, LeaveFds, Client,
         Goto, Threads, Consistent, TypeOK, Shape
<1>3. \A c \in Conns : Grows(c)
  BY <1>1 DEF Grows
<1> QED
  BY <1>1, <1>2, <1>3, LinkedQuiet

(* The threads send rings and MOVE_DATA, or nothing. *)
LEMMA LinkedThread ==
  ASSUME Consistent, NodesShape, Linked, UNCHANGED nodes, NEW t \in Threads,
         \/ BuildRing(t) \/ SendRings(t)
         \/ /\ t \in Workers
            /\ \/ TakeRegister(t) \/ ReadAddr(t) \/ CopyRegisted(t)
               \/ AddToHash(t) \/ SendMove(t) \/ CheckExists(t)
               \/ \E k \in Keys : GetDistribute(t, k)
  PROVE  Linked'
<1>1. "loop" \notin Workers /\ Workers \subseteq Threads /\ pc \in [Threads -> Labels]
  BY ValuesAssumption DEF Threads, Consistent, TypeOK
<1>2. \A c \in Conns : Grows(c)
  <2>1. UNCHANGED inbox \/ \E f, m, news : Send(f, m, news)
    BY DEF BuildRing, SendRings, TakeRegister, ReadAddr, CopyRegisted, AddToHash, SendMove,
           CheckExists, GetDistribute, SendRing, sent
  <2> QED
    BY <2>1, SendGrows DEF Grows
<1>3. t \in Workers =>
        /\ pc'[t] \in After <=> pc[t] \in After
        /\ pc[t] \in After => /\ local'[t].newAddr = local[t].newAddr
                              /\ pc'[t] # "reg_self" /\ pc[t] # "reg_self"
  BY <1>1, ThreadGoesOn DEF After, Before
<1>4. /\ UNCHANGED <<regime, peer, connectList>>
      /\ \A u \in Threads \ {t} : pc'[u] = pc[u] /\ local'[u] = local[u]
      /\ \A c \in Conns : told'[c].backup = told[c].backup
  BY ThreadGoesOn
<1> QED
  BY <1>1, <1>2, <1>3, <1>4, LinkedQuiet

(* Register() reads its neighbours. *)
LEMMA LinkedNeighbours ==
  ASSUME Consistent, Linked, UNCHANGED nodes, NEW w \in Workers,
         ReadNeighbours(w) \/ ReadFds(w)
  PROVE  Linked'
<1>1. /\ pc \in [Threads -> Labels] /\ Shape /\ w \in Threads /\ Workers \subseteq Threads
      /\ pc[w] \in After /\ pc[w] # "reg_self"
  BY DEF Threads, Consistent, TypeOK, ReadNeighbours, ReadFds, On, After
<1>2. UNCHANGED <<regime, peer, connectList, told, inbox>>
  BY DEF ReadNeighbours, ReadFds, registry, sent, outside
<1>3. isExisted(local[w].newAddr)
  BY <1>1 DEF Consistent, Steps, Registering
<1>4. PICK r : \/ /\ ReadNeighbours(w)
                  /\ r = [local[w] EXCEPT !.prev = getPrev(local[w].newAddr),
                                          !.next = getNext(local[w].newAddr)]
               \/ /\ ReadFds(w)
                  /\ r = [local[w] EXCEPT !.prev_fd = ReadRegisted(local[w].prev),
                                          !.next_fd = ReadRegisted(local[w].next)]
  OBVIOUS
<1>5. r.newAddr = local[w].newAddr
  BY <1>1, <1>4 DEF Shape, Fields
<1>6. local' = [local EXCEPT ![w] = r] /\ (Goto(w, "reg_fds") \/ Goto(w, "reg_prev"))
  BY <1>1, <1>3, <1>4 DEF ReadNeighbours, ReadFds, Shape
<1>7. \A v \in Workers : /\ pc'[v] \in After <=> pc[v] \in After
                         /\ local'[v].newAddr = local[v].newAddr
                         /\ pc'[v] = "reg_self" <=> pc[v] = "reg_self"
  BY <1>1, <1>5, <1>6 DEF Goto, Shape, After
<1>8. \A c \in Conns : Grows(c)
  BY <1>2 DEF Grows
<1> QED
  BY <1>2, <1>7, <1>8, LinkedQuiet

(* RECOVER_BACKUP to the successor *)
LEMMA LinkedRecover ==
  ASSUME Consistent, NodesShape, Linked, UNCHANGED nodes, SendRecover
  PROVE  Linked'
<1>1. /\ pc \in [Threads -> Labels] /\ Shape /\ "loop" \in Threads
      /\ "loop" \notin Workers /\ pc["loop"] = "recover"
  BY ValuesAssumption DEF Threads, Consistent, TypeOK, SendRecover, On
<1>2. Dead = {}
  BY <1>1, BusyMeansAlive
<1>3. UNCHANGED <<regime, peer, connectList>>
  BY DEF SendRecover, registry, outside
<1>4. \A w \in Workers : pc'[w] = pc[w] /\ local'[w] = local[w]
  BY <1>1 DEF SendRecover, Goto, End, Threads, Shape
<1>5. UNCHANGED <<told, inbox>> \/ \E f, m : Send(f, m, <<>>)
  BY DEF SendRecover, sent
<1>6. \A c \in Conns : told'[c].backup = told[c].backup
  <2>1. "reset" \notin DOMAIN <<>> /\ "backup" \notin DOMAIN <<>>
    OBVIOUS
  <2> QED
    BY <1>2, <1>5, <2>1, SendLeaves
<1>7. \A c \in Conns : Grows(c)
  BY <1>5, SendGrows DEF Grows
<1> QED
  BY <1>3, <1>4, <1>6, <1>7, LinkedQuiet

(* Without its i-th entry a sequence still has the others. *)
LEMMA OthersRemain ==
  ASSUME NEW S, NEW s \in Seq(S), NEW i \in DOMAIN s, NEW j \in DOMAIN s, j # i
  PROVE  \E k \in DOMAIN RemoveAt(s, i) : RemoveAt(s, i)[k] = s[j]
<1>1. PICK n \in Nat : n = Len(s) /\ i \in 1..n /\ j \in 1..n
  OBVIOUS
<1>2. PICK a, b : a = SubSeq(s, 1, i - 1) /\ b = SubSeq(s, i + 1, n)
  OBVIOUS
<1>3. /\ a \in Seq(S) /\ Len(a) = i - 1 /\ \A k \in 1..i - 1 : a[k] = s[k]
  <2>1. /\ SubSeq(s, 1, i - 1) \in Seq(S) /\ Len(SubSeq(s, 1, i - 1)) = i - 1
        /\ \A k \in 1..i - 1 : SubSeq(s, 1, i - 1)[k] = s[k]
    OBVIOUS
  <2> QED
    BY <1>2, <2>1
<1>4. /\ b \in Seq(S) /\ Len(b) = n - i /\ \A k \in 1..n - i : b[k] = s[i + k]
  <2>1. /\ SubSeq(s, i + 1, Len(s)) \in Seq(S) /\ Len(SubSeq(s, i + 1, Len(s))) = Len(s) - i
        /\ \A k \in 1..Len(s) - i : SubSeq(s, i + 1, Len(s))[k] = s[i + k]
    OBVIOUS
  <2> QED
    BY <1>1, <1>2, <2>1
<1>5. RemoveAt(s, i) = a \o b
  BY <1>1, <1>2 DEF RemoveAt
<1>6. /\ a \o b \in Seq(S) /\ Len(a \o b) = (i - 1) + (n - i)
      /\ \A k \in 1..(i - 1) + (n - i) :
           (a \o b)[k] = IF k <= i - 1 THEN a[k] ELSE b[k - (i - 1)]
  <2>1. /\ a \o b \in Seq(S) /\ Len(a \o b) = Len(a) + Len(b)
        /\ \A k \in 1..Len(a) + Len(b) :
             (a \o b)[k] = IF k <= Len(a) THEN a[k] ELSE b[k - Len(a)]
    BY <1>3, <1>4, ConcatProperties
  <2> QED
    BY <1>3, <1>4, <2>1
<1>7. DOMAIN (a \o b) = 1..(i - 1) + (n - i)
  BY <1>6
<1>8. CASE j < i
  <2>1. j \in 1..i - 1 /\ j \in 1..(i - 1) + (n - i)
    BY <1>1, <1>8
  <2> QED
    BY <1>3, <1>5, <1>6, <1>7, <2>1
<1>9. CASE j > i
  <2>1. PICK k : k = j - i
    OBVIOUS
  <2>2. k \in 1..n - i /\ i + k = j /\ (j - 1) - (i - 1) = k
    BY <1>1, <1>9, <2>1
  <2>3. j - 1 \in 1..(i - 1) + (n - i) /\ ~(j - 1 <= i - 1)
    BY <1>1, <1>9
  <2>4. (a \o b)[j - 1] = b[k] /\ b[k] = s[j]
    BY <1>4, <1>6, <2>2, <2>3
  <2> QED
    BY <1>5, <1>7, <2>3, <2>4
<1> QED
  BY <1>1, <1>8, <1>9

(* A server reads one command: a thread will send the backup. *)
LEMMA LinkedMsg ==
  ASSUME Consistent, NodesShape, Linked, NEW c \in Conns, dealwithMasterMsg(c)
  PROVE  Linked'
<1>1. /\ c \in regime.observed
      /\ UNCHANGED <<regime, peer, connectList, told, pc, local, sentTo>>
      /\ faults \subseteq faults'
  BY DEF dealwithMasterMsg, Running, registry
<1>2. ASSUME faults' = {}, NEW d \in regime.observed, NEW h, Sends(d, h) PROVE Sends(d, h)'
  <2>1. d \in Conns
    BY ObservedAre DEF Consistent
  <2>2. PICK n \in 1..Len(inbox[c]) :
          LET b == SubSeq(inbox[c], 1, n)
              m == FirstCommand(b)
          IN  /\ inbox' = [inbox EXCEPT ![c] = SubSeq(@, n + 1, Len(@))]
              /\ threads' = [threads EXCEPT ![c] = IF m.cmd = "UPDATE_HASH" THEN @
                                                   ELSE Append(@, m)]
              /\ faults' = faults \cup IF n > 1 THEN {"dropped"} ELSE {}
    BY DEF dealwithMasterMsg
  <2>3. PICK s \in Seq(Commands) : s = inbox[c] /\ s # <<>> /\ 1 \in 1..Len(s)
    BY <2>2 DEF NodesShape
  <2>4. n = 1
    <3>1. ~(n > 1)
      BY <1>2, <2>2
    <3> QED
      BY <2>3, <3>1
  <2>5. PICK m : m = s[1] /\ FirstCommand(SubSeq(s, 1, 1)) = m
    BY <2>3 DEF FirstCommand
  <2>6. PICK r \in Seq(Commands) :
          /\ r = inbox'[c] /\ Len(r) = Len(s) - 1
          /\ \A i \in 1..Len(s) - 1 : r[i] = s[1 + i]
    <3>1. inbox'[c] = SubSeq(s, 1 + 1, Len(s))
      BY <2>2, <2>3, <2>4 DEF NodesShape
    <3>2. SubSeq(s, 1 + 1, Len(s)) \in Seq(Commands)
      BY <2>3, RestIs
    <3>3. Len(SubSeq(s, 1 + 1, Len(s))) = Len(s) - 1
      BY <2>3, RestIs
    <3>4. \A i \in 1..Len(s) - 1 : SubSeq(s, 1 + 1, Len(s))[i] = s[1 + i]
      BY <2>3, RestIs
    <3> QED
      BY <3>1, <3>2, <3>3, <3>4
  <2>7. threads'[c] = IF m.cmd = "UPDATE_HASH" THEN threads[c] ELSE Append(threads[c], m)
    BY <2>2, <2>3, <2>4, <2>5 DEF NodesShape
  <2>8. PICK t \in Seq(Commands) : t = threads[c]
    BY DEF NodesShape
  <2>9. m \in Commands
    BY <2>3, <2>5
  <2>10. CASE d # c
    <3>1. inbox'[d] = inbox[d] /\ threads'[d] = threads[d]
      BY <2>1, <2>2, <2>10 DEF NodesShape
    <3> QED
      BY <1>1, <1>2, <3>1 DEF Sends, IsBackup
  <2>11. CASE d = c /\ h \in sentTo[c]
    BY <1>1, <2>11 DEF Sends
  <2>12. ASSUME d = c, NEW i \in DOMAIN t, IsBackup(t[i], h) PROVE Sends(d, h)'
    <3>1. i \in DOMAIN threads'[c] /\ threads'[c][i] = t[i]
      BY <2>7, <2>8, <2>9
    <3> QED
      BY <2>12, <3>1 DEF Sends, IsBackup
  <2>13. ASSUME d = c, NEW i \in DOMAIN s, IsBackup(s[i], h) PROVE Sends(d, h)'
    <3>1. CASE i = 1
      <4>1. threads'[c] = Append(t, m)
        BY <2>5, <2>7, <2>8, <2>13, <3>1 DEF IsBackup
      <4>2. PICK k : k = Len(t) + 1 /\ Append(t, m)[k] = m
        BY <2>9, AppendedIs
      <4>3. k \in DOMAIN threads'[c] /\ threads'[c][k] = m
        BY <2>9, <4>1, <4>2
      <4> QED
        BY <2>5, <2>13, <3>1, <4>3 DEF Sends, IsBackup
    <3>2. CASE i # 1
      <4>1. PICK k : k = i - 1
        OBVIOUS
      <4>2. k \in 1..Len(s) - 1 /\ 1 + k = i
        BY <2>13, <3>2, <4>1
      <4>3. k \in DOMAIN inbox'[c] /\ inbox'[c][k] = s[i]
        BY <2>6, <4>2
      <4> QED
        BY <2>13, <4>3 DEF Sends, IsBackup
    <3> QED
      BY <3>1, <3>2
  <2> QED
    BY <1>2, <2>3, <2>8, <2>10, <2>11, <2>12, <2>13 DEF Sends
<1> QED
  BY <1>1, <1>2, LinkedKept

(* A thread runs: unless the connection is refused the backup is sent. *)
LEMMA LinkedRun ==
  ASSUME Consistent, NodesShape, Linked, NEW c \in Conns, startListen(c) \/ RunThread(c)
  PROVE  Linked'
<1>1. /\ UNCHANGED <<regime, peer, connectList, told, pc, local, inbox>>
      /\ faults \subseteq faults'
  BY DEF startListen, RunThread, vars, registry
<1>2. ASSUME faults' = {}, NEW d \in regime.observed, NEW h, Sends(d, h) PROVE Sends(d, h)'
  <2>1. d \in Conns
    BY ObservedAre DEF Consistent
  <2>2. CASE startListen(c)
    BY <1>1, <1>2, <2>2 DEF startListen, Sends, IsBackup
  <2>3. CASE RunThread(c)
    <3>1. PICK i \in DOMAIN threads[c], up \in BOOLEAN :
            /\ threads' = [threads EXCEPT ![c] = RemoveAt(@, i)]
            /\ sentTo' = [sentTo EXCEPT ![c] = IF up THEN @ \cup threads[c][i].addrs ELSE @]
            /\ threads[c][i].cmd = "UPDATE_BACKUP" /\ ~up => "refused" \in faults'
      BY <2>3 DEF RunThread
    <3>2. CASE d # c
      <4>1. threads'[d] = threads[d] /\ sentTo'[d] = sentTo[d]
        BY <2>1, <3>1, <3>2 DEF NodesShape
      <4> QED
        BY <1>1, <1>2, <4>1 DEF Sends, IsBackup
    <3>3. CASE d = c
      <4>1. PICK t \in Seq(Commands) : t = threads[c] /\ threads'[c] = RemoveAt(t, i)
        BY <3>1 DEF NodesShape
      <4>2. /\ sentTo[c] \subseteq sentTo'[c]
            /\ t[i].cmd = "UPDATE_BACKUP" => t[i].addrs \subseteq sentTo'[c]
        BY <1>2, <3>1, <4>1 DEF NodesShape
      <4>3. ASSUME NEW j \in DOMAIN t, IsBackup(t[j], h) PROVE Sends(c, h)'
        <5>1. CASE j = i
          BY <4>2, <4>3, <5>1 DEF Sends, IsBackup
        <5>2. CASE j # i
          <6>1. PICK k \in DOMAIN RemoveAt(t, i) : RemoveAt(t, i)[k] = t[j]
            BY <3>1, <4>1, <5>2, OthersRemain
          <6> QED
            BY <4>1, <4>3, <6>1 DEF Sends, IsBackup
        <5> QED
          BY <5>1, <5>2
      <4>4. CASE h \in sentTo[c] \/ \E j \in DOMAIN inbox[c] : IsBackup(inbox[c][j], h)
        BY <1>1, <3>3, <4>2, <4>4 DEF Sends, IsBackup
      <4> QED
        BY <1>2, <3>3, <4>1, <4>3, <4>4 DEF Sends
    <3> QED
      BY <3>2, <3>3
  <2> QED
    BY <2>2, <2>3
<1> QED
  BY <1>1, <1>2, LinkedKept

(* Every step keeps what was told and what is sent together. *)
LEMMA LinkedNext ==
  ASSUME Consistent, regime.oneAtATime, BackupsTold, Delivery, Linked, [ClusterNext]_cvars
  PROVE  Linked'
<1>1. NodesShape
  BY DEF Delivery
<1>2. ASSUME NEW c \in Conns,
             \/ NodeConnect(c) \/ NodeDie(c) \/ startListen(c) \/ dealwithMasterMsg(c)
             \/ RunThread(c)
      PROVE  Linked'
  BY <1>1, <1>2, LinkedConnect, LinkedDie, LinkedRun, LinkedMsg
<1>3. ASSUME NEW k \in Keys, Client(k), UNCHANGED nodes PROVE Linked'
  BY <1>3, LinkedOutside
<1>4. ASSUME Loop, UNCHANGED nodes PROVE Linked'
  <2>1. "loop" \in Threads
    BY DEF Threads
  <2>2. ASSUME NEW c \in Conns, NewConn(c) \/ Announce(c) \/ Disconnect(c) PROVE Linked'
    BY <1>4, <2>2, LinkedOutside
  <2>3. CASE LeaveNeighbours \/ LeaveFds \/ Erase
    BY <1>4, <2>3, LinkedOutside, LinkedErase
  <2>4. CASE BuildRing("loop") \/ SendRings("loop")
    BY <1>1, <1>4, <2>1, <2>4, LinkedThread
  <2>5. CASE SendRecover \/ SendRebackup
    BY <1>1, <1>4, <2>5, LinkedRecover, LinkedMend
  <2> QED
    BY <1>4, <2>2, <2>3, <2>4, <2>5 DEF Loop, Leave
<1>5. ASSUME NEW w \in Workers, Worker(w), UNCHANGED nodes PROVE Linked'
  <2>1. w \in Threads
    BY DEF Threads
  <2>2. CASE \/ BuildRing(w) \/ SendRings(w) \/ TakeRegister(w) \/ ReadAddr(w)
             \/ CopyRegisted(w) \/ AddToHash(w) \/ SendMove(w) \/ CheckExists(w)
             \/ \E k \in Keys : GetDistribute(w, k)
    BY <1>1, <1>5, <2>1, <2>2, LinkedThread
  <2>3. CASE ReadNeighbours(w) \/ ReadFds(w)
    BY <1>5, <2>3, LinkedNeighbours
  <2>4. CASE BackupPrev(w) \/ BackupSelf(w) \/ Insert(w)
    BY <1>1, <1>5, <2>4, LinkedPrev, LinkedSelf, LinkedInsert
  <2> QED
    BY <1>5, <2>2, <2>3, <2>4 DEF Worker, Register
<1>6. CASE UNCHANGED cvars
  <2>1. UNCHANGED <<regime, peer, connectList, pc, local, told, inbox, nodes>>
    BY <1>6 DEF cvars, vars, registry
  <2>2. \A c \in Conns : Grows(c)
    BY <2>1 DEF Grows
  <2> QED
    BY <2>1, <2>2, LinkedQuiet
<1> QED
  BY <1>2, <1>3, <1>4, <1>5, <1>6 DEF ClusterNext, Worker

-----------------------------------------------------------------------------
(* The backups that arrive                                                 *)

(* Where servers come and go one at a time *)
Linking == regime.oneAtATime => Linked

(* At first nobody was told anything. *)
LEMMA InitLinking ==
  ASSUME ClusterInit
  PROVE  Linking
<1>1. /\ connectList.map_ = {} /\ peer = [c \in Conns |-> "none"]
      /\ told = [c \in Conns |-> [ring |-> NoRing, backup |-> Nobody, reset |-> FALSE]]
      /\ \A t \in Threads : pc[t] = "idle"
  BY DEF ClusterInit, Init
<1>2. Joining = {} /\ Alive = {}
  BY <1>1 DEF Joining, After, Threads, Alive
<1>3. OneAlive
  BY <1>1 DEF OneAlive
<1>4. NotTold
  BY <1>1, <1>2 DEF NotTold
<1>5. ToldIsSent
  BY <1>2 DEF ToldIsSent
<1> QED
  BY <1>3, <1>4, <1>5 DEF Linking, Linked

(* Every step of the cluster keeps them. *)
LEMMA LinkingKept ==
  ASSUME Ordered, Arriving, Linking, [ClusterNext]_cvars
  PROVE  Linking'
<1>1. UNCHANGED regime
  BY ClusterSteps, RegimeKept DEF dealwithMasterMsg
<1> QED
  BY <1>1, LinkedNext DEF Ordered, Arriving, Linking

(* At rest no command is on its way, so the backups have been sent. *)
LEMMA BackupsHaveArrived ==
  ASSUME Ordered, Linking, Settled, faults = {}, Len(connectList.list) > 1,
         NEW c \in regime.observed, isExisted(c)
  PROVE  Host[getNext(c)] \in sentTo[c]
<1>1. /\ Consistent /\ regime.oneAtATime /\ AtRest /\ NodesAtRest /\ c \in connectList.map_
      /\ \A t \in Threads : pc[t] = "idle"
  BY DEF Ordered, Settled, AtRest, isExisted
<1>2. c \in Conns /\ getNext(c) \in connectList.map_ /\ getNext(c) \in Conns
  BY <1>1, MembersDiffer
<1>3. \A d \in connectList.map_ : d \in Conns => peer[d] = "alive"
  BY <1>1 DEF AtRest, Consistent, Books, Descriptors, Registry
<1>4. c \in Alive /\ getNext(c) \in Alive
  BY <1>1, <1>2, <1>3 DEF Alive
<1>5. told[c].backup = Host[getNext(c)]
  BY <1>1, OrderedAtRest
<1>6. ~Second
  BY <1>1 DEF Second, Joining, After, Threads
<1>7. Sends(c, Host[getNext(c)])
  BY <1>1, <1>4, <1>5, <1>6 DEF Linking, Linked, ToldIsSent
<1>8. inbox[c] = <<>> /\ threads[c] = <<>>
  BY <1>1, <1>2, <1>3 DEF AtRest, NodesAtRest
<1> QED
  BY <1>7, <1>8 DEF Sends

(* Unless a command was dropped or a connection refused, every server has  *)
(* sent its backup to its successor, in a list that servers have joined    *)
(* and left at any place (Register(), dealwithCacheServer(), update()).    *)
THEOREM BackupsAreSent == ClusterSpec => []BackupsSent
<1>1. ClusterInit => Ordered /\ Arriving /\ Linking
  BY InitOrdered, InitDelivery, InitLinking DEF ClusterInit, Ordered, Arriving
<1>2. Ordered /\ Arriving /\ Linking /\ [ClusterNext]_cvars => Ordered' /\ Arriving' /\ Linking'
  BY OrderKept, ArrivingKept, LinkingKept
<1>3. Ordered /\ Linking => BackupsSent
  BY BackupsHaveArrived DEF BackupsSent
<1> QED
  BY <1>1, <1>2, <1>3, PTL DEF ClusterSpec
=============================================================================

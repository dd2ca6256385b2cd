------------------------------- MODULE Master -------------------------------
(***************************************************************************)
(* MasterServer: the registry of cache servers and the commands it sends.  *)
(* The event loop accepts connections, turns the port a cache server sends *)
(* into a REGISTER request and handles disconnects itself; worker threads  *)
(* execute Register() and GetDistribute().                                 *)
(*                                                                         *)
(* A block under m_conn_lock is one step.  What the code reads or iterates *)
(* without the lock are steps of their own: one per send(), one for the    *)
(* two neighbours of a server and one for their two descriptors.  A        *)
(* connection stands for the peer address (ip and ephemeral port) that     *)
(* accept() returns; Host gives the listen address the cache server        *)
(* announces.                                                              *)
(***************************************************************************)
EXTENDS Integers, Sequences, SequencesExt, FiniteSetsExt

CONSTANTS
    Conns,         \* connections cache servers make, each once
    Servers,       \* listen addresses
    Host,          \* Host[c]: the listen address announced on connection c
    Keys,          \* keys clients ask for
    Prefer,        \* Prefer[k]: Servers in the order in which k meets them on the ring
    Workers,
    MaxRequests,   \* m_max_requests
    Regimes        \* the scenarios of an instance, one of which Init chooses: the
                   \* connections whose server may die (mortal), whether servers
                   \* come and go only when all is at rest (oneAtATime), the
                   \* connections whose unread commands are kept (observed) and
                   \* the keys clients ask for (keys)

ASSUME MasterAssumption ==
    /\ IsFiniteSet(Conns) /\ Conns \cap Servers = {}
    /\ Host \in [Conns -> Servers]
    /\ MaxRequests \in Nat \ {0}
    /\ Regimes \subseteq [mortal : SUBSET Conns, oneAtATime : BOOLEAN,
                           observed : SUBSET Conns, keys : SUBSET Keys]

VARIABLES
    regime,        \* the scenario
    peer,          \* peer[c]: "none", "alive", "dead" or "gone" (closed by the master)
    unread,        \* connections whose announcement has not been received
    fdOf,          \* fdOf[c]: the descriptor of an accepted connection, or NoFd
    connectedMap,  \* fd -> connection
    registedMap,   \* connection -> fd
    listenMap,     \* fd -> listen address
    connectList,   \* ServerList: the linked list and the keys of map_
    masterHash,    \* the listen addresses of the ring
    m_workqueue,   \* requests
    pc, local,     \* label and local variables of each worker and of the loop
    told,          \* told[c]: the last ring and backup address sent on c, and
                   \* whether the dead peer's host has answered with a reset
    inbox,         \* inbox[c]: the commands sent on c and not read yet
    reply,         \* the last answer to a client
    crashed        \* how the master died, or "no"

vars == <<regime, peer, unread, fdOf, connectedMap, registedMap, listenMap, connectList,
          masterHash, m_workqueue, pc, local, told, inbox, reply, crashed>>

registry == <<connectedMap, registedMap, listenMap, connectList>>
outside == <<regime, peer, unread>>
sent == <<told, inbox, crashed>>

Threads == Workers \cup {"loop"}
NoFd == 0                \* stdin, and what map[] inserts for an absent name
Absent == -1
Fds == 0..Cardinality(Conns)
NoConn == "no connection"
Nobody == "nobody"       \* find() == end() in listenMap
Garbage == "garbage"     \* str2sock_addr("") returns an uninitialised address
Names == Conns \cup {""}  \* map[] of an absent descriptor inserts ""
NoRing == {"not told"}

(* What stands for no connection or no address is none, and the event loop *)
(* is no worker.                                                           *)
ASSUME ValuesAssumption ==
    /\ "loop" \notin Workers
    /\ {"", NoConn} \cap Conns = {} /\ {"", Nobody, Garbage} \cap Servers = {}

NoLocal == [cfd |-> Absent, addr |-> Nobody, newAddr |-> NoConn, notity |-> {},
            ring |-> {}, cur |-> Absent, prev |-> NoConn, next |-> NoConn,
            prev_fd |-> Absent, next_fd |-> Absent]

Init ==
    /\ regime \in Regimes
    /\ peer = [c \in Conns |-> "none"]
    /\ unread = {}
    /\ fdOf = [c \in Conns |-> Absent]
    /\ connectedMap = [f \in Fds |-> NoConn]
    /\ registedMap = [c \in Names |-> Absent]
    /\ listenMap = [f \in Fds |-> Nobody]
    /\ connectList = [list |-> <<>>, map_ |-> {}]
    /\ masterHash = {}
    /\ m_workqueue = <<>>
    /\ pc = [t \in Threads |-> "idle"]
    /\ local = [t \in Threads |-> NoLocal]
    /\ told = [c \in Conns |-> [ring |-> NoRing, backup |-> Nobody, reset |-> FALSE]]
    /\ inbox = [c \in Conns |-> <<>>]
    /\ reply = [ip |-> Nobody, backup |-> NoConn]
    /\ crashed = "no"

-----------------------------------------------------------------------------
(* Helpers                                                                 *)

On(t, l) == crashed = "no" /\ pc[t] = l
Goto(t, l) == pc' = [pc EXCEPT ![t] = l]
End(t) == Goto(t, "idle") /\ local' = [local EXCEPT ![t] = NoLocal]

Registered == {f \in Fds : listenMap[f] # Nobody}

(* ServerList.  add() of a name that is in the list already makes map_     *)
(* point to the new node and leaves the old one in the list; del() removes *)
(* the node map_ points to, the newest.                                    *)
isExisted(c) == c \in connectList.map_
node(c) == Max({i \in DOMAIN connectList.list : connectList.list[i] = c})
add(c) == [list |-> Append(connectList.list, c), map_ |-> connectList.map_ \cup {c}]
del(c) == [list |-> RemoveAt(connectList.list, node(c)), map_ |-> connectList.map_ \ {c}]

(* getNext() and getPrev() go around the ends of the list. *)
getNext(c) == LET l == connectList.list IN l[(node(c) % Len(l)) + 1]
getPrev(c) == LET l == connectList.list IN l[((node(c) + Len(l) - 2) % Len(l)) + 1]

(* A command: its name, the addresses that follow, and whether send() is   *)
(* given strlen() + 1 bytes, the terminating NUL included.                 *)
Command(cmd, addrs, nul) == [cmd |-> cmd, addrs |-> addrs, nul |-> nul]

Updated(r, news) == [x \in DOMAIN r |-> IF x \in DOMAIN news THEN news[x] ELSE r[x]]

(* send() of m on descriptor f; news are the fields of told it changes.  A *)
(* closed descriptor is an ignored error.  The first send() to a dead peer *)
(* is answered by a reset; another one may raise SIGPIPE, whose default    *)
(* action ends the process.                                                *)
Send(f, m, news) ==
    IF \E c \in Conns : fdOf[c] = f /\ f # Absent
      THEN LET c == CHOOSE d \in Conns : fdOf[d] = f
           IN  /\ told' = [told EXCEPT ![c] = IF peer[c] = "alive" THEN Updated(@, news)
                                             ELSE [@ EXCEPT !.reset = TRUE]]
               /\ inbox' = IF c \in regime.observed /\ peer[c] = "alive"
                             THEN [inbox EXCEPT ![c] = Append(@, m)] ELSE inbox
               /\ crashed' \in IF told[c].reset THEN {"no", "sigpipe"} ELSE {"no"}
      ELSE UNCHANGED sent

SendRing(f, r) == Send(f, Command("UPDATE_HASH", r, TRUE), [ring |-> r])
SendBackup(f, a, nul) == Send(f, Command("UPDATE_BACKUP", {a}, nul), [backup |-> a])

(* std::map::operator[]: the value of an absent key is inserted, "" or 0.  *)
ReadConnected(f) == IF connectedMap[f] = NoConn THEN "" ELSE connectedMap[f]
InsertConnected(f) == connectedMap' = [connectedMap EXCEPT ![f] = ReadConnected(f)]
ReadListen(f) == IF listenMap[f] = Nobody THEN "" ELSE listenMap[f]
InsertListen(f) == listenMap' = [listenMap EXCEPT ![f] = ReadListen(f)]
ReadRegisted(c) == IF registedMap[c] = Absent THEN NoFd ELSE registedMap[c]
InsertRegisted(S) == registedMap' = [c \in Names |-> IF c \in S THEN ReadRegisted(c)
                                                     ELSE registedMap[c]]

-----------------------------------------------------------------------------
(* The cache servers, seen from the master                                 *)

AtRest ==
    /\ m_workqueue = <<>> /\ unread = {}
    /\ \A t \in Threads : pc[t] = "idle"
    /\ \A c \in Conns : peer[c] = "alive" => fdOf[c] # Absent /\ inbox[c] = <<>>
    /\ \A c \in Conns : peer[c] # "dead"

MayChange == crashed = "no" /\ (regime.oneAtATime => AtRest)

(* connToMaster(): connects and sends the listen port.  A server that      *)
(* restarts has ended before.                                              *)
Connect(c) ==
    /\ MayChange
    /\ peer[c] = "none" /\ \A d \in Conns : Host[d] = Host[c] => peer[d] # "alive"
    /\ peer' = [peer EXCEPT ![c] = "alive"]
    /\ unread' = unread \cup {c}
    /\ UNCHANGED <<regime, fdOf, registry, masterHash, m_workqueue, pc, local, sent, reply>>

Die(c) ==
    /\ MayChange
    /\ c \in regime.mortal /\ peer[c] = "alive"
    /\ peer' = [peer EXCEPT ![c] = "dead"]
    /\ inbox' = [inbox EXCEPT ![c] = <<>>]
    /\ UNCHANGED <<regime, unread, fdOf, registry, masterHash, m_workqueue, pc, local, told,
                   reply, crashed>>

-----------------------------------------------------------------------------
(* The event loop                                                          *)

(* append(): a full queue drops the request. *)
Enqueue(r) ==
    m_workqueue' = IF Len(m_workqueue) >= MaxRequests THEN m_workqueue ELSE Append(m_workqueue, r)

(* dealwithNewConn(): accept() returns the lowest free descriptor;         *)
(* map::insert() does not overwrite.                                       *)
NewConn(c) ==
    /\ On("loop", "idle")
    /\ peer[c] \in {"alive", "dead"} /\ fdOf[c] = Absent
    /\ LET f == Min({g \in Fds \ {NoFd} : \A d \in Conns : fdOf[d] # g})
       IN  /\ fdOf' = [fdOf EXCEPT ![c] = f]
           /\ connectedMap' = [connectedMap EXCEPT ![f] = IF @ = NoConn THEN c ELSE @]
    /\ UNCHANGED <<outside, registedMap, listenMap, connectList, masterHash, m_workqueue,
                   pc, local, sent, reply>>

(* dealwithClient() *)
Client(k) ==
    /\ On("loop", "idle") /\ k \in regime.keys
    /\ Enqueue([type |-> "GETDISTRIBUTE", key |-> k])
    /\ UNCHANGED <<outside, fdOf, registry, masterHash, pc, local, sent, reply>>

(* dealwithCacheServer(): the announcement; the listen address is the one  *)
(* of the connection with the announced port.                              *)
Announce(c) ==
    /\ On("loop", "idle")
    /\ fdOf[c] # Absent /\ c \in unread
    /\ unread' = unread \ {c}
    /\ Enqueue([type |-> "REGISTER", cfd |-> fdOf[c],
                addr |-> IF ReadConnected(fdOf[c]) = "" THEN Garbage ELSE Host[c]])
    /\ InsertConnected(fdOf[c])
    /\ UNCHANGED <<regime, peer, fdOf, registedMap, listenMap, connectList, masterHash, pc,
                   local, sent, reply>>

(* recv() = 0 on the descriptor of c *)
EndOfFile(c) ==
    /\ On("loop", "idle")
    /\ peer[c] = "dead" /\ fdOf[c] # Absent /\ c \notin unread

(* The connection of a registered server, which only the loop removes from *)
(* the list.  The workers may add others before the steps that follow.     *)
LeaveList(c) ==
    /\ EndOfFile(c)
    /\ LET name == ReadConnected(fdOf[c])
       IN  /\ isExisted(name)
           /\ local' = [local EXCEPT !["loop"] =
                          [NoLocal EXCEPT !.cfd = fdOf[c], !.newAddr = name]]
    /\ Goto("loop", "leave")
    /\ UNCHANGED <<outside, fdOf, registry, masterHash, m_workqueue, sent, reply>>

(* MUTANT: a connection that is not registered yet is closed at once. *)
DisconnectAny(c) ==
    \/ LeaveList(c)
    \/ /\ EndOfFile(c)
       /\ ~isExisted(ReadConnected(fdOf[c]))
       /\ connectedMap' = [connectedMap EXCEPT ![fdOf[c]] = NoConn]
       /\ fdOf' = [fdOf EXCEPT ![c] = Absent]
       /\ peer' = [peer EXCEPT ![c] = "gone"]
       /\ UNCHANGED <<regime, unread, registedMap, listenMap, connectList, masterHash,
                      m_workqueue, pc, local, sent, reply>>

(* dealwithCacheServer(), recv() = 0.  For a connection that is not        *)
(* registered nothing happens, and epoll reports it again.                 *)
Disconnect(c) == LeaveList(c)

(* Its neighbours, and their descriptors *)
LeaveNeighbours ==
    /\ On("loop", "leave")
    /\ LET name == local["loop"].newAddr
       IN  local' = [local EXCEPT !["loop"].prev = getPrev(name), !["loop"].next = getNext(name)]
    /\ Goto("loop", "leave_fds")
    /\ UNCHANGED <<outside, fdOf, registry, masterHash, m_workqueue, sent, reply>>

LeaveFds ==
    /\ On("loop", "leave_fds")
    /\ LET l == local["loop"]
       IN  /\ local' = [local EXCEPT !["loop"].prev_fd = ReadRegisted(l.prev),
                                     !["loop"].next_fd = ReadRegisted(l.next)]
           /\ InsertRegisted({l.prev, l.next})
    /\ Goto("loop", "erase")
    /\ UNCHANGED <<outside, fdOf, connectedMap, listenMap, connectList, masterHash,
                   m_workqueue, sent, reply>>

(* close(), and the block under m_conn_lock, which erases the server from  *)
(* every container but those of keep.                                      *)
EraseExcept(keep) ==
    /\ On("loop", "erase")
    /\ LET f == local["loop"].cfd
           c == CHOOSE d \in Conns : fdOf[d] = f
           name == local["loop"].newAddr
       IN  /\ peer' = [peer EXCEPT ![c] = "gone"]
           /\ fdOf' = [fdOf EXCEPT ![c] = Absent]
           /\ connectedMap' = [connectedMap EXCEPT
                                 ![f] = IF "connectedMap" \in keep THEN @ ELSE NoConn]
           /\ registedMap' = [registedMap EXCEPT ![name] = Absent]
           /\ listenMap' = [listenMap EXCEPT ![f] = IF "listenMap" \in keep THEN @ ELSE Nobody]
           /\ connectList' = del(name)
    /\ Goto("loop", "uh_build")
    /\ UNCHANGED <<regime, unread, masterHash, m_workqueue, local, sent, reply>>

(* MUTANTS: one erase() is forgotten. *)
EraseKeepsConnected == EraseExcept({"connectedMap"})
EraseKeepsListen == EraseExcept({"listenMap"})

Erase == EraseExcept({})

(* RECOVER_BACKUP to the successor, unless the server was alone. *)
SendRecover ==
    /\ On("loop", "recover")
    /\ LET l == local["loop"]
       IN  IF l.cfd \in {l.prev_fd, l.next_fd}
             THEN End("loop") /\ UNCHANGED sent
             ELSE /\ Send(l.next_fd, Command("RECOVER_BACKUP", {}, FALSE), <<>>)
                  /\ Goto("loop", "rebackup") /\ UNCHANGED local
    /\ UNCHANGED <<outside, fdOf, registry, masterHash, m_workqueue, reply>>

(* UPDATE_BACKUP with the address of descriptor f to the predecessor. *)
Rebackup(f) ==
    /\ On("loop", "rebackup")
    /\ SendBackup(local["loop"].prev_fd, ReadListen(f), FALSE) /\ InsertListen(f)
    /\ End("loop")
    /\ UNCHANGED <<outside, fdOf, connectedMap, registedMap, connectList, masterHash,
                   m_workqueue, reply>>

(* MUTANT: the predecessor is sent its own address. *)
SendRebackupPrev == Rebackup(local["loop"].prev_fd)

SendRebackup == Rebackup(local["loop"].next_fd)

-----------------------------------------------------------------------------
(* UpdateHash(), called by Register() and after a disconnect               *)

(* The list of addresses is built under m_conn_lock. *)
BuildRing(t) ==
    /\ On(t, "uh_build")
    /\ local' = [local EXCEPT ![t].ring = {listenMap[f] : f \in Registered}, ![t].cur = Absent]
    /\ Goto(t, "uh_send")
    /\ UNCHANGED <<outside, fdOf, registry, masterHash, m_workqueue, sent, reply>>

(* It is sent while listenMap is iterated, in the order of descriptors,    *)
(* without the lock.  An iterator whose element has been erased is         *)
(* invalid: it may still lead on, or crash.  The debug message subscripts  *)
(* connectedMap.                                                           *)
SendRings(t) ==
    /\ On(t, "uh_send")
    /\ LET rest == {f \in Registered : f > local[t].cur}
           f == Min(rest)
           stale == local[t].cur # Absent /\ local[t].cur \notin Registered
       IN  \/ /\ stale
              /\ crashed' = "iterator"
              /\ UNCHANGED <<connectedMap, local, pc, told, inbox>>
           \/ /\ rest = {}
              /\ Goto(t, IF t = "loop" THEN "recover" ELSE "reg_move")
              /\ UNCHANGED <<connectedMap, local, sent>>
           \/ /\ rest # {}
              /\ SendRing(f, local[t].ring)
              /\ local' = [local EXCEPT ![t].cur = f]
              /\ InsertConnected(f)
              /\ UNCHANGED pc
    /\ UNCHANGED <<outside, fdOf, registedMap, listenMap, connectList, masterHash,
                   m_workqueue, reply>>

-----------------------------------------------------------------------------
(* Worker threads: run(), Register() and GetDistribute()                   *)

TakeRegister(w) ==
    /\ On(w, "idle")
    /\ m_workqueue # <<>> /\ Head(m_workqueue).type = "REGISTER"
    /\ LET r == Head(m_workqueue)
       IN  local' = [local EXCEPT ![w] = [NoLocal EXCEPT !.cfd = r.cfd, !.addr = r.addr]]
    /\ m_workqueue' = Tail(m_workqueue)
    /\ Goto(w, "reg_addr")
    /\ UNCHANGED <<outside, fdOf, registry, masterHash, sent, reply>>


(* Register() starts with unlocked reads of connectedMap[cfd] and of       *)
(* registedMap; the connection may be closed before either.                *)
ReadAddr(w) ==
    /\ On(w, "reg_addr")
    /\ local' = [local EXCEPT ![w].newAddr = ReadConnected(local[w].cfd)]
    /\ InsertConnected(local[w].cfd)
    /\ Goto(w, "reg_copy")
    /\ UNCHANGED <<outside, fdOf, registedMap, listenMap, connectList, masterHash,
                   m_workqueue, sent, reply>>

CopyRegisted(w) ==
    /\ On(w, "reg_copy")
    /\ local' = [local EXCEPT ![w].notity = {registedMap[c] : c \in Names} \ {Absent}]
    /\ Goto(w, "reg_insert")
    /\ UNCHANGED <<outside, fdOf, registry, masterHash, m_workqueue, sent, reply>>

(* The block under m_conn_lock, with listen address addr.  map::insert     *)
(* does not overwrite; an address that was registered already ends         *)
(* Register().                                                             *)
InsertAs(w, addr) ==
    /\ On(w, "reg_insert")
    /\ LET l == local[w]
           new == registedMap[l.newAddr] = Absent
       IN  /\ registedMap' = [registedMap EXCEPT ![l.newAddr] = IF new THEN l.cfd ELSE @]
           /\ listenMap' = [listenMap EXCEPT ![l.cfd] = IF @ = Nobody THEN addr ELSE @]
           /\ connectList' = add(l.newAddr)
           /\ IF new THEN Goto(w, "reg_hash") /\ UNCHANGED local ELSE End(w)
    /\ UNCHANGED <<outside, fdOf, connectedMap, masterHash, m_workqueue, sent, reply>>

(* MUTANT: listenMap is not written. *)
InsertNoListen(w) == InsertAs(w, Nobody)

Insert(w) == InsertAs(w, local[w].addr)

(* MUTANT: the servers are told to migrate before they get the new ring. *)
AddToHashMoveFirst(w) ==
    /\ On(w, "reg_hash")
    /\ masterHash' = masterHash \cup {local[w].addr}
    /\ IF local[w].notity = {}
         THEN Goto(w, "uh_build") /\ UNCHANGED <<local, sent>>
         ELSE /\ Send(Min(local[w].notity), Command("MOVE_DATA", {}, TRUE), <<>>)
              /\ local' = [local EXCEPT ![w].notity = @ \ {Min(@)}]
              /\ UNCHANGED pc
    /\ UNCHANGED <<outside, fdOf, registry, m_workqueue, reply>>

AddToHash(w) ==
    /\ On(w, "reg_hash")
    /\ masterHash' = masterHash \cup {local[w].addr}
    /\ Goto(w, "uh_build")
    /\ UNCHANGED <<outside, fdOf, registry, m_workqueue, local, sent, reply>>

(* MOVE_DATA to the servers of the copy. *)
SendMove(w) ==
    /\ On(w, "reg_move")
    /\ IF local[w].notity = {}
         THEN Goto(w, "reg_exists") /\ UNCHANGED <<local, sent>>
         ELSE /\ Send(Min(local[w].notity), Command("MOVE_DATA", {}, TRUE), <<>>)
              /\ local' = [local EXCEPT ![w].notity = @ \ {Min(@)}]
              /\ UNCHANGED pc
    /\ UNCHANGED <<outside, fdOf, registry, masterHash, m_workqueue, reply>>

CheckExists(w) ==
    /\ On(w, "reg_exists")
    /\ IF isExisted(local[w].newAddr)
         THEN Goto(w, "reg_neighbours") /\ UNCHANGED local
         ELSE End(w)
    /\ UNCHANGED <<outside, fdOf, registry, masterHash, m_workqueue, sent, reply>>

(* getPrev() and getNext() of an address that has been deleted meanwhile   *)
(* follow a nullptr.                                                       *)
ReadNeighbours(w) ==
    /\ On(w, "reg_neighbours")
    /\ LET name == local[w].newAddr
       IN  IF isExisted(name)
             THEN /\ local' = [local EXCEPT ![w].prev = getPrev(name), ![w].next = getNext(name)]
                  /\ Goto(w, "reg_fds") /\ UNCHANGED crashed
             ELSE crashed' = "neighbour" /\ UNCHANGED <<local, pc>>
    /\ UNCHANGED <<outside, fdOf, registry, masterHash, m_workqueue, told, inbox, reply>>

(* Their descriptors; a neighbour that has been erased meanwhile gets an   *)
(* entry of registedMap with descriptor 0.                                 *)
ReadFds(w) ==
    /\ On(w, "reg_fds")
    /\ LET l == local[w]
       IN  /\ local' = [local EXCEPT ![w].prev_fd = ReadRegisted(l.prev),
                                     ![w].next_fd = ReadRegisted(l.next)]
           /\ InsertRegisted({l.prev, l.next})
    /\ Goto(w, "reg_prev")
    /\ UNCHANGED <<outside, fdOf, connectedMap, listenMap, connectList, masterHash,
                   m_workqueue, sent, reply>>

(* UPDATE_BACKUP to the predecessor, unless the server is alone. *)
BackupPrev(w) ==
    /\ On(w, "reg_prev")
    /\ LET l == local[w]
       IN  IF l.next_fd # l.cfd \/ l.prev_fd # l.cfd
             THEN /\ SendBackup(l.prev_fd, ReadListen(l.cfd), TRUE) /\ InsertListen(l.cfd)
                  /\ Goto(w, "reg_self") /\ UNCHANGED local
             ELSE End(w) /\ UNCHANGED <<listenMap, sent>>
    /\ UNCHANGED <<outside, fdOf, connectedMap, registedMap, connectList, masterHash,
                   m_workqueue, reply>>

(* UPDATE_BACKUP to the new server. *)
BackupSelf(w) ==
    /\ On(w, "reg_self")
    /\ LET l == local[w]
       IN  SendBackup(l.cfd, ReadListen(l.next_fd), TRUE) /\ InsertListen(l.next_fd)
    /\ End(w)
    /\ UNCHANGED <<outside, fdOf, connectedMap, registedMap, connectList, masterHash,
                   m_workqueue, reply>>

(* conhash_get_CacheServer(): the first server of the ring that k meets.   *)
Owner(S, k) ==
    IF S = {} THEN "NULL" ELSE SelectSeq(Prefer[k], LAMBDA s : s \in S)[1]

(* GetDistribute(): the owner is looked up under hash_mutex, its backup is *)
(* the next member of connectList.                                         *)
GetDistribute(w, k) ==
    /\ On(w, "idle")
    /\ m_workqueue # <<>> /\ Head(m_workqueue) = [type |-> "GETDISTRIBUTE", key |-> k]
    /\ m_workqueue' = Tail(m_workqueue)
    /\ LET ip_port == Owner(masterHash, k)
       IN  reply' = [ip |-> ip_port,
                     backup |-> IF isExisted(ip_port) THEN getNext(ip_port) ELSE NoConn]
    /\ UNCHANGED <<outside, fdOf, registry, masterHash, pc, local, sent>>

-----------------------------------------------------------------------------
(* The rest of dealwithCacheServer() after a disconnect *)
Leave ==
    \/ LeaveNeighbours \/ LeaveFds \/ Erase \/ BuildRing("loop") \/ SendRings("loop")
    \/ SendRecover \/ SendRebackup

Loop ==
    \/ \E c \in Conns : NewConn(c) \/ Announce(c) \/ Disconnect(c)
    \/ Leave

Register(w) ==
    \/ TakeRegister(w) \/ ReadAddr(w) \/ CopyRegisted(w) \/ Insert(w) \/ AddToHash(w)
    \/ BuildRing(w) \/ SendRings(w) \/ SendMove(w) \/ CheckExists(w) \/ ReadNeighbours(w)
    \/ ReadFds(w) \/ BackupPrev(w) \/ BackupSelf(w)

Worker(w) == Register(w) \/ \E k \in Keys : GetDistribute(w, k)

Next ==
    \/ \E c \in Conns : Connect(c) \/ Die(c)
    \/ \E k \in Keys : Client(k)
    \/ Loop
    \/ \E w \in Workers : Worker(w)

Spec == Init /\ [][Next]_vars

-----------------------------------------------------------------------------
(* Properties                                                              *)

Labels == {"idle", "leave", "leave_fds", "erase", "uh_build", "uh_send", "recover", "rebackup",
           "reg_addr", "reg_copy", "reg_insert", "reg_hash", "reg_move", "reg_exists",
           "reg_neighbours", "reg_fds", "reg_prev", "reg_self"}

(* Every variable has its type, the request queue never holds more than    *)
(* MaxRequests, and every thread is at a point the code can be at.         *)
TypeOK ==
    /\ regime \in Regimes
    /\ peer \in [Conns -> {"none", "alive", "dead", "gone"}]
    /\ unread \subseteq Conns
    /\ fdOf \in [Conns -> (Fds \ {NoFd}) \cup {Absent}]
    /\ connectedMap \in [Fds -> Names \cup {NoConn}]
    /\ registedMap \in [Names -> Fds \cup {Absent}]
    /\ listenMap \in [Fds -> Servers \cup {"", Garbage, Nobody}]
    /\ connectList.list \in Seq(Names) /\ connectList.map_ \subseteq Names
    /\ masterHash \subseteq Servers \cup {Garbage}
    /\ Len(m_workqueue) <= MaxRequests
    /\ pc \in [Threads -> Labels]
    /\ crashed \in {"no", "sigpipe", "iterator", "neighbour"}

(* Four containers describe the same set of servers: connectList and       *)
(* registedMap have the same members, each once, and a member's descriptor *)
(* leads back to it through connectedMap and to its own listen address     *)
(* through listenMap, which has no other entries.                          *)
RegistryConsistent ==
    /\ TypeOK
    /\ IsInjective(connectList.list) /\ Range(connectList.list) = connectList.map_
    /\ \A c \in Names : registedMap[c] # Absent <=> isExisted(c)
    /\ \A c \in Conns : isExisted(c) =>
         /\ registedMap[c] = fdOf[c]
         /\ connectedMap[fdOf[c]] = c
         /\ listenMap[fdOf[c]] = Host[c]
    /\ \A f \in Registered : isExisted(connectedMap[f])

LiveHosts == {Host[c] : c \in {d \in Conns : isExisted(d)}}

(* Once registrations and disconnects have been handled, every registered  *)
(* server has last been sent the ring of exactly the registered servers.   *)
RingsAgree ==
    regime.oneAtATime /\ AtRest =>
        \A c \in Conns : isExisted(c) => told[c].ring = LiveHosts

(* The backups form a cycle: at rest every server was last told to keep    *)
(* its backup on its successor in connectList, after servers joined        *)
(* between others and after servers between others left.                   *)
BackupCycle ==
    regime.oneAtATime /\ AtRest /\ Len(connectList.list) > 1 =>
        \A c \in Conns : isExisted(c) => told[c].backup = Host[getNext(c)]

(* A server that died stays forgotten: no Register() that is still running *)
(* brings its address back to connectList, or to registedMap with a        *)
(* descriptor that may be another server's by now.                         *)
NoGhost ==
    \A c \in Conns : peer[c] = "gone" => ~isExisted(c) /\ registedMap[c] \in {Absent, NoFd}

(* Register() works on the connection that asked for it: connectedMap,     *)
(* "fd -> ip_port of the connected cache_server" (master_service.h:56),    *)
(* leads from the descriptor of the request to the server that sent it,    *)
(* also when the descriptor was that of another server before.             *)
RegistersRequester ==
    \A w \in Workers : pc[w] = "reg_insert" =>
        \E c \in Conns : fdOf[c] = local[w].cfd /\ Host[c] = local[w].addr
                         /\ local[w].newAddr = c

-----------------------------------------------------------------------------
(* What comments and documents say, and the code does not keep             *)

(* serverList.h:107, "check isExisted before getPrev": the address         *)
(* Register() asks the neighbours of is in the list.                       *)
NeighboursOfMember == crashed # "neighbour"

(* README.md: the master adds a new cache_server to the hash and sends the *)
(* hash to all: the ring a newcomer is sent has it as a member.            *)
NewServerIsMember ==
    \A c \in Conns : told[c].ring # NoRing => Host[c] \in told[c].ring

(* master_service.cpp:157: a send() that fails returns -1 and is logged.   *)
SendFailureIsLogged == crashed # "sigpipe"

(* README.md: when a cache_server goes offline the data mapping is         *)
(* rebuilt; clients are directed to servers that are registered.           *)
RoutesToRegistered ==
    [][\A w \in Workers, k \in Keys : GetDistribute(w, k) => reply'.ip \in LiveHosts \cup {"NULL"}]_vars

(* master_service.cpp:71: the answer holds the backup server too. *)
BackupIsAnswered ==
    [][\A w \in Workers, k \in Keys :
         GetDistribute(w, k) /\ Len(connectList.list) > 1 => reply'.backup # NoConn]_vars

=============================================================================

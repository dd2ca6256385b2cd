---------------------------- MODULE CacheServer ----------------------------
(***************************************************************************)
(* The operations of class CacheServer as its threads interleave them: the *)
(* worker threads that execute getValue(), setValue() and their backup     *)
(* twins, the event loop that executes the master's commands, and the      *)
(* detached threads the commands start, move() and update().               *)
(*                                                                         *)
(* One operation of a ThreadSafeLRUCache is one step (LRUCache shows it is *)
(* atomic, hasKey() excepted).  "hasKey(k) && is_dirty(k)" is one step:    *)
(* is_dirty() is false for an absent key, so that the conjunction adds to  *)
(* is_dirty() only what an unlocked hasKey() may miss.  Which request a    *)
(* worker gets is left to the caller: RequestQueue models the queue.       *)
(***************************************************************************)
EXTENDS LRUOps

CONSTANTS
    Keys, Vals, Cap,
    Workers,      \* the thread pool
    Background,   \* the detached threads that may exist at the same time
    Servers,      \* listen addresses, the contents of the hash ring
    Self,         \* the listen address of this server, as the master knows it
    Prefer,       \* Prefer[k]: Servers in the order in which k meets them on the ring
    HashLists,    \* the address lists the master may send with UPDATE_HASH
    Ops,          \* the requests the workers may get
    Commands,     \* the commands the master may send
    MaxFd,        \* the process may have MaxFd sockets besides the fixed ones
    Free          \* the holder of a mutex that is not locked

RequestOps == {"set_value", "get_value", "set_backup_value", "get_backup_value"}
MasterCommands == {"move_data", "update_hash", "update_backup", "recover_backup"}

Threads == Workers \cup Background

ASSUME CacheAssumption ==
    /\ Cap \in Nat \ {0} /\ MaxFd \in Nat
    /\ Workers \cap Background = {} /\ Free \notin Threads
    /\ Ops \subseteq RequestOps /\ Commands \subseteq MasterCommands
    /\ HashLists \subseteq SUBSET Servers /\ Self \in Servers

VARIABLES
    table,     \* table["lru"], table["lru_backup"]: the two caches
    mutex,     \* of the same names: lru_mutex and lru_backup_mutex
    state,     \* 0: move() works on lru, 1: on lru_backup
    backup_invalid,
    ring,      \* *cacheServerHash: [alive, members]
    loop,      \* the event loop: [at, todo], todo the addresses still to add
    fds,       \* fds[f]: "free", "open" (a fresh socket) or "conn"
    pc,        \* where each thread is
    request,   \* request[w]: what worker w executes
    local,     \* local[b]: mode, keys and cfd of a detached thread
    crashed    \* how the process died: by lru.get() of an absent key, in an
               \* unlocked find(), in the freed ring, or of SIGPIPE; "no"
               \* while it runs

vars == <<table, mutex, state, backup_invalid, ring, loop, fds, pc, request, local, crashed>>

Tables == {"lru", "lru_backup"}
Fds == 1..MaxFd
NoFd == 0    \* socket() failed: -1

(* local_addr is built from INADDR_ANY, the addresses of the ring from the *)
(* address the master sees.                                                *)
local_addr == "0.0.0.0"

(* conhash_get_CacheServer(): the first server of the ring that k meets.   *)
Owner(S, k) ==
    IF S = {} THEN "NULL" ELSE SelectSeq(Prefer[k], LAMBDA s : s \in S)[1]

NoRequest == [op |-> "none", key |-> "", val |-> ""]
NoLocal == [mode |-> "lru", keys |-> <<>>, cfd |-> NoFd]

(* The caches start empty; a server registers before it serves. *)
Init ==
    /\ table = [t \in Tables |-> <<>>]
    /\ mutex = [t \in Tables |-> Free]
    /\ state = 0
    /\ backup_invalid = 0
    /\ ring = [alive |-> TRUE, members |-> {}]
    /\ loop = [at |-> "poll", todo |-> {}]
    /\ fds = [f \in Fds |-> "free"]
    /\ pc = [x \in Threads |-> "idle"]
    /\ request = [w \in Workers |-> NoRequest]
    /\ local = [b \in Background |-> NoLocal]
    /\ crashed = "no"

-----------------------------------------------------------------------------
(* Steps shared by the threads                                             *)

(* A thread at label l, in a process that runs. *)
On(x, l) == crashed = "no" /\ pc[x] = l
LoopAt(l) == crashed = "no" /\ loop.at = l

Goto(x, l) == pc' = [pc EXCEPT ![x] = l]

(* pthread_mutex_unlock() of the C library does not look at the owner.     *)
Unlock(t) == mutex' = [mutex EXCEPT ![t] = Free]

(* The cache and the key of a request *)
TableOf(op) == IF op \in {"set_value", "get_value"} THEN "lru" ELSE "lru_backup"

T(w) == TableOf(request[w].op)
K(w) == request[w].key

(* hasKey() takes no lock: while another thread is inside set(), which     *)
(* erases from the unordered_map and inserts into it, find() may miss any  *)
(* key or follow a freed cell.                                             *)
BeingSet(t) == \E v \in Workers : pc[v] = "write" /\ T(v) = t

HasKeyResults(t, k) ==
    {HasKey(table[t], k)} \cup IF BeingSet(t) THEN {FALSE} ELSE {}

HasKeyCrash(t) == crashed' \in IF BeingSet(t) THEN {"no", "find"} ELSE {"no"}

(* lru.get(k): promotes k, or follows the nullptr that map[k] creates.     *)
GetOrCrash(t, k) ==
    IF HasKey(table[t], k)
      THEN table' = [table EXCEPT ![t] = MakeRecently(@, k)] /\ UNCHANGED crashed
      ELSE crashed' = "get" /\ UNCHANGED table

(* The descriptors socket() and accept() may return: the lowest free one. *)
NewFd ==
    LET free == {f \in Fds : fds[f] = "free"}
    IN  IF free = {} THEN {NoFd} ELSE {f \in free : \A g \in free : f <= g}

SetFd(f, s) == fds' = IF f \in Fds THEN [fds EXCEPT ![f] = s] ELSE fds

-----------------------------------------------------------------------------
(* Worker threads                                                          *)

UnchangedByWorkers == UNCHANGED <<state, backup_invalid, ring, loop, fds, local>>

(* run(): a request is dispatched on its type. *)
Dispatch(w) ==
    /\ On(w, "idle")
    /\ \E op \in Ops, k \in Keys, v \in Vals :
         /\ request' = [request EXCEPT ![w] = [op |-> op, key |-> k, val |-> v]]
         /\ Goto(w, IF op \in {"set_value", "set_backup_value"} THEN "lock" ELSE "is_dirty")
    /\ UNCHANGED <<table, mutex, crashed>> /\ UnchangedByWorkers

Done(w) == Goto(w, "idle") /\ request' = [request EXCEPT ![w] = NoRequest]

(* getValue(), getBackupValue(): dirty data is told apart. *)
GetIsDirty(w) ==
    /\ On(w, "is_dirty")
    /\ \E found \in HasKeyResults(T(w), K(w)) :
         Goto(w, IF found /\ IsDirty(table[T(w)], K(w)) THEN "answer" ELSE "has_key")
    /\ HasKeyCrash(T(w))
    /\ UNCHANGED <<table, mutex, request>> /\ UnchangedByWorkers

(* DATA_NOT_EXIST will be answered, or get() is called next. *)
GetHasKey(w) ==
    /\ On(w, "has_key")
    /\ \E found \in HasKeyResults(T(w), K(w)) : Goto(w, IF found THEN "get" ELSE "answer")
    /\ HasKeyCrash(T(w))
    /\ UNCHANGED <<table, mutex, request>> /\ UnchangedByWorkers

GetRead(w) ==
    /\ On(w, "get")
    /\ GetOrCrash(T(w), K(w))
    /\ Goto(w, "answer")
    /\ UNCHANGED <<mutex, request>> /\ UnchangedByWorkers

(* DIRTY_DATA, DATA_NOT_EXIST or GET_SUCCESS and the value is sent; a      *)
(* client that is gone may be a SIGPIPE.                                   *)
GetAnswer(w) ==
    /\ On(w, "answer")
    /\ Done(w)
    /\ crashed' \in {"no", "sigpipe"}
    /\ UNCHANGED <<table, mutex>> /\ UnchangedByWorkers

(* MUTANT: setValue() without lru_mutex.lock(). *)
SetLockNone(w) ==
    /\ On(w, "lock")
    /\ Goto(w, "check")
    /\ UNCHANGED <<table, mutex, request, crashed>> /\ UnchangedByWorkers

(* setValue(), setBackupValue() *)
SetLock(w) ==
    /\ On(w, "lock")
    /\ mutex[T(w)] = Free
    /\ mutex' = [mutex EXCEPT ![T(w)] = w]
    /\ Goto(w, "check")
    /\ UNCHANGED <<table, request, crashed>> /\ UnchangedByWorkers

(* MUTANT: the dirty mark is not looked at. *)
SetCheckNone(w) ==
    /\ On(w, "check")
    /\ Goto(w, "write")
    /\ UNCHANGED <<table, mutex, request, crashed>> /\ UnchangedByWorkers

SetCheck(w) ==
    /\ On(w, "check")
    /\ Goto(w, IF IsDirty(table[T(w)], K(w)) THEN "unlock" ELSE "write")
    /\ UNCHANGED <<table, mutex, request, crashed>> /\ UnchangedByWorkers

SetWrite(w) ==
    /\ On(w, "write")
    /\ table' = [table EXCEPT ![T(w)] = SetKey(@, K(w), request[w].val, Cap)]
    /\ Goto(w, "unlock")
    /\ UNCHANGED <<mutex, request, crashed>> /\ UnchangedByWorkers

SetUnlock(w) ==
    /\ On(w, "unlock")
    /\ Unlock(T(w))
    /\ Done(w)
    /\ UNCHANGED <<table, crashed>> /\ UnchangedByWorkers

Worker(w) ==
    \/ GetIsDirty(w) \/ GetHasKey(w) \/ GetRead(w) \/ GetAnswer(w)
    \/ SetLock(w) \/ SetCheck(w) \/ SetWrite(w) \/ SetUnlock(w)

-----------------------------------------------------------------------------
(* The event loop: dealwithMasterMsg() and dealwithListenMsg()             *)

UnchangedByLoop == UNCHANGED <<table, mutex, backup_invalid, request, crashed>>

(* A command that starts a thread at label l. *)
Spawn(c, l) ==
    /\ c \in Commands
    /\ LoopAt("poll")
    /\ \E b \in Background : On(b, "idle") /\ Goto(b, l)

MoveData ==
    /\ Spawn("move_data", "m_state")
    /\ UNCHANGED <<state, ring, loop, fds, local>> /\ UnchangedByLoop

(* recoverBackup() tells move() what to do through the member state. *)
RecoverBackup ==
    /\ Spawn("recover_backup", "m_state")
    /\ state' = 1
    /\ UNCHANGED <<ring, loop, fds, local>> /\ UnchangedByLoop

UpdateBackup ==
    /\ Spawn("update_backup", "u_socket")
    /\ UNCHANGED <<state, ring, loop, fds, local>> /\ UnchangedByLoop

(* updateHash(): delete the old ring, ... *)
HashDelete ==
    /\ "update_hash" \in Commands
    /\ LoopAt("poll")
    /\ \E ip_ports \in HashLists : loop' = [at |-> "new", todo |-> ip_ports]
    /\ ring' = [ring EXCEPT !.alive = FALSE]
    /\ UNCHANGED <<state, fds, pc, local>> /\ UnchangedByLoop

(* ... create an empty one, ... *)
HashNew ==
    /\ LoopAt("new")
    /\ loop' = [loop EXCEPT !.at = "add"]
    /\ ring' = [alive |-> TRUE, members |-> {}]
    /\ UNCHANGED <<state, fds, pc, local>> /\ UnchangedByLoop

(* ... and add the servers one by one.  hash_mutex, held meanwhile, is     *)
(* taken by nobody else.                                                   *)
HashAdd ==
    /\ LoopAt("add")
    /\ IF loop.todo = {}
         THEN loop' = [loop EXCEPT !.at = "poll"] /\ UNCHANGED ring
         ELSE \E s \in loop.todo :
                /\ ring' = [ring EXCEPT !.members = @ \cup {s}]
                /\ loop' = [loop EXCEPT !.todo = @ \ {s}]
    /\ UNCHANGED <<state, fds, pc, local>> /\ UnchangedByLoop

(* The master is gone: its socket is no longer polled, and nobody          *)
(* reconnects.                                                             *)
MasterCrashed ==
    /\ LoopAt("poll")
    /\ loop' = [loop EXCEPT !.at = "no_master"]
    /\ UNCHANGED <<state, ring, fds, pc, local>> /\ UnchangedByLoop

(* dealwithListenMsg(): the connection is accepted and kept. *)
Accept ==
    /\ LoopAt("poll") \/ LoopAt("no_master")
    /\ \E f \in NewFd : f # NoFd /\ SetFd(f, "conn")
    /\ UNCHANGED <<state, ring, loop, pc, local>> /\ UnchangedByLoop

EventLoop ==
    \/ MoveData \/ RecoverBackup \/ UpdateBackup
    \/ HashDelete \/ HashNew \/ HashAdd
    \/ MasterCrashed \/ Accept

-----------------------------------------------------------------------------
(* move(), in a detached thread                                            *)

Mode(b) == local[b].mode
Key(b) == Head(local[b].keys)

NextKey(b) == local' = [local EXCEPT ![b].keys = Tail(@)]

End(b) == Goto(b, "idle") /\ local' = [local EXCEPT ![b] = NoLocal]

UnchangedByThreads == UNCHANGED <<ring, loop, request>>

MoveReadState(b) ==
    /\ On(b, "m_state")
    /\ local' = [local EXCEPT ![b].mode = IF state = 0 THEN "lru" ELSE "lru_backup"]
    /\ Goto(b, "m_snapshot")
    /\ UNCHANGED <<table, mutex, state, backup_invalid, fds, crashed>> /\ UnchangedByThreads

MoveSnapshot(b) ==
    /\ On(b, "m_snapshot")
    /\ local' = [local EXCEPT ![b].keys = KeysOneshot(table[Mode(b)])]
    /\ Goto(b, "m_lock")
    /\ UNCHANGED <<table, mutex, state, backup_invalid, fds, crashed>> /\ UnchangedByThreads

MoveLock(b) ==
    /\ On(b, "m_lock")
    /\ mutex[Mode(b)] = Free
    /\ mutex' = [mutex EXCEPT ![Mode(b)] = b]
    /\ Goto(b, "m_loop")
    /\ UNCHANGED <<table, state, backup_invalid, fds, local, crashed>> /\ UnchangedByThreads

(* One iteration: a socket is created, and leaked when the key is gone.    *)
(* Both modes look the key up in lru.                                      *)
MoveLoop(b) ==
    /\ On(b, "m_loop")
    /\ IF local[b].keys = <<>>
         THEN Goto(b, "m_state_again") /\ UNCHANGED <<local, fds, crashed>>
         ELSE \E f \in NewFd, found \in HasKeyResults("lru", Key(b)) :
                /\ SetFd(f, "open")
                /\ HasKeyCrash("lru")
                /\ IF found
                     THEN Goto(b, "m_get") /\ local' = [local EXCEPT ![b].cfd = f]
                     ELSE NextKey(b) /\ UNCHANGED pc
    /\ UNCHANGED <<table, mutex, state, backup_invalid>> /\ UnchangedByThreads

MoveGet(b) ==
    /\ On(b, "m_get")
    /\ GetOrCrash("lru", Key(b))
    /\ Goto(b, "m_hash")
    /\ UNCHANGED <<mutex, state, backup_invalid, fds, local>> /\ UnchangedByThreads

(* The new owner is looked up without hash_mutex: in a ring that is being  *)
(* built, or in freed memory, where anything can come out.  newAddr        *)
(* differs from the empty cur_addr, so the fresh socket is closed.         *)
MoveHash(b) ==
    /\ On(b, "m_hash")
    /\ \E a \in IF ring.alive THEN {Owner(ring.members, Key(b))} ELSE Servers \cup {"NULL"} :
         IF a # local_addr
           THEN SetFd(local[b].cfd, "free") /\ Goto(b, "m_connect") /\ UNCHANGED local
           ELSE NextKey(b) /\ Goto(b, "m_loop") /\ UNCHANGED fds
    /\ crashed' \in IF ring.alive THEN {"no"} ELSE {"no", "ring"}
    /\ UNCHANGED <<table, mutex, state, backup_invalid>> /\ UnchangedByThreads

(* What connect(cfd) can do: a closed descriptor is an error, a connected  *)
(* one too; a fresh one, that another thread got in the meantime, may be   *)
(* connected.                                                              *)
ConnectResults(f) == IF f \in Fds /\ fds[f] = "open" THEN BOOLEAN ELSE {FALSE}

(* MUTANT: a failed connect() returns from move() instead of leaving the   *)
(* loop.                                                                   *)
MoveConnectReturn(b) ==
    /\ On(b, "m_connect")
    /\ \E ok \in ConnectResults(local[b].cfd) :
         IF ok THEN /\ SetFd(local[b].cfd, "conn") /\ Goto(b, "m_send") /\ UNCHANGED local
               ELSE End(b) /\ UNCHANGED fds
    /\ UNCHANGED <<table, mutex, state, backup_invalid, crashed>> /\ UnchangedByThreads

MoveConnect(b) ==
    /\ On(b, "m_connect")
    /\ \E ok \in ConnectResults(local[b].cfd) :
         IF ok THEN SetFd(local[b].cfd, "conn") /\ Goto(b, "m_send")
               ELSE Goto(b, "m_state_again") /\ UNCHANGED fds
    /\ UNCHANGED <<table, mutex, state, backup_invalid, local, crashed>> /\ UnchangedByThreads

(* send() of SET_VALUE with the key: it succeeds, fails, or raises         *)
(* SIGPIPE, which nobody handles.                                          *)
MoveSend(b) ==
    /\ On(b, "m_send")
    /\ \/ Goto(b, "m_mark") /\ UNCHANGED crashed
       \/ Goto(b, "m_state_again") /\ crashed' \in {"no", "sigpipe"}
    /\ UNCHANGED <<table, mutex, state, backup_invalid, fds, local>> /\ UnchangedByThreads

MoveMark(b) ==
    /\ On(b, "m_mark")
    /\ table' = [table EXCEPT !["lru"] = Mark(@, Key(b), TRUE)]
    /\ NextKey(b)
    /\ Goto(b, "m_loop")
    /\ UNCHANGED <<mutex, state, backup_invalid, fds, crashed>> /\ UnchangedByThreads

(* state is read a second time to find out which mutex to unlock. *)
MoveReadAgain(b) ==
    /\ On(b, "m_state_again")
    /\ Goto(b, IF state = 0 THEN "m_unlock" ELSE "m_unlock_backup")
    /\ UNCHANGED <<table, mutex, state, backup_invalid, fds, local, crashed>>
    /\ UnchangedByThreads

MoveUnlock(b) ==
    /\ On(b, "m_unlock")
    /\ Unlock("lru")
    /\ End(b)
    /\ UNCHANGED <<table, state, backup_invalid, fds, crashed>> /\ UnchangedByThreads

MoveUnlockBackup(b) ==
    /\ On(b, "m_unlock_backup")
    /\ Unlock("lru_backup")
    /\ Goto(b, "m_reset")
    /\ UNCHANGED <<table, state, backup_invalid, fds, local, crashed>> /\ UnchangedByThreads

MoveReset(b) ==
    /\ On(b, "m_reset")
    /\ state' = 0
    /\ backup_invalid' = 1
    /\ End(b)
    /\ UNCHANGED <<table, mutex, fds, crashed>> /\ UnchangedByThreads

Move(b) ==
    \/ MoveReadState(b) \/ MoveSnapshot(b) \/ MoveLock(b) \/ MoveLoop(b) \/ MoveGet(b)
    \/ MoveHash(b) \/ MoveConnect(b) \/ MoveSend(b) \/ MoveMark(b)
    \/ MoveReadAgain(b) \/ MoveUnlock(b) \/ MoveUnlockBackup(b) \/ MoveReset(b)

-----------------------------------------------------------------------------
(* update(), in a detached thread                                          *)

UpdateSocket(b) ==
    /\ On(b, "u_socket")
    /\ \E f \in NewFd : SetFd(f, "open") /\ local' = [local EXCEPT ![b].cfd = f]
    /\ Goto(b, "u_connect")
    /\ UNCHANGED <<table, mutex, state, backup_invalid, crashed>> /\ UnchangedByThreads

(* A failed connect() gives up; the socket is never closed. *)
UpdateConnect(b) ==
    /\ On(b, "u_connect")
    /\ \E ok \in ConnectResults(local[b].cfd) :
         IF ok THEN SetFd(local[b].cfd, "conn") /\ Goto(b, "u_snapshot") /\ UNCHANGED local
               ELSE End(b) /\ UNCHANGED fds
    /\ UNCHANGED <<table, mutex, state, backup_invalid, crashed>> /\ UnchangedByThreads

(* BACKUP_INVALID is sent and the keys are listed. *)
UpdateSnapshot(b) ==
    /\ On(b, "u_snapshot")
    /\ local' = [local EXCEPT ![b].keys = KeysOneshot(table["lru"])]
    /\ Goto(b, "u_loop")
    /\ crashed' \in {"no", "sigpipe"}
    /\ UNCHANGED <<table, mutex, state, backup_invalid, fds>> /\ UnchangedByThreads

(* The value of each listed key is read and sent. *)
UpdateLoop(b) ==
    /\ On(b, "u_loop")
    /\ IF local[b].keys = <<>>
         THEN End(b) /\ UNCHANGED <<table, crashed>>
         ELSE /\ GetOrCrash("lru", Key(b)) \/ (crashed' = "sigpipe" /\ UNCHANGED table)
              /\ NextKey(b)
              /\ UNCHANGED pc
    /\ UNCHANGED <<mutex, state, backup_invalid, fds>> /\ UnchangedByThreads

Update(b) == UpdateSocket(b) \/ UpdateConnect(b) \/ UpdateSnapshot(b) \/ UpdateLoop(b)

-----------------------------------------------------------------------------
Next ==
    \/ \E w \in Workers : Dispatch(w) \/ Worker(w)
    \/ EventLoop
    \/ \E b \in Background : Move(b) \/ Update(b)

Spec == Init /\ [][Next]_vars
(***************************************************************************)
(* A thread that can always take its next step takes it: threads are       *)
(* scheduled by the kernel.  lock() is only assumed to succeed when the    *)
(* mutex stays free, so nothing is assumed about the order in which        *)
(* waiting threads get it.  The event loop finishes what it has begun;     *)
(* nothing obliges clients and master to send anything.                    *)
(***************************************************************************)
Fairness ==
    /\ \A w \in Workers : WF_vars(Worker(w))
    /\ \A b \in Background : WF_vars(Move(b) \/ Update(b))
    /\ WF_vars(HashNew \/ HashAdd)

FairSpec == Spec /\ Fairness

-----------------------------------------------------------------------------
(* Properties                                                              *)

WorkerLabels == {"idle", "is_dirty", "has_key", "get", "answer",
                 "lock", "check", "write", "unlock"}
MoveHolds == {"m_loop", "m_get", "m_hash", "m_connect", "m_send", "m_mark",
              "m_state_again", "m_unlock", "m_unlock_backup"}
BackgroundLabels ==
    MoveHolds \cup {"idle", "m_state", "m_snapshot", "m_lock", "m_reset",
                    "u_socket", "u_connect", "u_snapshot", "u_loop"}

Requests == [op : RequestOps, key : Keys, val : Vals]
Locals == [mode : Tables, keys : Seq(Keys), cfd : Fds \cup {NoFd}]

TypeOK ==
    /\ table \in [Tables -> Seq(Entry(Keys, Vals))]
    /\ \A t \in Tables : Len(table[t]) <= Cap
    /\ mutex \in [Tables -> Threads \cup {Free}]
    /\ state \in {0, 1} /\ backup_invalid \in {0, 1}
    /\ ring \in [alive : BOOLEAN, members : SUBSET Servers]
    /\ loop \in [at : {"poll", "new", "add", "no_master"}, todo : SUBSET Servers]
    /\ fds \in [Fds -> {"free", "open", "conn"}]
    /\ pc \in [Threads -> WorkerLabels \cup BackgroundLabels]
    /\ \A w \in Workers : pc[w] \in WorkerLabels
    /\ \A b \in Background : pc[b] \in BackgroundLabels
    /\ request \in [Workers -> Requests \cup {NoRequest}]
    /\ local \in [Background -> Locals]
    /\ crashed \in {"no", "get", "find", "ring", "sigpipe"}

(* The threads that are between lock() and unlock() of a mutex. *)
InSection(x, t) ==
    \/ x \in Workers /\ pc[x] \in {"check", "write", "unlock"} /\ T(x) = t
    \/ x \in Background /\ pc[x] \in MoveHolds /\ Mode(x) = t

(* lru_mutex and lru_backup_mutex are mutexes in effect: their holder is   *)
(* exactly the thread between lock() and unlock(), whichever way it leaves *)
(* move() or setValue().  Nobody unlocks what it did not lock, and no      *)
(* thread ends with a lock held.                                           *)
HolderInSection ==
    \A t \in Tables, x \in Threads : InSection(x, t) <=> mutex[t] = x

LockDiscipline == TypeOK /\ HolderInSection

(* "No set while a move is going on" (cache_service.h:52): setValue() does *)
(* not change lru between the snapshot lock and the unlock of a move(),    *)
(* however requests and commands interleave.                               *)
MoveExcludesSet ==
    \A w \in Workers, b \in Background :
        ~(InSection(w, "lru") /\ InSection(b, "lru"))

(* The lookup and the read of a key in move() are two operations of lru;   *)
(* lru_mutex keeps a set() from evicting the key in between.               *)
MoveReadsPresentKey ==
    \A b \in Background : pc[b] = "m_get" => HasKey(table["lru"], Key(b))

(* A key that move() marked dirty, because it has been sent to another     *)
(* server, is not revived by a set: it keeps its value and its mark until  *)
(* it is evicted.                                                          *)
DirtyNotRevived ==
    [][\A k \in Keys :
         IsDirty(table["lru"], k) /\ HasKey(table'["lru"], k) =>
             /\ IsDirty(table'["lru"], k)
             /\ ValueOf(table'["lru"], k) = ValueOf(table["lru"], k)]_vars

(* A mutex is never held forever: whoever holds it, setValue() or move(),  *)
(* releases it, unless the process dies.                                   *)
LocksReleased ==
    \A t \in Tables, x \in Threads :
        mutex[t] = x ~> mutex[t] # x \/ crashed # "no"


-----------------------------------------------------------------------------
(* What comments and documents say, and the code does not keep             *)

(* lru.h:229, "check hasKey before calling this function": lru.get() is    *)
(* only applied to keys that are present, so it never follows the nullptr  *)
(* that map[key] creates.                                                  *)
GetsPresentKey == crashed # "get"

(* cache_service.h:53, "do not read the backup table while the backup is   *)
(* being rebuilt": no getBackupValue() reads lru_backup while a recovery   *)
(* holds lru_backup_mutex.                                                 *)
NoBackupReadInRecovery ==
    ~\E w \in Workers, b \in Background :
        /\ pc[w] \in {"has_key", "get"} /\ T(w) = "lru_backup"
        /\ InSection(b, "lru_backup")

(* cache_service.cpp:316, "used to exchange data between cache servers":   *)
(* the socket that move() connects is open.                                *)
MoveSocketIsOpen ==
    \A b \in Background : pc[b] = "m_connect" =>
        local[b].cfd \in Fds /\ fds[local[b].cfd] # "free"

(* README.md, scale-out: data that does not belong to the server itself is *)
(* migrated; a key whose owner is this server stays where it is.           *)
OwnKeysStay ==
    [][\A b \in Background :
         MoveHash(b) /\ loop.at = "poll" /\ Owner(ring.members, Key(b)) = Self =>
             pc'[b] # "m_connect"]_vars

(* README.md, scale-out, step 2: the new owner of a key is computed from   *)
(* the new hash ring, which exists and holds every server of the list.     *)
LookupInWholeRing ==
    \A b \in Background : pc[b] = "m_hash" => loop.at \notin {"new", "add"}
=============================================================================

------------------------------ MODULE Cluster ------------------------------
(***************************************************************************)
(* The control plane as a whole: Master, and what the cache servers do     *)
(* with its commands.  A server connects and announces itself, only then   *)
(* listens, and only then enters its event loop.  There one recv() returns *)
(* one or more commands; dealwithMasterMsg() executes the first, and after *)
(* UPDATE_HASH takes every further line for an address.  MOVE_DATA,        *)
(* RECOVER_BACKUP and UPDATE_BACKUP start detached threads.  CacheServer   *)
(* models what those threads do to the caches, here they only use the ring *)
(* and connect to one another.                                             *)
(***************************************************************************)
EXTENDS Master

(* No address reads like the name of a command. *)
ASSUME CommandsAssumption ==
    {"UPDATE_HASH", "MOVE_DATA", "RECOVER_BACKUP", "UPDATE_BACKUP"} \cap Servers = {}

VARIABLES
    listening,  \* the connections whose server has called listen()
    ring,       \* ring[c]: the addresses in *cacheServerHash
    threads,    \* threads[c]: the detached threads that have not run yet
    sentTo,     \* sentTo[c]: the servers c has sent its backup to
    faults      \* the kinds of fault that have happened

nodes == <<listening, ring, threads, sentTo, faults>>
cvars == <<vars, nodes>>

ClusterInit ==
    /\ Init
    /\ listening = {}
    /\ ring = [c \in Conns |-> {}]
    /\ threads = [c \in Conns |-> <<>>]
    /\ sentTo = [c \in Conns |-> {}]
    /\ faults = {}

NodesAtRest == \A c \in regime.observed :
    peer[c] = "alive" => c \in listening /\ threads[c] = <<>>

Running(c) == c \in regime.observed /\ peer[c] = "alive"

-----------------------------------------------------------------------------
(* A server that dies takes its ring, its threads and the backups it was   *)
(* sent with it.                                                           *)
NodeDie(c) ==
    /\ Die(c)
    /\ regime.oneAtATime => NodesAtRest
    /\ listening' = listening \ {c}
    /\ ring' = [ring EXCEPT ![c] = {}]
    /\ threads' = [threads EXCEPT ![c] = <<>>]
    /\ sentTo' = [d \in Conns |-> IF d = c THEN {} ELSE sentTo[d] \ {Host[c]}]
    /\ UNCHANGED faults

NodeConnect(c) ==
    /\ Connect(c)
    /\ regime.oneAtATime => NodesAtRest
    /\ UNCHANGED nodes

(* startListen(), called after connToMaster(). *)
startListen(c) ==
    /\ Running(c) /\ c \notin listening
    /\ listening' = listening \cup {c}
    /\ UNCHANGED <<vars, ring, threads, sentTo, faults>>

(* The lines after the first, up to the end of what was received.  The NUL *)
(* after a command becomes the first character of the next line, which as  *)
(* a C string is then empty.                                               *)
ip_ports(buf) ==
    buf[1].addrs \cup
    UNION {{IF buf[i - 1].nul THEN "" ELSE buf[i].cmd} \cup buf[i].addrs : i \in 2..Len(buf)}

(* MUTANT: the last command of those received is executed. *)
LastCommand(buf) == buf[Len(buf)]

FirstCommand(buf) == buf[1]

(* dealwithMasterMsg(): recv() returns the first n commands. *)
dealwithMasterMsg(c) ==
    /\ Running(c) /\ c \in listening
    /\ \E n \in 1..Len(inbox[c]) :
         LET buf == SubSeq(inbox[c], 1, n)
             m == FirstCommand(buf)
         IN  /\ inbox' = [inbox EXCEPT ![c] = SubSeq(@, n + 1, Len(@))]
             /\ ring' = [ring EXCEPT ![c] = IF m.cmd = "UPDATE_HASH" THEN ip_ports(buf) ELSE @]
             /\ threads' = [threads EXCEPT ![c] = IF m.cmd = "UPDATE_HASH" THEN @
                                                 ELSE Append(@, m)]
             /\ faults' = faults \cup IF n > 1 THEN {"dropped"} ELSE {}
    /\ UNCHANGED <<regime, peer, unread, fdOf, registry, masterHash, m_workqueue, pc, local,
                   told, reply, crashed, listening, sentTo>>

(* A detached thread: move() looks its keys up in the ring, update()       *)
(* connects to the backup server, once, and sends it the cache.            *)
RunThread(c) ==
    /\ Running(c)
    /\ \E i \in DOMAIN threads[c] :
         LET m == threads[c][i]
             up == \E d \in Conns : peer[d] = "alive" /\ d \in listening /\ Host[d] \in m.addrs
         IN  /\ threads' = [threads EXCEPT ![c] = RemoveAt(@, i)]
             /\ sentTo' = [sentTo EXCEPT ![c] = IF up THEN @ \cup m.addrs ELSE @]
             /\ faults' = faults \cup IF m.cmd = "UPDATE_BACKUP" /\ ~up THEN {"refused"} ELSE {}
    /\ UNCHANGED <<vars, listening, ring>>

ClusterNext ==
    \/ \E c \in Conns : NodeConnect(c) \/ NodeDie(c)
    \/ \E k \in Keys : Client(k) /\ UNCHANGED nodes
    \/ Loop /\ UNCHANGED nodes
    \/ \E w \in Workers : Register(w) /\ UNCHANGED nodes
    \/ \E w \in Workers, k \in Keys : GetDistribute(w, k) /\ UNCHANGED nodes
    \/ \E c \in Conns : startListen(c) \/ dealwithMasterMsg(c) \/ RunThread(c)

ClusterSpec == ClusterInit /\ [][ClusterNext]_cvars

-----------------------------------------------------------------------------
(* Properties                                                              *)

Settled == regime.oneAtATime /\ AtRest /\ NodesAtRest

(* Also when commands are received together and all but the first are      *)
(* lost, every server ends with a ring that has exactly the registered     *)
(* servers, and nothing besides but pieces of commands: UPDATE_HASH is the *)
(* first command of every change.                                          *)
RingsReceived ==
    Settled => \A c \in regime.observed : isExisted(c) =>
        /\ ring[c] \cap Servers = LiveHosts
        /\ "dropped" \notin faults => ring[c] = LiveHosts

(* A server that migrates its keys, or recovers those of a dead one, does  *)
(* it by the ring of the servers that are registered then, the newcomer    *)
(* included and the dead one not.                                          *)
MigratesByNewRing ==
    \A c \in regime.observed : \A i \in DOMAIN threads[c] :
        threads[c][i].cmd \in {"MOVE_DATA", "RECOVER_BACKUP"} =>
            ring[c] \cap Servers = LiveHosts

(* Unless a command was dropped or a connection refused, every server has  *)
(* sent its backup to its successor, in a list that servers have joined    *)
(* and left at any place.                                                  *)
BackupsSent ==
    Settled /\ faults = {} /\ Len(connectList.list) > 1 =>
        \A c \in regime.observed : isExisted(c) => Host[getNext(c)] \in sentTo[c]

-----------------------------------------------------------------------------
(* What documents say, and the code does not keep                          *)

(* README.md: servers keep their data on a backup server.  The master      *)
(* announces a server that does not listen yet, and update() connects      *)
(* once.                                                                   *)
NoBackupRefused == "refused" \notin faults
=============================================================================

----------------------------- MODULE EventLoop -----------------------------
(***************************************************************************)
(* The event loop of a cache server (cache_service.cpp): it starts, and    *)
(* then waits with a level-triggered epoll for commands of the master and  *)
(* for new connections.  epoll_wait() returns what is ready, in any order, *)
(* and a handler that returns -1 ends the round: what was ready behind it  *)
(* waits for the next one.                                                 *)
(*                                                                         *)
(* An accepted connection is not added to the epoll set and never closed,  *)
(* so dealwithClientMsg() is not reached and has no action here.           *)
(***************************************************************************)
EXTENDS Integers, SequencesExt

CONSTANTS
    MaxConnections, \* connections made in a behaviour (a bound of the model)
    MaxCommands,    \* commands sent by the master (a bound of the model)
    FdLimit,        \* descriptors left for accepted connections
    Backlog         \* listen(lfd, 5)

ASSUME EventLoopAssumption ==
    /\ {MaxConnections, MaxCommands, FdLimit} \subseteq Nat
    /\ Backlog \in Nat \ {0}

VARIABLES
    loop_pc,        \* "connect", "listen", "loop", or "aborted"
    epfd,           \* the descriptors in the epoll set
    evs,            \* the events of the round that are not handled yet
    master,         \* "alive" or "crashed"
    reset,          \* its end is a reset that no recv() has reported yet
    sent, inbox,    \* commands sent by the master, and those not received
    made, backlog,  \* connections made by clients, and those not accepted
    connectedMap    \* the number of accepted connections

loop_vars == <<loop_pc, epfd, evs, master, reset, sent, inbox, made, backlog, connectedMap>>
outside == <<master, sent, made>>

LoopInit ==
    /\ loop_pc = "connect" /\ epfd = {} /\ evs = <<>>
    /\ master = "alive" /\ reset = FALSE /\ sent = 0 /\ inbox = 0
    /\ made = 0 /\ backlog = 0 /\ connectedMap = 0

(* main(): connToMaster() and startListen(), whose result it asserts.      *)
connToMaster ==
    /\ loop_pc = "connect"
    /\ IF master = "alive"
         THEN loop_pc' = "listen" /\ epfd' = {"master_sockfd"}
         ELSE loop_pc' = "aborted" /\ epfd' = epfd
    /\ UNCHANGED <<outside, reset, evs, inbox, backlog, connectedMap>>

startListen ==
    /\ loop_pc = "listen"
    /\ \/ loop_pc' = "loop" /\ epfd' = epfd \cup {"lfd"}
       \/ loop_pc' = "aborted" /\ epfd' = epfd     \* the port is taken
    /\ UNCHANGED <<outside, reset, evs, inbox, backlog, connectedMap>>

-----------------------------------------------------------------------------
(* eventLoop().  epoll_wait() is given no time to wait, so no signal       *)
(* interrupts it, and its other errors are those of wrong arguments.       *)

ready == {fd \in epfd : \/ fd = "master_sockfd" /\ (inbox > 0 \/ master = "crashed")
                        \/ fd = "lfd" /\ backlog > 0}

epoll_wait ==
    /\ loop_pc = "loop" /\ evs = <<>> /\ ready # {}
    /\ evs' \in SetToSeqs(ready)
    /\ UNCHANGED <<outside, reset, loop_pc, epfd, inbox, backlog, connectedMap>>

Handling(fd) == evs # <<>> /\ evs[1] = fd
Continue == evs' = Tail(evs)
Break == evs' = <<>>

(* dealwithMasterMsg(): recv() returns commands, and after the last of     *)
(* them the end of the stream, or -1 once and then the end, if a reset     *)
(* ended it.  After a command the function has no return statement, so     *)
(* what its caller sees may be -1 or not.                                  *)
MasterMsg(eof, gone, done) ==
    /\ Handling("master_sockfd")
    /\ \/ /\ inbox > 0 /\ ~eof
          /\ inbox' \in 0..inbox - 1
          /\ epfd' = epfd \ done
          /\ Continue \/ Break
          /\ reset' = reset
       \/ /\ inbox = 0 \/ eof
          /\ epfd' = IF reset THEN epfd ELSE epfd \ gone
          /\ Break
          /\ reset' = FALSE /\ inbox' = inbox
    /\ UNCHANGED <<outside, loop_pc, backlog, connectedMap>>

(* MUTANT: the descriptor stays in the epoll set at the end of the stream. *)
NoEpollDelfd == MasterMsg(FALSE, {}, {})

(* MUTANT: a crash is acted on before what was sent earlier is read.       *)
EofFirst == MasterMsg(master = "crashed", {"master_sockfd"}, {})

(* MUTANT: the length is not looked at, every message ends the stream.     *)
LengthIgnored == MasterMsg(FALSE, {"master_sockfd"}, {"master_sockfd"})

dealwithMasterMsg == MasterMsg(FALSE, {"master_sockfd"}, {})

(* dealwithListenMsg(): accept() fails when no descriptor is left, and the *)
(* connection stays in the backlog.                                        *)
dealwithListenMsg ==
    /\ Handling("lfd")
    /\ IF connectedMap < FdLimit
         THEN connectedMap' = connectedMap + 1 /\ backlog' = backlog - 1 /\ Continue
         ELSE UNCHANGED <<connectedMap, backlog>> /\ Break
    /\ UNCHANGED <<outside, reset, loop_pc, epfd, inbox>>

-----------------------------------------------------------------------------
(* The others                                                              *)

MasterSends ==
    /\ master = "alive" /\ "master_sockfd" \in epfd /\ sent < MaxCommands
    /\ sent' = sent + 1 /\ inbox' = inbox + 1
    /\ UNCHANGED <<loop_pc, epfd, evs, master, reset, made, backlog, connectedMap>>

(* Its kernel answers with a reset if it had not read everything.          *)
MasterCrashes ==
    /\ master = "alive" /\ master' = "crashed" /\ reset' \in BOOLEAN
    /\ UNCHANGED <<loop_pc, epfd, evs, sent, inbox, made, backlog, connectedMap>>

ClientConnects ==
    /\ loop_pc = "loop" /\ made < MaxConnections /\ backlog < Backlog
    /\ made' = made + 1 /\ backlog' = backlog + 1
    /\ UNCHANGED <<loop_pc, epfd, evs, master, reset, sent, inbox, connectedMap>>

Server == connToMaster \/ startListen \/ epoll_wait \/ dealwithMasterMsg \/ dealwithListenMsg
LoopNext == Server \/ MasterSends \/ MasterCrashes \/ ClientConnects

(* The main thread keeps running; nothing is assumed of the others.        *)
LoopSpec == LoopInit /\ [][LoopNext]_loop_vars /\ WF_loop_vars(Server)

-----------------------------------------------------------------------------
(* Properties                                                              *)

(* Every variable has its type, and every event of the round is of a       *)
(* descriptor in the epoll set, so that each has its handler.              *)
LoopTypeOK ==
    /\ loop_pc \in {"connect", "listen", "loop", "aborted"}
    /\ epfd \subseteq {"master_sockfd", "lfd"} /\ evs \in Seq(epfd)
    /\ master \in {"alive", "crashed"} /\ reset \in BOOLEAN
    /\ sent \in 0..MaxCommands /\ inbox \in 0..sent
    /\ made = backlog + connectedMap /\ made \in 0..MaxConnections
    /\ backlog \in 0..Backlog /\ connectedMap \in 0..FdLimit

(* The server listens to the master until it has received everything the   *)
(* master sent before it crashed: dealwithMasterMsg() leaves the epoll set *)
(* at the end of the stream only.                                          *)
NothingUnread == loop_pc = "loop" /\ "master_sockfd" \notin epfd => inbox = 0

(* Every connection is accepted in the end while descriptors last, also    *)
(* after the master has crashed, although its handler then returns -1 and  *)
(* the round ends without the listening socket.                            *)
ConnectionsAccepted == backlog > 0 ~> (backlog = 0 \/ connectedMap = FdLimit)

(* Every command is received in the end while descriptors last.            *)
CommandsReceived == inbox > 0 ~> (inbox = 0 \/ connectedMap = FdLimit \/ loop_pc = "aborted")

-----------------------------------------------------------------------------
(* What a comment says, and the code does not keep                         *)

(* cache_service.cpp: the loop deals with the commands of the master.  With *)
(* no descriptor left accept() fails in every round; when the listening    *)
(* socket comes first, the master is never heard again.                    *)
MasterIsHeard == inbox > 0 ~> (inbox = 0 \/ loop_pc = "aborted")
=============================================================================

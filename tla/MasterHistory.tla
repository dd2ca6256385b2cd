--------------------------- MODULE MasterHistory ---------------------------
(* Master with the announcements that did not become requests, and what a  *)
(* cache server may count on: that it is told the ring, and forgotten when *)
(* it has died.                                                            *)
EXTENDS Master

VARIABLE dropped  \* the connections whose REGISTER found the queue full

history_vars == <<vars, dropped>>

HistoryInit == Init /\ dropped = {}

(* append() returns false, and dealwithCacheServer() only logs it.         *)
HistoryNext ==
    /\ Next
    /\ dropped' = dropped \cup {c \in unread \ unread' : Len(m_workqueue) >= MaxRequests}

(***************************************************************************)
(* The event loop polls without blocking and looks at every ready          *)
(* descriptor of a round, so requests of clients do not keep it from the   *)
(* cache servers.  Each of these gives it finitely much to do.  Worker     *)
(* threads are scheduled by the kernel.  Cache servers and clients owe     *)
(* nothing.                                                                *)
(***************************************************************************)
Fairness == WF_vars(Loop) /\ \A w \in Workers : WF_vars(Worker(w))

HistorySpec == HistoryInit /\ [][HistoryNext]_history_vars /\ Fairness

-----------------------------------------------------------------------------
(* Properties                                                              *)

(* accept() gave c the descriptor of a server that has left, whose entry   *)
(* connectedMap[fd] a later subscript has brought back as "": insert()     *)
(* does not overwrite it, and the master does not know c by its address.   *)
Misnamed(c) == fdOf[c] # Absent /\ connectedMap[fdOf[c]] # c

(* The code does nothing more for these: their request was dropped, or     *)
(* they register as somebody else.                                         *)
GivenUp(c) == c \in dropped \/ Misnamed(c)


(* A cache server that announces itself is sent a ring, although others    *)
(* register, die and are erased meanwhile.                                 *)
NewServerIsTold ==
    \A c \in Conns :
        c \in unread ~> \/ told[c].ring # NoRing \/ peer[c] # "alive"
                       \/ GivenUp(c) \/ crashed # "no"

-----------------------------------------------------------------------------
(* What a document says, and the code does not keep                        *)

(* README.md:11: the cluster is extended when a cache_server comes online. *)
(* A REGISTER that finds the queue full is dropped; the server is not told *)
(* and does not repeat it, and stays out of the list.                      *)
NewServerIsAdded ==
    \A c \in Conns : c \in unread ~> isExisted(c) \/ peer[c] # "alive" \/ crashed # "no"
=============================================================================

---------------------------- MODULE RequestPool ----------------------------
(***************************************************************************)
(* What the thread pool of MasterServer and of CacheServer promises to the *)
(* code that uses it: a request is accepted unless m_max_requests requests *)
(* are waiting, accepted requests are handed to idle worker threads in the *)
(* order of acceptance, each to exactly one worker, and each is eventually *)
(* executed.  There is no semaphore and no wake-up here: RequestQueue, the *)
(* translation of append() and run(), is shown to implement this module.   *)
(***************************************************************************)
EXTENDS Naturals, Sequences

CONSTANTS
    Workers,      \* the threads created by threadInit()
    Requests,     \* the requests that are offered to the pool, each once
    MaxRequests,  \* m_max_requests
    NoRequest     \* the job of an idle worker

VARIABLES
    pending,  \* accepted requests no worker has taken, oldest first
    job,      \* job[w]: the request worker w is executing, or NoRequest
    served,   \* requests whose execution has finished
    offered   \* requests that have been offered, accepted or not

poolVars == <<pending, job, served, offered>>

PoolInit ==
    /\ pending = <<>>
    /\ job = [w \in Workers |-> NoRequest]
    /\ served = {}
    /\ offered = {}

(* append() returns true. *)
Accept(r) ==
    /\ r \in Requests \ offered
    /\ Len(pending) < MaxRequests
    /\ pending' = Append(pending, r)
    /\ offered' = offered \cup {r}
    /\ UNCHANGED <<job, served>>

(* append() returns false: the request is gone. *)
Reject(r) ==
    /\ r \in Requests \ offered
    /\ Len(pending) >= MaxRequests
    /\ offered' = offered \cup {r}
    /\ UNCHANGED <<pending, job, served>>

(* An idle worker starts the oldest waiting request. *)
Start(w) ==
    /\ job[w] = NoRequest
    /\ pending # <<>>
    /\ job' = [job EXCEPT ![w] = Head(pending)]
    /\ pending' = Tail(pending)
    /\ UNCHANGED <<served, offered>>

Finish(w) ==
    /\ job[w] # NoRequest
    /\ served' = served \cup {job[w]}
    /\ job' = [job EXCEPT ![w] = NoRequest]
    /\ UNCHANGED <<pending, offered>>

PoolNext ==
    \/ \E r \in Requests : Accept(r) \/ Reject(r)
    \/ \E w \in Workers : Start(w) \/ Finish(w)

PoolSafety == PoolInit /\ [][PoolNext]_poolVars

(* Some idle worker starts a waiting request; every execution ends.        *)
PoolSpec ==
    /\ PoolSafety
    /\ WF_poolVars(\E w \in Workers : Start(w))
    /\ \A w \in Workers : WF_poolVars(Finish(w))
=============================================================================

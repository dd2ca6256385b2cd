---------------------------- MODULE RequestQueue ----------------------------
(***************************************************************************)
(* The request queue and the worker threads of MasterServer (the same code *)
(* is repeated in CacheServer): append(), called by the event loop, and    *)
(* run(), executed by m_thread_number detached threads.  The list is       *)
(* guarded by m_queuelocker; the semaphore m_queuestat counts the posts    *)
(* that no worker has consumed.                                            *)
(*                                                                         *)
(* A region between m_queuelocker.lock() and unlock() is one action.  The  *)
(* post() that append() makes AFTER the unlock is an action of its own, so *)
(* a worker may run between the push and the post.  The result of wait()   *)
(* is ignored by run(), so a sem_wait() that fails (EINTR) is a wake-up    *)
(* that consumes nothing: the reason why run() tests empty() again.        *)
(***************************************************************************)
EXTENDS Naturals, Sequences, FiniteSets

CONSTANTS
    Workers,      \* the threads created by threadInit()
    Requests,     \* the requests the event loop reads, each once
    MaxRequests,  \* m_max_requests
    NoRequest     \* the job of an idle worker

ASSUME QueueAssumption ==
    /\ IsFiniteSet(Workers)
    /\ MaxRequests \in Nat \ {0}
    /\ NoRequest \notin Requests

VARIABLES
    m_workqueue,  \* std::list<Request>
    m_queuestat,  \* value of the semaphore
    looper,       \* event loop: "poll", or "post" between push_back and post()
    pc,           \* pc[w]: "wait" (in wait()), "woken" (before lock()), "run"
    job,          \* job[w]: the request w has taken off the queue
    served,       \* requests whose handler has returned
    offered       \* requests append() has been called with

vars == <<m_workqueue, m_queuestat, looper, pc, job, served, offered>>

Init ==
    /\ m_workqueue = <<>>
    /\ m_queuestat = 0
    /\ looper = "poll"
    /\ pc = [w \in Workers |-> "wait"]
    /\ job = [w \in Workers |-> NoRequest]
    /\ served = {}
    /\ offered = {}

-----------------------------------------------------------------------------
(* The event loop                                                          *)

(* append(): the locked region. A full queue drops the request. *)
Push(r) ==
    /\ looper = "poll"
    /\ r \in Requests \ offered
    /\ offered' = offered \cup {r}
    /\ IF Len(m_workqueue) >= MaxRequests
         THEN UNCHANGED <<m_workqueue, looper>>
         ELSE /\ m_workqueue' = Append(m_workqueue, r)
              /\ looper' = "post"
    /\ UNCHANGED <<m_queuestat, pc, job, served>>

(* MUTANT: the post is only made when the queue was empty before the push. *)
PostWhenFirst ==
    /\ looper = "post"
    /\ m_queuestat' = IF Len(m_workqueue) = 1 THEN m_queuestat + 1 ELSE m_queuestat
    /\ looper' = "poll"
    /\ UNCHANGED <<m_workqueue, pc, job, served, offered>>

(* append(): m_queuestat.post(). *)
Post ==
    /\ looper = "post"
    /\ m_queuestat' = m_queuestat + 1
    /\ looper' = "poll"
    /\ UNCHANGED <<m_workqueue, pc, job, served, offered>>

-----------------------------------------------------------------------------
(* A worker                                                                *)

(* MUTANT: a counter that is decremented without waiting. *)
WaitUnguarded(w) ==
    /\ pc[w] = "wait"
    /\ m_queuestat' = m_queuestat - 1
    /\ pc' = [pc EXCEPT ![w] = "woken"]
    /\ UNCHANGED <<m_workqueue, looper, job, served, offered>>

(* m_queuestat.wait() succeeds. *)
Wait(w) ==
    /\ pc[w] = "wait"
    /\ m_queuestat > 0
    /\ m_queuestat' = m_queuestat - 1
    /\ pc' = [pc EXCEPT ![w] = "woken"]
    /\ UNCHANGED <<m_workqueue, looper, job, served, offered>>

(* sem_wait() fails with EINTR; wait() returns false and nobody looks. *)
Interrupted(w) ==
    /\ pc[w] = "wait"
    /\ pc' = [pc EXCEPT ![w] = "woken"]
    /\ UNCHANGED <<m_workqueue, m_queuestat, looper, job, served, offered>>

(* What the locked region of run() does to the worker and the queue, when  *)
(* the worker takes request r and leaves rest.                             *)
TakeReturning(w, r, rest) ==
    /\ pc[w] = "woken"
    /\ IF m_workqueue = <<>>
         THEN /\ pc' = [pc EXCEPT ![w] = "wait"]
              /\ UNCHANGED <<m_workqueue, job>>
         ELSE /\ pc' = [pc EXCEPT ![w] = "run"]
              /\ job' = [job EXCEPT ![w] = r]
              /\ m_workqueue' = rest
    /\ UNCHANGED <<m_queuestat, looper, served, offered>>

(* MUTANT: front() without pop_front(). *)
TakeNoPop(w) == TakeReturning(w, Head(m_workqueue), m_workqueue)

(* MUTANT: back() and pop_back(): the newest request first. *)
TakeNewest(w) ==
    TakeReturning(w, m_workqueue[Len(m_workqueue)],
                     SubSeq(m_workqueue, 1, Len(m_workqueue) - 1))

(* The locked region of run(): an empty queue sends the worker back. *)
Take(w) == TakeReturning(w, Head(m_workqueue), Tail(m_workqueue))

(* MUTANT: the thread leaves run() after its first request, as it would    *)
(* without the while loop.                                                 *)
RunOnce(w) ==
    /\ pc[w] = "run"
    /\ served' = served \cup {job[w]}
    /\ UNCHANGED <<m_workqueue, m_queuestat, looper, pc, job, offered>>

(* The handler the request was dispatched to returns. *)
Run(w) ==
    /\ pc[w] = "run"
    /\ served' = served \cup {job[w]}
    /\ job' = [job EXCEPT ![w] = NoRequest]
    /\ pc' = [pc EXCEPT ![w] = "wait"]
    /\ UNCHANGED <<m_workqueue, m_queuestat, looper, offered>>

Next ==
    \/ \E r \in Requests : Push(r)
    \/ Post
    \/ \E w \in Workers : Wait(w) \/ Interrupted(w) \/ Take(w) \/ Run(w)

Spec == Init /\ [][Next]_vars

(***************************************************************************)
(* The kernel schedules every thread: a thread that can take its next step *)
(* forever takes it.  Nothing obliges a client to send a request, and      *)
(* nothing interrupts sem_wait(), so Push and Interrupted are not fair.    *)
(***************************************************************************)
Fairness ==
    /\ WF_vars(Post)
    /\ \A w \in Workers : WF_vars(Wait(w)) /\ WF_vars(Take(w)) /\ WF_vars(Run(w))

FairSpec == Spec /\ Fairness

-----------------------------------------------------------------------------
(* Properties                                                              *)

Woken == {w \in Workers : pc[w] = "woken"}

TypeOK ==
    /\ m_workqueue \in Seq(Requests)
    /\ m_queuestat \in Nat
    /\ looper \in {"poll", "post"}
    /\ pc \in [Workers -> {"wait", "woken", "run"}]
    /\ job \in [Workers -> Requests \cup {NoRequest}]
    /\ served \subseteq Requests
    /\ offered \subseteq Requests

(* No lost wake-up: however the pushes, the late posts and failed waits    *)
(* interleave, every request in the queue is covered by a post the workers *)
(* have not consumed, by the post append() is about to make, or by a       *)
(* worker already on its way to the queue.                                 *)
NoStrandedRequest ==
    Len(m_workqueue) <=
        m_queuestat + (IF looper = "post" THEN 1 ELSE 0) + Cardinality(Woken)

(* Nothing is executed twice and nothing is taken by two workers: a        *)
(* request is at one place only, in one cell of the queue, in the hands of *)
(* one worker, or among the served ones.                                   *)
ExactlyOnce ==
    /\ served \subseteq offered
    /\ \A i \in 1..Len(m_workqueue) :
         /\ m_workqueue[i] \in offered \ served
         /\ \A j \in 1..Len(m_workqueue) : m_workqueue[i] = m_workqueue[j] => i = j
         /\ \A w \in Workers : job[w] # m_workqueue[i]
    /\ \A w \in Workers :
         /\ pc[w] = "run" <=> job[w] # NoRequest
         /\ pc[w] = "run" =>
              /\ job[w] \in offered \ served
              /\ \A v \in Workers : job[v] = job[w] => v = w

(* Every request append() accepts is executed in the end. *)
AcceptedIsServed ==
    \A r \in Requests :
        (\E i \in 1..Len(m_workqueue) : m_workqueue[i] = r) ~> r \in served

(* The semaphore, the wake-ups and the empty() test are invisible: the     *)
(* queue implements the pool that hands every accepted request to exactly  *)
(* one worker, in order, and executes it.                                  *)
Pool == INSTANCE RequestPool WITH pending <- m_workqueue
ImplementsPool == Pool!PoolSpec
=============================================================================

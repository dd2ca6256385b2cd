------------------------- MODULE RequestQueueProofs -------------------------
(***************************************************************************)
(* The safety of the request queue for every number of workers, every      *)
(* bound m_max_requests and every set of requests.                         *)
(*                                                                         *)
(* TypeOK is not inductive: served stays a set of requests only because a  *)
(* worker that executes holds a request, which is a part of ExactlyOnce.   *)
(* The two are inductive together.                                         *)
(***************************************************************************)
EXTENDS RequestQueue, FiniteSetTheorems, TLAPS

(* A worker that finds a request takes the oldest one off the queue. *)
LEMMA TakeShiftsQueue ==
  ASSUME NEW S, NEW q \in Seq(S), q # <<>>
  PROVE  /\ Head(q) = q[1] /\ Head(q) \in S
         /\ Tail(q) \in Seq(S)
         /\ Len(q) \in Nat \ {0}
         /\ Len(Tail(q)) = Len(q) - 1
         /\ \A i \in 1..Len(Tail(q)) : i + 1 \in 1..Len(q) /\ Tail(q)[i] = q[i + 1]
OBVIOUS

(* append() extends the queue by its argument and changes no other cell. *)
LEMMA AppendKeepsCells ==
  ASSUME NEW S, NEW q \in Seq(S), NEW r \in S
  PROVE  /\ Append(q, r) \in Seq(S)
         /\ Len(q) \in Nat
         /\ Len(Append(q, r)) = Len(q) + 1
         /\ \A i \in 1..Len(q) : Append(q, r)[i] = q[i]
         /\ Append(q, r)[Len(q) + 1] = r
OBVIOUS

Inv == TypeOK /\ ExactlyOnce

(* The two invariants hold in the initial state, in which nothing has been *)
(* offered.                                                                *)
LEMMA InitInv == Init => Inv
BY DEF Init, Inv, TypeOK, ExactlyOnce

(* Each step of append() and of run() preserves them. *)
LEMMA NextInv == Inv /\ [Next]_vars => Inv'
<1> SUFFICES ASSUME Inv, [Next]_vars PROVE Inv'
  OBVIOUS
<1> USE QueueAssumption DEF Inv, TypeOK
<1>1. ASSUME NEW r \in Requests, Push(r) PROVE Inv'
  <2>1. CASE Len(m_workqueue) >= MaxRequests
    BY <1>1, <2>1 DEF Push, ExactlyOnce
  <2>2. CASE ~(Len(m_workqueue) >= MaxRequests)
    <3>1. /\ m_workqueue' = Append(m_workqueue, r)
          /\ offered' = offered \cup {r}
          /\ looper' = "post"
          /\ UNCHANGED <<m_queuestat, pc, job, served>>
          /\ r \notin offered
      BY <1>1, <2>2 DEF Push
    <3>2. TypeOK'
      BY <3>1
    <3>3. \A i \in 1..Len(m_workqueue) : m_workqueue[i] \in offered
      BY DEF ExactlyOnce
    <3>4. \A w \in Workers : job[w] # r
      BY <3>1 DEF ExactlyOnce
    <3>5. r \notin served
      \* served requests have been offered: see ExactlyOnce
      BY <3>1 DEF ExactlyOnce
    <3> QED
      BY <3>1, <3>2, <3>3, <3>4, <3>5, AppendKeepsCells DEF ExactlyOnce
  <2> QED
    BY <2>1, <2>2
<1>2. CASE Post
  BY <1>2 DEF Post, ExactlyOnce
<1>3. ASSUME NEW w \in Workers, Wait(w) PROVE Inv'
  BY <1>3 DEF Wait, ExactlyOnce
<1>4. ASSUME NEW w \in Workers, Interrupted(w) PROVE Inv'
  BY <1>4 DEF Interrupted, ExactlyOnce
<1>5. ASSUME NEW w \in Workers, Take(w) PROVE Inv'
  <2>1. CASE m_workqueue = <<>>
    BY <1>5, <2>1 DEF Take, TakeReturning, ExactlyOnce
  <2>2. CASE m_workqueue # <<>>
    <3> DEFINE r == Head(m_workqueue)
    <3>1. /\ pc[w] = "woken"
          /\ pc' = [pc EXCEPT ![w] = "run"]
          /\ job' = [job EXCEPT ![w] = r]
          /\ m_workqueue' = Tail(m_workqueue)
          /\ UNCHANGED <<m_queuestat, looper, served, offered>>
      BY <1>5, <2>2 DEF Take, TakeReturning
    <3>2. /\ r = m_workqueue[1] /\ r \in Requests
          /\ Tail(m_workqueue) \in Seq(Requests)
          /\ Len(m_workqueue) \in Nat \ {0}
          /\ Len(Tail(m_workqueue)) = Len(m_workqueue) - 1
          /\ \A i \in 1..Len(Tail(m_workqueue)) :
               i + 1 \in 1..Len(m_workqueue) /\ Tail(m_workqueue)[i] = m_workqueue[i + 1]
      BY <2>2, TakeShiftsQueue
    <3>3. TypeOK'
      BY <3>1, <3>2
    <3>4. r \in offered \ served /\ \A v \in Workers : job[v] # r
      BY <3>2 DEF ExactlyOnce
    <3>5. \A i \in 1..Len(Tail(m_workqueue)) : Tail(m_workqueue)[i] # r
      BY <3>2 DEF ExactlyOnce
    <3> HIDE DEF r
    <3>6. \A i \in 1..Len(m_workqueue') :
            /\ m_workqueue'[i] \in offered' \ served'
            /\ \A j \in 1..Len(m_workqueue') : m_workqueue'[i] = m_workqueue'[j] => i = j
            /\ \A v \in Workers : job'[v] # m_workqueue'[i]
      BY <3>1, <3>2, <3>5 DEF ExactlyOnce
    <3>7. \A v \in Workers :
            /\ pc'[v] = "run" <=> job'[v] # NoRequest
            /\ pc'[v] = "run" =>
                 /\ job'[v] \in offered' \ served'
                 /\ \A u \in Workers : job'[u] = job'[v] => u = v
      BY <3>1, <3>2, <3>4 DEF ExactlyOnce
    <3> QED
      BY <3>1, <3>3, <3>6, <3>7 DEF ExactlyOnce
  <2> QED
    BY <2>1, <2>2
<1>6. ASSUME NEW w \in Workers, Run(w) PROVE Inv'
  <2>1. /\ pc[w] = "run" /\ job[w] \in Requests
        /\ served' = served \cup {job[w]}
        /\ job' = [job EXCEPT ![w] = NoRequest]
        /\ pc' = [pc EXCEPT ![w] = "wait"]
        /\ UNCHANGED <<m_workqueue, m_queuestat, looper, offered>>
    BY <1>6 DEF Run, ExactlyOnce
  <2>2. TypeOK'
    BY <2>1
  <2> QED
    BY <2>1, <2>2 DEF ExactlyOnce
<1>7. CASE UNCHANGED vars
  BY <1>7 DEF vars, ExactlyOnce
<1> QED
  BY <1>1, <1>2, <1>3, <1>4, <1>5, <1>6, <1>7 DEF Next

(* Every variable of append() and run() keeps its type; in particular the  *)
(* semaphore is never decremented below zero.                              *)
THEOREM TypeCorrect == Spec => []TypeOK
<1>1. Inv => TypeOK
  BY DEF Inv
<1> QED
  BY <1>1, InitInv, NextInv, PTL DEF Spec

(* append() and run() never duplicate a request and never hand one to two  *)
(* workers.                                                                *)
THEOREM OnceOnly == Spec => []ExactlyOnce
<1>1. Inv => ExactlyOnce
  BY DEF Inv
<1> QED
  BY <1>1, InitInv, NextInv, PTL DEF Spec

-----------------------------------------------------------------------------
(* Wake-ups                                                                *)

(* A worker that enters or leaves run()'s way to the queue changes the     *)
(* number of woken workers by one.                                         *)
LEMMA WokenCount ==
  ASSUME TypeOK, NEW w \in Workers
  PROVE  /\ Cardinality(Woken) \in Nat
         /\ pc[w] = "wait" /\ pc' = [pc EXCEPT ![w] = "woken"] =>
              Cardinality(Woken') = Cardinality(Woken) + 1
         /\ pc[w] = "woken" /\ (\E s \in {"wait", "run"} : pc' = [pc EXCEPT ![w] = s]) =>
              Cardinality(Woken') = Cardinality(Woken) - 1
<1> USE DEF TypeOK
<1>1. IsFiniteSet(Woken)
  BY QueueAssumption, FS_Subset, Woken \subseteq Workers DEF Woken
<1>2. Cardinality(Woken) \in Nat
  BY <1>1, FS_CardinalityType
<1>3. ASSUME pc[w] = "wait", pc' = [pc EXCEPT ![w] = "woken"]
      PROVE  Cardinality(Woken') = Cardinality(Woken) + 1
  <2>1. Woken' = Woken \cup {w} /\ w \notin Woken
    BY <1>3 DEF Woken
  <2> QED
    BY <1>1, <2>1, FS_AddElement
<1>4. ASSUME pc[w] = "woken", NEW s \in {"wait", "run"}, pc' = [pc EXCEPT ![w] = s]
      PROVE  Cardinality(Woken') = Cardinality(Woken) - 1
  <2>1. Woken' = Woken \ {w} /\ w \in Woken
    BY <1>4 DEF Woken
  <2> QED
    BY <1>1, <2>1, FS_RemoveElement
<1> QED
  BY <1>2, <1>3, <1>4

(* No interleaving of push_back(), the post() that follows it, failed      *)
(* waits and workers leaves a request in the queue without a wake-up.      *)
THEOREM NoLostWakeup == Spec => []NoStrandedRequest
<1>1. Init => NoStrandedRequest
  <2> SUFFICES ASSUME Init PROVE NoStrandedRequest
    OBVIOUS
  <2>1. Woken = {}
    BY DEF Init, Woken
  <2> QED
    BY <2>1, FS_EmptySet DEF Init, NoStrandedRequest
<1>2. TypeOK /\ NoStrandedRequest /\ [Next]_vars => NoStrandedRequest'
  <2> SUFFICES ASSUME TypeOK, NoStrandedRequest, [Next]_vars PROVE NoStrandedRequest'
    OBVIOUS
  <2> USE DEF NoStrandedRequest
  <2>0. Len(m_workqueue) \in Nat /\ m_queuestat \in Nat /\ Cardinality(Woken) \in Nat
    <3>1. Woken \subseteq Workers
      BY DEF Woken
    <3> QED
      BY <3>1, QueueAssumption, FS_Subset, FS_CardinalityType DEF TypeOK
  <2>1. ASSUME NEW r \in Requests, Push(r) PROVE NoStrandedRequest'
    <3>1. Woken' = Woken
      BY <2>1 DEF Push, Woken
    <3>2. Len(Append(m_workqueue, r)) = Len(m_workqueue) + 1
      BY DEF TypeOK
    <3> QED
      BY <2>0, <2>1, <3>1, <3>2 DEF Push
  <2>2. CASE Post
    <3>1. Woken' = Woken
      BY <2>2 DEF Post, Woken
    <3> QED
      BY <2>0, <2>2, <3>1 DEF Post
  <2>3. ASSUME NEW w \in Workers, Wait(w) PROVE NoStrandedRequest'
    <3>1. Cardinality(Woken') = Cardinality(Woken) + 1
      BY <2>3, WokenCount DEF Wait
    <3> QED
      BY <2>0, <2>3, <3>1 DEF Wait
  <2>4. ASSUME NEW w \in Workers, Interrupted(w) PROVE NoStrandedRequest'
    <3>1. Cardinality(Woken') = Cardinality(Woken) + 1
      BY <2>4, WokenCount DEF Interrupted
    <3> QED
      BY <2>0, <2>4, <3>1 DEF Interrupted
  <2>5. ASSUME NEW w \in Workers, Take(w) PROVE NoStrandedRequest'
    <3>1. Cardinality(Woken') = Cardinality(Woken) - 1
      BY <2>5, WokenCount DEF Take, TakeReturning
    <3>2. CASE m_workqueue = <<>>
      <4>1. Cardinality(Woken') \in Nat
        <5>1. Woken' \subseteq Workers
          BY DEF Woken
        <5> QED
          BY <5>1, QueueAssumption, FS_Subset, FS_CardinalityType
      <4> QED
        BY <2>0, <2>5, <3>2, <4>1 DEF Take, TakeReturning
    <3>3. CASE m_workqueue # <<>>
      <4>1. Len(m_workqueue') = Len(m_workqueue) - 1
        BY <2>5, <3>3, TakeShiftsQueue DEF Take, TakeReturning, TypeOK
      <4> QED
        BY <2>0, <2>5, <3>1, <4>1 DEF Take, TakeReturning
    <3> QED
      BY <3>2, <3>3
  <2>6. ASSUME NEW w \in Workers, Run(w) PROVE NoStrandedRequest'
    <3>1. Woken' = Woken
      BY <2>6 DEF Run, Woken, TypeOK
    <3> QED
      BY <2>0, <2>6, <3>1 DEF Run
  <2>7. CASE UNCHANGED vars
    <3>1. Woken' = Woken
      BY <2>7 DEF vars, Woken
    <3> QED
      BY <2>7, <3>1 DEF vars
  <2> QED
    BY <2>1, <2>2, <2>3, <2>4, <2>5, <2>6, <2>7 DEF Next
<1> QED
  BY <1>1, <1>2, TypeCorrect, PTL DEF Spec

-----------------------------------------------------------------------------
(* Refinement                                                              *)

(* The safety part of ImplementsPool: every step of append() and of run()  *)
(* is a step of the abstract pool or leaves it unchanged.                  *)
THEOREM QueueImplementsPool == Spec => Pool!PoolSafety
<1>1. Init => Pool!PoolInit
  BY DEF Init, Pool!PoolInit
<1>2. Inv /\ [Next]_vars => [Pool!PoolNext]_(Pool!poolVars)
  <2> SUFFICES ASSUME Inv, [Next]_vars PROVE [Pool!PoolNext]_(Pool!poolVars)
    OBVIOUS
  <2> USE DEF Inv, TypeOK, Pool!PoolNext, Pool!poolVars
  <2>1. ASSUME NEW r \in Requests, Push(r) PROVE Pool!Accept(r) \/ Pool!Reject(r)
    BY <2>1, QueueAssumption DEF Push, Pool!Accept, Pool!Reject
  <2>2. CASE Post
    BY <2>2 DEF Post
  <2>3. ASSUME NEW w \in Workers, Wait(w) \/ Interrupted(w) PROVE UNCHANGED Pool!poolVars
    BY <2>3 DEF Wait, Interrupted
  <2>4. ASSUME NEW w \in Workers, Take(w) PROVE Pool!Start(w) \/ UNCHANGED Pool!poolVars
    <3>1. job[w] = NoRequest
      BY <2>4 DEF Take, TakeReturning, ExactlyOnce
    <3> QED
      BY <2>4, <3>1 DEF Take, TakeReturning, Pool!Start
  <2>5. ASSUME NEW w \in Workers, Run(w) PROVE Pool!Finish(w)
    BY <2>5 DEF Run, Pool!Finish, ExactlyOnce
  <2>6. CASE UNCHANGED vars
    BY <2>6 DEF vars
  <2> QED
    BY <2>1, <2>2, <2>3, <2>4, <2>5, <2>6 DEF Next
<1>3. Spec => []Inv
  BY InitInv, NextInv, PTL DEF Spec
<1> QED
  BY <1>1, <1>2, <1>3, PTL DEF Spec, Pool!PoolSafety
=============================================================================

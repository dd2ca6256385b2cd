----------------------------- MODULE BlockQueue -----------------------------
(***************************************************************************)
(* block_queue<T> (log/block_queue.h): a circular array guarded by m_mutex *)
(* with a condition variable for the consumers.  A critical section is one *)
(* action; a consumer that waits gives up the mutex, is woken by a         *)
(* broadcast or spuriously, and competes for the mutex again.              *)
(***************************************************************************)
EXTENDS Integers, Sequences, FiniteSets

CONSTANTS Items, Consumers, MaxSize, Nothing

ASSUME BlockQueueAssumption == MaxSize \in Nat \ {0} /\ Nothing \notin Items

VARIABLES
    m_array, m_size,
    m_front,   \* the cell before the oldest item, -1 at first
    m_back,    \* the cell of the newest item, -1 at first
    pc,        \* "idle"; in pop(): "wait", "woken"; in the timed pop():
               \* "twait", "twoken"
    item       \* what the last successful pop() of each consumer returned

vars == <<m_array, m_size, m_front, m_back, pc, item>>

Cells == 0..MaxSize - 1

(* The constructor; new T[] leaves unspecified strings in the cells. *)
Init ==
    /\ m_array = [i \in Cells |-> Nothing]
    /\ m_size = 0 /\ m_front = -1 /\ m_back = -1
    /\ pc = [c \in Consumers |-> "idle"]
    /\ item = [c \in Consumers |-> Nothing]

broadcast ==
    pc' = [c \in Consumers |-> IF pc[c] = "wait" THEN "woken"
                               ELSE IF pc[c] = "twait" THEN "twoken" ELSE pc[c]]

(* MUTANT: the broadcast is missing after an insertion. *)
PushSilent(x) ==
    /\ m_size < MaxSize
    /\ m_back' = (m_back + 1) % MaxSize
    /\ m_array' = [m_array EXCEPT ![m_back'] = x]
    /\ m_size' = m_size + 1
    /\ UNCHANGED <<m_front, pc, item>>

(* MUTANT: the queue takes one item too many. *)
PushOneMore(x) ==
    /\ m_size <= MaxSize
    /\ m_back' = (m_back + 1) % MaxSize
    /\ m_array' = [m_array EXCEPT ![m_back'] = x]
    /\ m_size' = m_size + 1
    /\ broadcast
    /\ UNCHANGED <<m_front, item>>

(* MUTANT: the item is stored before m_back moves on. *)
PushEarly(x) ==
    /\ m_size < MaxSize
    /\ m_back' = (m_back + 1) % MaxSize
    /\ m_array' = [m_array EXCEPT ![IF m_back < 0 THEN 0 ELSE m_back] = x]
    /\ m_size' = m_size + 1
    /\ broadcast
    /\ UNCHANGED <<m_front, item>>

(* push() of an item; true is returned. *)
push(x) ==
    /\ m_size < MaxSize
    /\ m_back' = (m_back + 1) % MaxSize
    /\ m_array' = [m_array EXCEPT ![m_back'] = x]
    /\ m_size' = m_size + 1
    /\ broadcast
    /\ UNCHANGED <<m_front, item>>

(* push() to a full queue wakes the consumers and returns false. *)
PushFull ==
    /\ m_size >= MaxSize
    /\ broadcast
    /\ UNCHANGED <<m_array, m_size, m_front, m_back, item>>

(* The oldest item is taken out, by consumer c. *)
TakeItem(c) ==
    /\ m_front' = (m_front + 1) % MaxSize
    /\ item' = [item EXCEPT ![c] = m_array[m_front']]
    /\ m_size' = m_size - 1
    /\ pc' = [pc EXCEPT ![c] = "idle"]
    /\ UNCHANGED <<m_array, m_back>>

(* MUTANT: the wait is under if instead of while. *)
PopOnce(c) ==
    \/ pc[c] = "woken" /\ TakeItem(c)
    \/ /\ pc[c] = "idle"
       /\ IF m_size <= 0
            THEN /\ pc' = [pc EXCEPT ![c] = "wait"]
                 /\ UNCHANGED <<m_array, m_size, m_front, m_back, item>>
            ELSE TakeItem(c)

(* pop(): entered, or with the mutex back after a wait. *)
pop(c) ==
    /\ pc[c] \in {"idle", "woken"}
    /\ IF m_size <= 0
         THEN /\ pc' = [pc EXCEPT ![c] = "wait"]
              /\ UNCHANGED <<m_array, m_size, m_front, m_back, item>>
         ELSE TakeItem(c)

(* pop() with a timeout: entered. *)
PopTimed(c) ==
    /\ pc[c] = "idle"
    /\ IF m_size <= 0
         THEN /\ pc' = [pc EXCEPT ![c] = "twait"]
              /\ UNCHANGED <<m_array, m_size, m_front, m_back, item>>
         ELSE TakeItem(c)

(* It was woken: the size is tested once more, and false returned on an    *)
(* empty queue.                                                            *)
PopTimedWoken(c) ==
    /\ pc[c] = "twoken"
    /\ IF m_size <= 0
         THEN /\ pc' = [pc EXCEPT ![c] = "idle"]
              /\ UNCHANGED <<m_array, m_size, m_front, m_back, item>>
         ELSE TakeItem(c)

(* The timeout: false is returned, whatever the queue holds. *)
PopTimedOut(c) ==
    /\ pc[c] \in {"twait", "twoken"}
    /\ pc' = [pc EXCEPT ![c] = "idle"]
    /\ UNCHANGED <<m_array, m_size, m_front, m_back, item>>

(* pthread_cond_wait() may return without a broadcast. *)
Spurious(c) ==
    /\ pc[c] \in {"wait", "twait"}
    /\ pc' = [pc EXCEPT ![c] = IF @ = "wait" THEN "woken" ELSE "twoken"]
    /\ UNCHANGED <<m_array, m_size, m_front, m_back, item>>

clear ==
    /\ m_size' = 0 /\ m_front' = -1 /\ m_back' = -1
    /\ UNCHANGED <<m_array, pc, item>>

Next ==
    \/ \E x \in Items : push(x)
    \/ PushFull \/ clear
    \/ \E c \in Consumers :
         \/ pop(c) \/ PopTimed(c) \/ PopTimedWoken(c) \/ PopTimedOut(c) \/ Spurious(c)

Spec == Init /\ [][Next]_vars

-----------------------------------------------------------------------------
(* Properties                                                              *)

TypeOK ==
    /\ m_array \in [Cells -> Items \cup {Nothing}]
    /\ m_size \in 0..MaxSize
    /\ m_front \in Cells \cup {-1} /\ m_back \in Cells \cup {-1}
    /\ pc \in [Consumers -> {"idle", "wait", "woken", "twait", "twoken"}]
    /\ item \in [Consumers -> Items \cup {Nothing}]

(* The three indices agree after any number of turns around the array and  *)
(* any clear(): m_back is m_size cells after m_front, both start at -1     *)
(* together, and the cells in between hold items.                          *)
IndicesAgree ==
    /\ m_back = -1 => m_front = -1 /\ m_size = 0
    /\ m_back # -1 => m_back = (m_front + m_size) % MaxSize
    /\ \A i \in 1..m_size : m_array[(m_front + i) % MaxSize] \in Items

(* No consumer sleeps on a queue that holds an item: push() wakes all      *)
(* waiters under the mutex, and pop() tests the size under it before it    *)
(* waits.                                                                  *)
NoSleepingConsumer ==
    m_size > 0 => \A c \in Consumers : pc[c] \notin {"wait", "twait"}

(* The array with its indices is a first-in first-out buffer.              *)
contents == [i \in 1..m_size |-> m_array[(m_front + i) % MaxSize]]
Buffer == INSTANCE BoundedBuffer WITH buffer <- contents
ImplementsBuffer == Buffer!BufferSpec

-----------------------------------------------------------------------------
(* What front() returns; the value of m_array[-1] is undefined. *)
front == IF m_front \in Cells THEN m_array[m_front] ELSE Nothing

(* block_queue.h:76, "returns the first element of the queue". *)
FrontIsOldest ==
    m_size > 0 => front = m_array[(m_front + 1) % MaxSize]
=============================================================================

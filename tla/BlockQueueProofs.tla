------------------------- MODULE BlockQueueProofs -------------------------
(***************************************************************************)
(* The safety of block_queue for every size of the array, all items and    *)
(* any number of consumers.  TypeOK is not inductive, because an item that *)
(* pop() returns is one of Items only if the cells in use hold items: it   *)
(* is proved together with IndicesAgree.                                   *)
(***************************************************************************)
EXTENDS BlockQueue, SequenceTheorems, TLAPS

(* Position i after index f, at most one turn away, in plain numbers. *)
LEMMA Turn ==
  ASSUME NEW n \in Nat \ {0}, NEW f \in -1..n - 1, NEW i \in 0..n
  PROVE  (f + i) % n = IF f + i < 0 THEN n - 1
                       ELSE IF f + i < n THEN f + i ELSE f + i - n
OBVIOUS

(* One step further on is the next position, from either end. *)
LEMMA NextPosition ==
  ASSUME NEW n \in Nat \ {0}, NEW f \in -1..n - 1, NEW i \in 0..n - 1
  PROVE  /\ (((f + i) % n) + 1) % n = (f + (i + 1)) % n
         /\ (((f + 1) % n) + i) % n = (f + (i + 1)) % n
<1>1. i \in 0..n /\ i + 1 \in 0..n /\ 1 \in 0..n
  OBVIOUS
<1>2. (f + (i + 1)) % n = IF f + (i + 1) < 0 THEN n - 1
                          ELSE IF f + (i + 1) < n THEN f + (i + 1) ELSE f + (i + 1) - n
  BY <1>1, Turn
<1>3. (((f + i) % n) + 1) % n = (f + (i + 1)) % n
  <2>1. ASSUME NEW g \in -1..n - 1, g = (f + i) % n
        PROVE  (g + 1) % n = (f + (i + 1)) % n
    <3>1. g = IF f + i < 0 THEN n - 1 ELSE IF f + i < n THEN f + i ELSE f + i - n
      BY <1>1, <2>1, Turn
    <3>2. (g + 1) % n = IF g + 1 < 0 THEN n - 1
                        ELSE IF g + 1 < n THEN g + 1 ELSE g + 1 - n
      BY <1>1, Turn
    <3> QED
      BY <1>2, <3>1, <3>2
  <2>2. (f + i) % n \in -1..n - 1
    BY <1>1, Turn
  <2> QED
    BY <2>1, <2>2
<1>4. (((f + 1) % n) + i) % n = (f + (i + 1)) % n
  <2>1. ASSUME NEW g \in -1..n - 1, g = (f + 1) % n
        PROVE  (g + i) % n = (f + (i + 1)) % n
    <3>1. g = IF f + 1 < 0 THEN n - 1 ELSE IF f + 1 < n THEN f + 1 ELSE f + 1 - n
      BY <1>1, <2>1, Turn
    <3>2. (g + i) % n = IF g + i < 0 THEN n - 1
                        ELSE IF g + i < n THEN g + i ELSE g + i - n
      BY <1>1, Turn
    <3> QED
      BY <1>2, <3>1, <3>2
  <2>2. (f + 1) % n \in -1..n - 1
    BY <1>1, Turn
  <2> QED
    BY <2>1, <2>2
<1> QED
  BY <1>3, <1>4

Inv == TypeOK /\ IndicesAgree

LEMMA InitInv == Init => Inv
BY BlockQueueAssumption DEF Init, Inv, TypeOK, IndicesAgree, Cells

(* An insertion fills the cell after the newest item ... *)
LEMMA PushCell ==
  ASSUME Inv, NEW x \in Items, push(x)
  PROVE  /\ m_back' = (m_front + (m_size + 1)) % MaxSize
         /\ m_back' \in 0..MaxSize - 1
         /\ \A i \in 1..m_size : /\ (m_front + i) % MaxSize \in 0..MaxSize - 1
                                 /\ (m_front + i) % MaxSize # m_back'
<1> USE BlockQueueAssumption DEF Inv, TypeOK, IndicesAgree, Cells
<1>1. /\ MaxSize \in Nat \ {0} /\ m_front \in -1..MaxSize - 1
      /\ m_back \in -1..MaxSize - 1 /\ m_size \in 0..MaxSize - 1
  BY DEF push
<1>2. m_back' = (m_front + (m_size + 1)) % MaxSize
  <2>1. m_back' = (m_back + 1) % MaxSize
    BY DEF push
  <2>2. CASE m_back = -1
    BY <1>1, <2>1, <2>2
  <2>3. CASE m_back # -1
    <3>1. m_back = (m_front + m_size) % MaxSize
      BY <2>3
    <3>2. (((m_front + m_size) % MaxSize) + 1) % MaxSize = (m_front + (m_size + 1)) % MaxSize
      BY <1>1, NextPosition
    <3> QED
      BY <2>1, <3>1, <3>2
  <2> QED
    BY <2>2, <2>3
<1>3. m_back' \in 0..MaxSize - 1
  BY <1>1, <1>2, Turn
<1>4. ASSUME NEW i \in 1..m_size
      PROVE  /\ (m_front + i) % MaxSize \in 0..MaxSize - 1
             /\ (m_front + i) % MaxSize # m_back'
  <2>1. i \in 0..MaxSize /\ m_size + 1 \in 0..MaxSize
    BY <1>1
  <2>2. (m_front + i) % MaxSize = IF m_front + i < 0 THEN MaxSize - 1
            ELSE IF m_front + i < MaxSize THEN m_front + i ELSE m_front + i - MaxSize
    BY <1>1, <2>1, Turn
  <2>3. m_back' = IF m_front + (m_size + 1) < 0 THEN MaxSize - 1
            ELSE IF m_front + (m_size + 1) < MaxSize THEN m_front + (m_size + 1)
                 ELSE m_front + (m_size + 1) - MaxSize
    BY <1>1, <1>2, <2>1, Turn
  <2> QED
    BY <1>1, <2>1, <2>2, <2>3
<1> QED
  BY <1>2, <1>3, <1>4

(* ... and no other one. *)
LEMMA PushInv ==
  ASSUME Inv, NEW x \in Items, push(x)
  PROVE  Inv'
<1> USE BlockQueueAssumption DEF Inv, TypeOK, IndicesAgree, Cells
<1>1. /\ MaxSize \in Nat \ {0} /\ m_front \in -1..MaxSize - 1
      /\ m_back \in -1..MaxSize - 1 /\ m_size \in 0..MaxSize - 1
  BY DEF push
<1>2. /\ m_front' = m_front /\ m_size' = m_size + 1
      /\ m_array' = [m_array EXCEPT ![m_back'] = x]
  BY DEF push
<1>3. TypeOK'
  BY <1>1, <1>2, PushCell DEF push, broadcast
<1>4. IndicesAgree'
  <2>1. ASSUME NEW i \in 1..m_size'
        PROVE  m_array'[(m_front' + i) % MaxSize] \in Items
    <3>1. CASE i = m_size + 1
      BY <1>1, <1>2, <3>1, PushCell
    <3>2. CASE i # m_size + 1
      <4>1. i \in 1..m_size
        BY <1>1, <1>2, <3>2
      <4> QED
        BY <1>2, <4>1, PushCell
    <3> QED
      BY <3>1, <3>2
  <2> QED
    BY <1>1, <1>2, <2>1, PushCell
<1> QED
  BY <1>3, <1>4

(* Taking the oldest item moves m_front on and shifts the positions ... *)
LEMMA TakeItemShifts ==
  ASSUME Inv, NEW c \in Consumers, m_size > 0, TakeItem(c)
  PROVE  /\ m_front' = (m_front + 1) % MaxSize
         /\ m_front' \in 0..MaxSize - 1
         /\ \A i \in 0..m_size' :
              (m_front' + i) % MaxSize = (m_front + (i + 1)) % MaxSize
<1> USE BlockQueueAssumption DEF Inv, TypeOK, IndicesAgree, Cells
<1>1. /\ MaxSize \in Nat \ {0} /\ m_front \in -1..MaxSize - 1
      /\ m_back \in 0..MaxSize - 1 /\ m_size \in 1..MaxSize
      /\ 1 \in 0..MaxSize
  OBVIOUS
<1>2. /\ m_front' = (m_front + 1) % MaxSize
      /\ m_size' = m_size - 1 /\ m_array' = m_array /\ m_back' = m_back
  BY DEF TakeItem
<1>3. m_front' \in 0..MaxSize - 1
  BY <1>1, <1>2, Turn
<1>4. ASSUME NEW i \in 0..m_size'
      PROVE  (m_front' + i) % MaxSize = (m_front + (i + 1)) % MaxSize
  <2>1. i \in 0..MaxSize - 1
    BY <1>1, <1>2
  <2>2. (((m_front + 1) % MaxSize) + i) % MaxSize = (m_front + (i + 1)) % MaxSize
    BY <1>1, <2>1, NextPosition
  <2> QED
    BY <1>2, <2>2
<1> QED
  BY <1>2, <1>3, <1>4

(* ... of the items that stay. *)
LEMMA TakeItemInv ==
  ASSUME Inv, NEW c \in Consumers, m_size > 0, TakeItem(c)
  PROVE  Inv'
<1> USE BlockQueueAssumption DEF Inv, TypeOK, IndicesAgree, Cells
<1>1. /\ MaxSize \in Nat \ {0} /\ m_front \in -1..MaxSize - 1
      /\ m_back \in 0..MaxSize - 1 /\ m_size \in 1..MaxSize
  OBVIOUS
<1>2. m_size' = m_size - 1 /\ m_array' = m_array /\ m_back' = m_back
  BY DEF TakeItem
<1>3. m_array[m_front'] \in Items
  BY <1>1, TakeItemShifts
<1>4. TypeOK'
  BY <1>1, <1>2, <1>3, TakeItemShifts DEF TakeItem
<1>5. IndicesAgree'
  <2>1. m_back' = (m_front' + m_size') % MaxSize
    <3>1. m_size' \in 0..m_size' /\ m_size' + 1 = m_size
      BY <1>1, <1>2
    <3>2. (m_front' + m_size') % MaxSize = (m_front + m_size) % MaxSize
      BY <3>1, TakeItemShifts
    <3>3. m_back = (m_front + m_size) % MaxSize
      BY <1>1
    <3> QED
      BY <1>2, <3>2, <3>3
  <2>2. ASSUME NEW i \in 1..m_size'
        PROVE  m_array'[(m_front' + i) % MaxSize] \in Items
    <3>1. i + 1 \in 1..m_size /\ i \in 0..m_size'
      BY <1>1, <1>2
    <3> QED
      BY <1>2, <3>1, TakeItemShifts
  <2> QED
    BY <1>1, <1>2, <2>1, <2>2
<1> QED
  BY <1>4, <1>5

(* Steps that leave the array and the indices alone. *)
LEMMA WaitInv ==
  ASSUME Inv, UNCHANGED <<m_array, m_size, m_front, m_back, item>>,
         pc' \in [Consumers -> {"idle", "wait", "woken", "twait", "twoken"}]
  PROVE  Inv'
BY DEF Inv, TypeOK, IndicesAgree

LEMMA NextInv == Inv /\ [Next]_vars => Inv'
<1> SUFFICES ASSUME Inv, [Next]_vars PROVE Inv'
  OBVIOUS
<1>1. ASSUME NEW x \in Items, push(x) PROVE Inv'
  BY <1>1, PushInv
<1>2. CASE PushFull
  BY <1>2, WaitInv DEF PushFull, broadcast, Inv, TypeOK
<1>3. CASE clear
  BY <1>3, BlockQueueAssumption DEF clear, Inv, TypeOK, IndicesAgree
<1>4. ASSUME NEW c \in Consumers, pop(c) PROVE Inv'
  <2>1. CASE m_size <= 0
    BY <1>4, <2>1, WaitInv DEF pop, Inv, TypeOK
  <2>2. CASE ~(m_size <= 0)
    BY <1>4, <2>2, TakeItemInv DEF pop, Inv, TypeOK
  <2> QED
    BY <2>1, <2>2
<1>5. ASSUME NEW c \in Consumers, PopTimed(c) PROVE Inv'
  <2>1. CASE m_size <= 0
    BY <1>5, <2>1, WaitInv DEF PopTimed, Inv, TypeOK
  <2>2. CASE ~(m_size <= 0)
    BY <1>5, <2>2, TakeItemInv DEF PopTimed, Inv, TypeOK
  <2> QED
    BY <2>1, <2>2
<1>6. ASSUME NEW c \in Consumers, PopTimedWoken(c) PROVE Inv'
  <2>1. CASE m_size <= 0
    BY <1>6, <2>1, WaitInv DEF PopTimedWoken, Inv, TypeOK
  <2>2. CASE ~(m_size <= 0)
    BY <1>6, <2>2, TakeItemInv DEF PopTimedWoken, Inv, TypeOK
  <2> QED
    BY <2>1, <2>2
<1>7. ASSUME NEW c \in Consumers, PopTimedOut(c) PROVE Inv'
  BY <1>7, WaitInv DEF PopTimedOut, Inv, TypeOK
<1>8. ASSUME NEW c \in Consumers, Spurious(c) PROVE Inv'
  BY <1>8, WaitInv DEF Spurious, Inv, TypeOK
<1>9. CASE UNCHANGED vars
  BY <1>9, WaitInv DEF vars, Inv, TypeOK
<1> QED
  BY <1>1, <1>2, <1>3, <1>4, <1>5, <1>6, <1>7, <1>8, <1>9 DEF Next

(* The variables of block_queue are well typed in every reachable state:   *)
(* m_size never exceeds m_max_size and both indices stay in the array.     *)
THEOREM QueueTypeCorrect == Spec => []TypeOK
<1>1. Inv => TypeOK
  BY DEF Inv
<1> QED
  BY <1>1, InitInv, NextInv, PTL DEF Spec

(* m_front, m_back and m_size agree after any number of push(), pop() and  *)
(* clear() calls, for every capacity.                                      *)
THEOREM IndicesAlwaysAgree == Spec => []IndicesAgree
<1>1. Inv => IndicesAgree
  BY DEF Inv
<1> QED
  BY <1>1, InitInv, NextInv, PTL DEF Spec

(* push() and pop() keep every consumer awake, or wake it, while the queue *)
(* holds an item, whatever the number of consumers.                        *)
THEOREM NoConsumerSleepsOnItem == Spec => []NoSleepingConsumer
<1>1. Init => NoSleepingConsumer
  BY DEF Init, NoSleepingConsumer
<1>2. Inv /\ NoSleepingConsumer /\ [Next]_vars => NoSleepingConsumer'
  <2> SUFFICES ASSUME Inv, NoSleepingConsumer, [Next]_vars PROVE NoSleepingConsumer'
    OBVIOUS
  <2> USE DEF Inv, TypeOK, NoSleepingConsumer
  <2>1. ASSUME NEW x \in Items, push(x) PROVE NoSleepingConsumer'
    BY <2>1 DEF push, broadcast
  <2>2. CASE PushFull
    BY <2>2 DEF PushFull, broadcast
  <2>3. CASE clear
    BY <2>3 DEF clear
  <2>4. ASSUME NEW c \in Consumers, pop(c) \/ PopTimed(c) \/ PopTimedWoken(c)
        PROVE  NoSleepingConsumer'
    BY <2>4 DEF pop, PopTimed, PopTimedWoken, TakeItem
  <2>5. ASSUME NEW c \in Consumers, PopTimedOut(c) \/ Spurious(c)
        PROVE  NoSleepingConsumer'
    BY <2>5 DEF PopTimedOut, Spurious
  <2>6. CASE UNCHANGED vars
    BY <2>6 DEF vars
  <2> QED
    BY <2>1, <2>2, <2>3, <2>4, <2>5, <2>6 DEF Next
<1> QED
  BY <1>1, <1>2, InitInv, NextInv, PTL DEF Spec

-----------------------------------------------------------------------------
(* The refinement.  The cells in use, read from the oldest, are a sequence *)
(* of items ...                                                            *)
ContentsOK ==
  /\ contents \in Seq(Items)
  /\ Len(contents) = m_size
  /\ \A i \in 1..m_size : contents[i] = m_array[(m_front + i) % MaxSize]

LEMMA SameLength ==
  ASSUME NEW a \in Nat, NEW b \in Nat, 1..a = 1..b
  PROVE  a = b
<1>1. a \in 1..a <=> a \in 1..b
  OBVIOUS
<1>2. b \in 1..a <=> b \in 1..b
  OBVIOUS
<1>3. a >= 1 <=> a >= 1 /\ a <= b
  BY <1>1
<1>4. b >= 1 <=> b >= 1 /\ b <= a
  BY <1>2
<1> QED
  BY <1>3, <1>4

LEMMA ContentsSeq == Inv => ContentsOK
<1> SUFFICES ASSUME Inv PROVE ContentsOK
  OBVIOUS
<1>1. m_size \in Nat
  BY BlockQueueAssumption DEF Inv, TypeOK
<1>2. contents \in [1..m_size -> Items]
  BY DEF Inv, IndicesAgree, contents
<1>3. contents \in Seq(Items)
  BY <1>1, <1>2, SeqDef
<1>4. Len(contents) = m_size
  <2>1. Len(contents) \in Nat /\ DOMAIN contents = 1..Len(contents)
    BY <1>3, LenProperties
  <2>2. DOMAIN contents = 1..m_size
    BY DEF contents
  <2> QED
    BY <1>1, <2>1, <2>2, SameLength
<1> QED
  BY <1>3, <1>4 DEF contents, ContentsOK

(* ... that push() extends at its end ... *)
LEMMA PushAppends ==
  ASSUME Inv, NEW x \in Items, push(x)
  PROVE  contents' = Append(contents, x)
<1>1. /\ contents \in Seq(Items) /\ Len(contents) = m_size
      /\ \A i \in 1..m_size : contents[i] = m_array[(m_front + i) % MaxSize]
  BY ContentsSeq DEF ContentsOK
<1>2. /\ contents' \in Seq(Items) /\ Len(contents') = m_size'
      /\ \A i \in 1..m_size' : contents'[i] = m_array'[(m_front' + i) % MaxSize]
  <2>1. Inv'
    BY PushInv
  <2>2. ContentsOK'
    BY <2>1, ContentsSeq, PTL
  <2> QED
    BY <2>2 DEF ContentsOK
<1>3. /\ Append(contents, x) \in Seq(Items)
      /\ Len(Append(contents, x)) = m_size + 1
      /\ \A i \in 1..m_size : Append(contents, x)[i] = contents[i]
      /\ Append(contents, x)[m_size + 1] = x
  BY <1>1, AppendProperties
<1>4. /\ m_size \in Nat /\ m_size' = m_size + 1 /\ m_front' = m_front
      /\ m_array' = [m_array EXCEPT ![m_back'] = x]
      /\ DOMAIN m_array = 0..MaxSize - 1
  BY BlockQueueAssumption DEF push, Inv, TypeOK, Cells
<1>5. ASSUME NEW i \in 1..m_size' PROVE contents'[i] = Append(contents, x)[i]
  <2>1. CASE i = m_size + 1
    BY <1>2, <1>3, <1>4, <2>1, PushCell
  <2>2. CASE i # m_size + 1
    <3>1. i \in 1..m_size
      BY <1>4, <2>2
    <3>2. m_array'[(m_front + i) % MaxSize] = m_array[(m_front + i) % MaxSize]
      BY <1>4, <3>1, PushCell
    <3> QED
      BY <1>1, <1>2, <1>3, <1>4, <3>1, <3>2
  <2> QED
    BY <2>1, <2>2
<1> QED
  BY <1>2, <1>3, <1>4, <1>5, SeqEqual

(* ... and pop() shortens at its head. *)
LEMMA TakeItemTakesHead ==
  ASSUME Inv, NEW c \in Consumers, m_size > 0, TakeItem(c)
  PROVE  Buffer!Take(c)
<1>1. /\ contents \in Seq(Items) /\ Len(contents) = m_size
      /\ \A i \in 1..m_size : contents[i] = m_array[(m_front + i) % MaxSize]
  BY ContentsSeq DEF ContentsOK
<1>2. /\ contents' \in Seq(Items) /\ Len(contents') = m_size'
      /\ \A i \in 1..m_size' : contents'[i] = m_array'[(m_front' + i) % MaxSize]
  <2>1. Inv'
    BY TakeItemInv
  <2>2. ContentsOK'
    BY <2>1, ContentsSeq, PTL
  <2> QED
    BY <2>2 DEF ContentsOK
<1>3. /\ m_size \in Nat /\ m_size' = m_size - 1 /\ m_array' = m_array
      /\ item' = [item EXCEPT ![c] = m_array[m_front']]
  BY BlockQueueAssumption DEF TakeItem, Inv, TypeOK
<1>4. contents # <<>>
  BY <1>1, EmptySeq
<1>5. /\ Tail(contents) \in Seq(Items) /\ Len(Tail(contents)) = m_size - 1
      /\ \A i \in 1..m_size - 1 : Tail(contents)[i] = contents[i + 1]
  BY <1>1, <1>4, HeadTailProperties
<1>6. Head(contents) = m_array[m_front']
  <2>1. Head(contents) = contents[1]
    BY <1>1, <1>4
  <2> QED
    BY <1>1, <1>3, <2>1, TakeItemShifts
<1>7. ASSUME NEW i \in 1..m_size' PROVE contents'[i] = Tail(contents)[i]
  <2>1. i \in 1..m_size - 1 /\ i + 1 \in 1..m_size /\ i \in 0..m_size'
    BY <1>3
  <2>2. (m_front' + i) % MaxSize = (m_front + (i + 1)) % MaxSize
    BY <2>1, TakeItemShifts
  <2>3. contents'[i] = m_array[(m_front + (i + 1)) % MaxSize]
    BY <1>2, <1>3, <2>2
  <2> QED
    BY <1>1, <1>5, <2>1, <2>3
<1>8. contents' = Tail(contents)
  BY <1>2, <1>3, <1>5, <1>7, SeqEqual
<1> QED
  BY <1>3, <1>4, <1>6, <1>8 DEF Buffer!Take

(* The circular array is a first-in first-out buffer of MaxSize items:     *)
(* push(), pop() and clear() map to the buffer's actions, waiting and      *)
(* waking to stutters.                                                     *)
THEOREM QueueImplementsBuffer == Spec => ImplementsBuffer
<1>1. Init => Buffer!BufferInit
  <2> SUFFICES ASSUME Init PROVE Buffer!BufferInit
    OBVIOUS
  <2>1. contents = <<>>
    <3>1. m_size = 0 /\ Inv
      BY InitInv DEF Init
    <3> QED
      BY <3>1, ContentsSeq, EmptySeq DEF ContentsOK
  <2> QED
    BY <2>1 DEF Init, Buffer!BufferInit
<1>2. Inv /\ [Next]_vars => [Buffer!BufferNext]_(Buffer!bufferVars)
  <2> SUFFICES ASSUME Inv, [Next]_vars PROVE [Buffer!BufferNext]_(Buffer!bufferVars)
    OBVIOUS
  <2> USE DEF Buffer!BufferNext, Buffer!bufferVars
  <2>1. ASSUME UNCHANGED <<m_array, m_size, m_front, item>>
        PROVE  UNCHANGED Buffer!bufferVars
    BY <2>1 DEF contents
  <2>2. ASSUME NEW x \in Items, push(x) PROVE Buffer!Put(x)
    BY <2>2, PushAppends, ContentsSeq DEF ContentsOK, Buffer!Put, push
  <2>3. CASE PushFull
    BY <2>1, <2>3 DEF PushFull
  <2>4. CASE clear
    <3>1. Inv' /\ m_size' = 0
      BY <2>4, NextInv DEF clear, Next
    <3>2. ContentsOK'
      BY <3>1, ContentsSeq, PTL
    <3>3. contents' = <<>>
      BY <3>1, <3>2, EmptySeq DEF ContentsOK
    <3> QED
      BY <2>4, <3>3 DEF clear, Buffer!Clear
  <2>5. ASSUME NEW c \in Consumers, pop(c) \/ PopTimed(c) \/ PopTimedWoken(c)
        PROVE  Buffer!Take(c) \/ UNCHANGED Buffer!bufferVars
    <3>1. CASE m_size <= 0
      BY <2>1, <2>5, <3>1 DEF pop, PopTimed, PopTimedWoken
    <3>2. CASE ~(m_size <= 0)
      <4>1. m_size > 0
        BY <3>2 DEF Inv, TypeOK
      <4> QED
        BY <2>5, <3>2, <4>1, TakeItemTakesHead DEF pop, PopTimed, PopTimedWoken
    <3> QED
      BY <3>1, <3>2
  <2>6. ASSUME NEW c \in Consumers, PopTimedOut(c) \/ Spurious(c)
        PROVE  UNCHANGED Buffer!bufferVars
    BY <2>1, <2>6 DEF PopTimedOut, Spurious
  <2>7. CASE UNCHANGED vars
    BY <2>1, <2>7 DEF vars
  <2> QED
    BY <2>2, <2>3, <2>4, <2>5, <2>6, <2>7, <2>1 DEF Next
<1>3. Spec => []Inv
  BY InitInv, NextInv, PTL DEF Spec
<1> QED
  BY <1>1, <1>2, <1>3, PTL DEF Spec, ImplementsBuffer, Buffer!BufferSpec
=============================================================================

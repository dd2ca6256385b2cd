---------------------------- MODULE BoundedBuffer ----------------------------
(***************************************************************************)
(* What block_queue<T> promises: a first-in first-out buffer of at most    *)
(* MaxSize items.  A push to a full buffer is refused, a pop takes the     *)
(* oldest item, clear() empties it.  There is no array, no index and no    *)
(* condition variable here: BlockQueue is shown to implement this module.  *)
(***************************************************************************)
EXTENDS Naturals, Sequences

CONSTANTS Items, Consumers,
          MaxSize,   \* m_max_size
          Nothing    \* no item has been popped

VARIABLES
    buffer,   \* the items, oldest first
    item      \* item[c]: what the last successful pop() of c returned

bufferVars == <<buffer, item>>

BufferInit ==
    /\ buffer = <<>>
    /\ item = [c \in Consumers |-> Nothing]

Put(x) ==
    /\ Len(buffer) < MaxSize
    /\ buffer' = Append(buffer, x)
    /\ UNCHANGED item

Take(c) ==
    /\ buffer # <<>>
    /\ item' = [item EXCEPT ![c] = Head(buffer)]
    /\ buffer' = Tail(buffer)

Clear == buffer' = <<>> /\ UNCHANGED item

BufferNext ==
    \/ \E x \in Items : Put(x)
    \/ \E c \in Consumers : Take(c)
    \/ Clear

BufferSpec == BufferInit /\ [][BufferNext]_bufferVars
=============================================================================

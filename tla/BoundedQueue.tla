---------------------------- MODULE BoundedQueue ----------------------------
(***************************************************************************)
(* What the byte FIFO of src/common/fifo.c promises: a first-in first-out  *)
(* queue that holds at most Capacity bytes, one producer appends to it and *)
(* one consumer removes from it.                                           *)
(***************************************************************************)
EXTENDS Naturals, Sequences

CONSTANTS Byte,      \* the bytes that can be stored
          Capacity   \* the most bytes the queue can hold

VARIABLE queue

Init == queue = <<>>

Put(b) == /\ Len(queue) < Capacity
          /\ queue' = Append(queue, b)

Get == /\ queue # <<>>
       /\ queue' = Tail(queue)

Next == (\E b \in Byte : Put(b)) \/ Get

Spec == Init /\ [][Next]_queue
=============================================================================

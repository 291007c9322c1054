-------------------------------- MODULE Fifo --------------------------------
(***************************************************************************)
(* The ring buffer of src/common/fifo.c in the use its closing comment     *)
(* describes: an interrupt routine writes one byte at a time (fifo_write   *)
(* runs to completion) and may preempt the main program between any two    *)
(* memory accesses of fifo_read.                                           *)
(*                                                                         *)
(* accepted and taken are history: the bytes fifo_write stored, and how    *)
(* many bytes fifo_read has handed to its caller.                          *)
(***************************************************************************)
EXTENDS Naturals, Sequences

CONSTANTS Byte,       \* byte values
          Size,       \* f->size, a uint16_t
          Blank,      \* the content of a cell before it is written
          MaxAccepted \* bound of the model: bytes accepted in a behaviour

ASSUME FifoAssumption == /\ Size \in Nat /\ 1 < Size /\ Size < 65536
                         /\ MaxAccepted \in Nat
                         /\ Blank \notin Byte

VARIABLES head,     \* f->head, the cell the next byte is written to
          tail,     \* f->tail, the cell the next byte is read from
          buf,      \* f->buf
          pc,       \* where fifo_read is
          p,        \* the byte fifo_read copied in this iteration
          accepted, \* history: the bytes accepted so far
          taken     \* history: the number of bytes read so far

vars == <<head, tail, buf, pc, p, accepted, taken>>

\* fifo_init; the buffer's content is whatever the caller's array holds
Init == /\ head = 0
        /\ tail = 0
        /\ buf = [i \in 0 .. Size - 1 |-> Blank]
        /\ pc = "test"
        /\ p = Blank
        /\ accepted = <<>>
        /\ taken = 0

\* mutant: the case of a head in the last cell is forgotten
NoRoomUnwrapped == head + 1 = tail

\* the test of fifo_write for a buffer without room
NoRoom == \/ head + 1 = tail
          \/ head + 1 = Size /\ tail = 0

\* the check for wrap-around after an increment
Wrap(i) == IF i = Size THEN 0 ELSE i

\* fifo_write of one byte from the interrupt routine
Write(b) == /\ ~NoRoom
            /\ Len(accepted) < MaxAccepted
            /\ buf' = [buf EXCEPT ![head] = b]
            /\ head' = Wrap(head + 1)
            /\ accepted' = Append(accepted, b)
            /\ UNCHANGED <<tail, pc, p, taken>>

\* fifo_read: there is a byte (otherwise the call returns what it has)
ReadTest == /\ pc = "test"
            /\ tail # head
            /\ pc' = "copy"
            /\ UNCHANGED <<head, tail, buf, p, accepted, taken>>

ReadCopy == /\ pc = "copy"
            /\ p' = buf[tail]
            /\ pc' = "advance"
            /\ UNCHANGED <<head, tail, buf, accepted, taken>>

ReadAdvance == /\ pc = "advance"
               /\ tail' = tail + 1
               /\ taken' = taken + 1
               /\ pc' = "wrap"
               /\ UNCHANGED <<head, buf, p, accepted>>

ReadWrap == /\ pc = "wrap"
            /\ tail' = Wrap(tail)
            /\ pc' = "test"
            /\ UNCHANGED <<head, buf, p, accepted, taken>>

Read == ReadTest \/ ReadCopy \/ ReadAdvance \/ ReadWrap

Next == (\E b \in Byte : Write(b)) \/ Read

Spec == Init /\ [][Next]_vars
-----------------------------------------------------------------------------
\* The number of bytes stored and the cell of the i-th of them, in the
\* numbering that starts at the tail.
Stored == LET t == Wrap(tail)
          IN  IF t <= head THEN head - t ELSE Size - t + head
Cell(i) == LET t == Wrap(tail)
           IN  IF t + i < Size THEN t + i ELSE t + i - Size

Contents == [i \in 1 .. Stored |-> buf[Cell(i - 1)]]

\* The types; head always names a cell of the buffer, so no byte is written
\* outside it.
TypeOK == /\ head \in 0 .. Size - 1
          /\ tail \in 0 .. Size
          /\ buf \in [0 .. Size - 1 -> Byte \cup {Blank}]
          /\ pc \in {"test", "copy", "advance", "wrap"}
          /\ p \in Byte \cup {Blank}
          /\ accepted \in Seq(Byte)
          /\ taken \in Nat

\* The byte fifo_read has just copied is the oldest accepted byte it has not
\* handed out yet, however the writer preempted it: no byte is lost,
\* duplicated, reordered or read from a cell that was not written.
ReadsInOrder ==
  pc \in {"advance", "wrap"} =>
    LET n == IF pc = "advance" THEN taken + 1 ELSE taken
    IN  n \in 1 .. Len(accepted) /\ p = accepted[n]

\* The cells between tail and head hold exactly the accepted bytes that have
\* not been read, oldest first, at every point where the writer can preempt
\* the reader (the transient tail = size included).
HoldsUnread ==
  /\ Stored = Len(accepted) - taken
  /\ \A i \in 0 .. Stored - 1 : buf[Cell(i)] = accepted[taken + 1 + i]

\* Where fifo_read can be with which tail: past the test there is a byte to
\* read, and only between the increment and the wrap may tail be size.
ReaderPlace == /\ pc \in {"copy", "advance"} => tail # head
               /\ tail = Size => pc = "wrap"

\* The inductive invariant: neither ReadsInOrder nor HoldsUnread is inductive
\* without the other and without the reader's place.
IInv == TypeOK /\ ReaderPlace /\ HoldsUnread /\ ReadsInOrder

\* The implementation is a queue of one byte less than its buffer.
Abstract == INSTANCE BoundedQueue WITH queue <- Contents, Capacity <- Size - 1
ImplementsQueue == Abstract!Spec
=============================================================================

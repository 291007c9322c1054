----------------------------- MODULE FifoProofs -----------------------------
(***************************************************************************)
(* The FIFO hands out the accepted bytes in order, for every buffer size   *)
(* and every set of byte values.                                           *)
(***************************************************************************)
EXTENDS Fifo, TLAPS

USE FifoAssumption

\* fifo_init establishes the invariant.
LEMMA InitIInv == Init => IInv
  BY DEF Init, IInv, TypeOK, ReaderPlace, HoldsUnread, ReadsInOrder, Stored, Wrap, Cell

\* A write by the interrupt routine, wherever it preempts fifo_read, stores
\* the byte behind the unread ones and overwrites none of them.
LEMMA WriteIInv == ASSUME IInv, NEW b \in Byte, Write(b) PROVE IInv'
<1>1. TypeOK /\ ReaderPlace /\ HoldsUnread /\ ReadsInOrder
  BY DEF IInv
<1>2. TypeOK'
  BY <1>1, Write(b) DEF TypeOK, Write, Wrap
<1>3. ReaderPlace'
  BY <1>1, Write(b) DEF TypeOK, ReaderPlace, Write, Wrap, NoRoom
<1>4. Len(accepted') = Len(accepted) + 1 /\ accepted'[Len(accepted) + 1] = b
      /\ \A i \in 1 .. Len(accepted) : accepted'[i] = accepted[i]
  BY <1>1, Write(b) DEF TypeOK, Write
<1>5. Stored \in Nat /\ Stored < Size - 1
  BY <1>1, Write(b) DEF TypeOK, Write, Stored, Wrap, NoRoom, ReaderPlace
<1>6. Stored' = Stored + 1 /\ Cell(Stored) = head
  BY <1>1, Write(b) DEF TypeOK, Write, Stored, Wrap, NoRoom, ReaderPlace, Cell
<1>7. \A i \in 0 .. Stored - 1 : Cell(i) \in 0 .. Size - 1 /\ Cell(i) # head /\ Cell(i)' = Cell(i)
  BY <1>1, <1>5, Write(b) DEF TypeOK, Write, Stored, Wrap, NoRoom, ReaderPlace, Cell
<1>8. HoldsUnread'
  <2>1. Stored' = Len(accepted') - taken'
    BY <1>1, <1>4, <1>6, Write(b) DEF HoldsUnread, Write, TypeOK
  <2>2. ASSUME NEW i \in 0 .. Stored' - 1
        PROVE  buf'[Cell(i)'] = accepted'[taken' + 1 + i]
    <3>1. CASE i = Stored
      <4>1. Cell(i)' = head
        BY <3>1, <1>6, Write(b) DEF Write, Cell
      <4>2. taken' + 1 + i = Len(accepted) + 1
        BY <3>1, <1>1, Write(b) DEF Write, HoldsUnread, TypeOK
      <4> QED BY <4>1, <4>2, <1>1, <1>4, Write(b) DEF Write, TypeOK
    <3>2. CASE i \in 0 .. Stored - 1
      <4>1. buf'[Cell(i)'] = buf[Cell(i)]
        BY <3>2, <1>7, <1>1, Write(b) DEF Write, TypeOK
      <4>2. taken + 1 + i \in 1 .. Len(accepted)
        BY <3>2, <1>1, <1>5 DEF HoldsUnread, TypeOK
      <4> QED BY <3>2, <4>1, <4>2, <1>1, <1>4, Write(b) DEF Write, HoldsUnread
    <3> QED BY <3>1, <3>2, <1>5, <1>6
  <2> QED BY <2>1, <2>2 DEF HoldsUnread
<1>9. ReadsInOrder'
  BY <1>1, <1>4, Write(b) DEF ReadsInOrder, Write, TypeOK
<1> QED BY <1>2, <1>3, <1>8, <1>9 DEF IInv

\* Each step of fifo_read preserves the invariant: the copied byte is the
\* oldest unread one, and the increment and the wrap drop exactly that byte.
LEMMA ReadIInv == ASSUME IInv, Read PROVE IInv'
<1>1. TypeOK /\ ReaderPlace /\ HoldsUnread /\ ReadsInOrder
  BY DEF IInv
<1>2. CASE ReadTest
  BY <1>1, <1>2 DEF IInv, ReadTest, TypeOK, ReaderPlace, HoldsUnread, ReadsInOrder,
                    Stored, Cell, Wrap
<1>3. CASE ReadCopy
  <2>1. Stored \in Nat \ {0} /\ Cell(0) = tail
    BY <1>1, <1>3 DEF ReadCopy, TypeOK, ReaderPlace, Stored, Cell, Wrap
  <2>2. buf[tail] = accepted[taken + 1] /\ taken + 1 \in 1 .. Len(accepted)
    BY <2>1, <1>1 DEF HoldsUnread, TypeOK
  <2>3. TypeOK' /\ ReaderPlace'
    BY <1>1, <1>3 DEF ReadCopy, TypeOK, ReaderPlace
  <2>4. HoldsUnread'
    BY <1>1, <1>3 DEF ReadCopy, HoldsUnread, Stored, Cell, Wrap
  <2>5. ReadsInOrder'
    BY <2>2, <1>3 DEF ReadCopy, ReadsInOrder
  <2> QED BY <2>3, <2>4, <2>5 DEF IInv
<1>4. CASE ReadAdvance
  <2>1. TypeOK' /\ ReaderPlace'
    BY <1>1, <1>4 DEF ReadAdvance, TypeOK, ReaderPlace
  <2>2. Stored \in Nat \ {0} /\ Stored' = Stored - 1
    BY <1>1, <1>4 DEF ReadAdvance, TypeOK, ReaderPlace, Stored, Wrap
  <2>3. \A i \in 0 .. Stored' - 1 : Cell(i)' = Cell(i + 1)
    BY <1>1, <1>4, <2>2 DEF ReadAdvance, TypeOK, ReaderPlace, Stored, Cell, Wrap
  <2>4. HoldsUnread'
    <3>1. Stored' = Len(accepted') - taken'
      BY <1>1, <1>4, <2>2 DEF ReadAdvance, HoldsUnread, TypeOK
    <3>2. ASSUME NEW i \in 0 .. Stored' - 1
          PROVE  buf'[Cell(i)'] = accepted'[taken' + 1 + i]
      <4>1. buf[Cell(i + 1)] = accepted[taken + 1 + (i + 1)]
        BY <1>1, <2>2 DEF HoldsUnread
      <4>2. taken' + 1 + i = taken + 1 + (i + 1)
        BY <1>1, <1>4 DEF ReadAdvance, TypeOK
      <4> QED BY <4>1, <4>2, <2>3, <1>4 DEF ReadAdvance
    <3> QED BY <3>1, <3>2 DEF HoldsUnread
  <2>5. ReadsInOrder'
    BY <1>1, <1>4 DEF ReadAdvance, ReadsInOrder
  <2> QED BY <2>1, <2>4, <2>5 DEF IInv
<1>5. CASE ReadWrap
  <2>1. TypeOK' /\ ReaderPlace'
    BY <1>1, <1>5 DEF ReadWrap, TypeOK, ReaderPlace, Wrap
  <2>2. Wrap(tail)' = Wrap(tail)
    BY <1>1, <1>5 DEF ReadWrap, TypeOK, Wrap
  <2>3. HoldsUnread'
    BY <2>2, <1>1, <1>5 DEF ReadWrap, HoldsUnread, Stored, Cell
  <2>4. ReadsInOrder'
    BY <1>1, <1>5 DEF ReadWrap, ReadsInOrder
  <2> QED BY <2>1, <2>3, <2>4 DEF IInv
<1> QED BY <1>2, <1>3, <1>4, <1>5 DEF Read

\* The invariant holds throughout every behaviour.
THEOREM FifoInvariant == Spec => []IInv
<1>1. Init => IInv
  BY InitIInv
<1>2. IInv /\ [Next]_vars => IInv'
  <2>1. ASSUME IInv, UNCHANGED vars PROVE IInv'
    BY <2>1 DEF IInv, vars, TypeOK, ReaderPlace, HoldsUnread, ReadsInOrder, Stored, Cell, Wrap
  <2> QED BY <2>1, WriteIInv, ReadIInv DEF Next
<1> QED BY <1>1, <1>2, PTL DEF Spec

\* head and tail stay in the buffer, but for the tail that fifo_read is about
\* to wrap.
THEOREM FifoTypes == Spec => []TypeOK
<1>1. IInv => TypeOK
  BY DEF IInv
<1> QED BY FifoInvariant, <1>1, PTL

\* Between any two memory accesses of fifo_read the cells from tail to head
\* hold exactly the accepted bytes that have not been read.
THEOREM FifoHoldsUnread == Spec => []HoldsUnread
<1>1. IInv => HoldsUnread
  BY DEF IInv
<1> QED BY FifoInvariant, <1>1, PTL

\* fifo_read hands out the accepted bytes in order, for every size of the
\* buffer and however fifo_write preempts it.
THEOREM FifoReadsInOrder == Spec => []ReadsInOrder
<1>1. IInv => ReadsInOrder
  BY DEF IInv
<1> QED BY FifoInvariant, <1>1, PTL

\* The queue that the buffer stands for is the sequence of accepted bytes that
\* have not been read.
Unread == /\ Stored \in Nat /\ Stored <= Size - 1
          /\ Contents \in Seq(Byte) /\ Len(Contents) = Stored
          /\ \A i \in 1 .. Stored : Contents[i] = accepted[taken + i]

\* The invariant says so of the cells, fifo_read being anywhere.
LEMMA ContentsUnread == IInv => Unread
<1> SUFFICES ASSUME IInv PROVE Unread
  OBVIOUS
<1>1. TypeOK /\ HoldsUnread
  BY DEF IInv
<1>2. Stored \in Nat /\ Stored <= Size - 1
  BY <1>1 DEF TypeOK, Stored, Wrap
<1>3. ASSUME NEW i \in 1 .. Stored
      PROVE  Contents[i] = accepted[taken + i] /\ Contents[i] \in Byte
  <2>1. i - 1 \in 0 .. Stored - 1 /\ taken + 1 + (i - 1) = taken + i
    BY <1>1, <1>2 DEF TypeOK
  <2>2. buf[Cell(i - 1)] = accepted[taken + i]
    BY <1>1, <2>1 DEF HoldsUnread
  <2>3. taken + i \in 1 .. Len(accepted)
    BY <1>1, <1>2 DEF TypeOK, HoldsUnread
  <2>4. accepted[taken + i] \in Byte
    BY <1>1, <2>3 DEF TypeOK
  <2> QED BY <2>2, <2>4 DEF Contents
<1>4. Contents \in [1 .. Stored -> Byte]
  BY <1>3 DEF Contents
<1>5. Contents \in Seq(Byte) /\ Len(Contents) = Stored
  BY <1>2, <1>4
<1> QED BY <1>2, <1>3, <1>5 DEF Unread

\* fifo_write appends to the queue, and there is room for the byte.
LEMMA WritePuts == ASSUME IInv, NEW b \in Byte, Write(b) PROVE Abstract!Put(b)
<1>1. IInv'
  BY WriteIInv
<1>2. TypeOK /\ TypeOK' /\ ReaderPlace /\ HoldsUnread
  BY <1>1 DEF IInv
<1>3. Stored' = Stored + 1 /\ Stored < Size - 1
  BY <1>2, Write(b) DEF TypeOK, Write, Stored, Wrap, NoRoom, ReaderPlace
<1>4. /\ Contents' \in Seq(Byte) /\ Len(Contents') = Stored + 1
      /\ \A i \in 1 .. Stored + 1 : Contents'[i] = accepted'[taken + i]
  <2>1. taken' = taken
    BY DEF Write
  <2>2. IInv' => Unread'
    BY ContentsUnread, PTL
  <2> QED BY <1>1, <1>3, <2>1, <2>2 DEF Unread
<1>5. /\ Stored \in Nat /\ Contents \in Seq(Byte) /\ Len(Contents) = Stored
      /\ \A i \in 1 .. Stored : Contents[i] = accepted[taken + i]
  BY ContentsUnread DEF Unread
<1>6. taken + Stored = Len(accepted) /\ taken \in Nat /\ accepted \in Seq(Byte)
  BY <1>2, <1>5 DEF HoldsUnread, TypeOK
<1>7. /\ accepted'[taken + (Stored + 1)] = b
      /\ \A i \in 1 .. Stored : accepted'[taken + i] = accepted[taken + i]
  BY <1>5, <1>6, SMTT(30) DEF Write
<1>8. Contents' = Append(Contents, b)
  <2>1. \A i \in 1 .. Stored + 1 : Contents'[i] = Append(Contents, b)[i]
    BY <1>4, <1>5, <1>7
  <2>2. Append(Contents, b) \in Seq(Byte) /\ Len(Append(Contents, b)) = Stored + 1
    BY <1>5
  <2> QED BY <2>1, <2>2, <1>4, <1>5
<1> QED BY <1>3, <1>5, <1>8 DEF Abstract!Put

\* The increment of tail takes the oldest byte off the queue.
LEMMA AdvanceGets == ASSUME IInv, ReadAdvance PROVE Abstract!Get
<1>1. IInv'
  BY ReadIInv DEF Read
<1>2. TypeOK /\ ReaderPlace
  BY DEF IInv
<1>3. Stored' = Stored - 1 /\ Stored # 0
  BY <1>2 DEF ReadAdvance, TypeOK, ReaderPlace, Stored, Wrap
<1>4. taken' = taken + 1 /\ accepted' = accepted /\ taken \in Nat
  BY <1>2 DEF ReadAdvance, TypeOK
<1>5. /\ Stored \in Nat /\ Contents \in Seq(Byte) /\ Len(Contents) = Stored
      /\ \A i \in 1 .. Stored : Contents[i] = accepted[taken + i]
  BY ContentsUnread DEF Unread
<1>6. /\ Contents' \in Seq(Byte) /\ Len(Contents') = Stored - 1
      /\ \A i \in 1 .. Stored - 1 : Contents'[i] = accepted[taken + 1 + i]
  <2>1. IInv' => Unread'
    BY ContentsUnread, PTL
  <2> QED BY <1>1, <1>3, <1>4, <2>1 DEF Unread
<1>7. Contents # <<>>
  BY <1>3, <1>5
<1>8. Contents' = Tail(Contents)
  <2>1. ASSUME NEW k, k = Stored, NEW n, n = taken, NEW a, a = accepted,
               NEW s, s = Contents, NEW t, t = Contents'
        PROVE  t = Tail(s)
    <3>1. n \in Nat /\ k \in Nat /\ k # 0
      BY <1>3, <1>4, <1>5, <2>1
    <3>2. s \in Seq(Byte) /\ Len(s) = k /\ \A i \in 1 .. k : s[i] = a[n + i]
      BY <1>5, <2>1
    <3>3. t \in Seq(Byte) /\ Len(t) = k - 1 /\ \A i \in 1 .. k - 1 : t[i] = a[n + 1 + i]
      BY <1>6, <2>1
    <3>4. Tail(s) \in Seq(Byte) /\ Len(Tail(s)) = k - 1
      BY <3>1, <3>2
    <3>5. ASSUME NEW i \in 1 .. k - 1 PROVE t[i] = Tail(s)[i]
      <4>1. Tail(s)[i] = s[i + 1]
        BY <3>1, <3>2
      <4>2. i + 1 \in 1 .. k /\ n + (i + 1) = n + 1 + i
        BY <3>1
      <4>3. s[i + 1] = a[n + (i + 1)]
        BY <3>2, <4>2
      <4>4. t[i] = a[n + 1 + i]
        BY <3>3
      <4> QED BY <3>1, <3>2, <3>3, <4>1, <4>2, <4>3, <4>4
    <3>6. Len(t) = Len(Tail(s)) /\ \A i \in 1 .. Len(t) : t[i] = Tail(s)[i]
      BY <3>3, <3>4, <3>5
    <3> QED BY <3>3, <3>4, <3>6
  <2> QED BY <2>1
<1> QED BY <1>7, <1>8 DEF Abstract!Get

\* No other memory access of fifo_read changes the queue, the wrap of tail
\* included.
LEMMA OthersStutter ==
  ASSUME IInv, ReadTest \/ ReadCopy \/ ReadWrap \/ UNCHANGED vars PROVE Contents' = Contents
<1>1. buf' = buf /\ head' = head
  BY DEF ReadTest, ReadCopy, ReadWrap, vars
<1>2. Wrap(tail)' = Wrap(tail)
  <2>1. CASE ReadWrap
    BY <2>1 DEF IInv, TypeOK, ReadWrap, Wrap
  <2>2. CASE ReadTest \/ ReadCopy \/ UNCHANGED vars
    BY <2>2 DEF ReadTest, ReadCopy, vars, Wrap
  <2> QED BY <2>1, <2>2
<1> QED BY <1>1, <1>2 DEF Contents, Stored, Cell

\* fifo.c implements a queue of one byte less than its buffer: whatever the
\* preemption, the buffer behaves as if every byte were put and got in one step.
THEOREM FifoIsQueue == Spec => ImplementsQueue
<1>1. Init => Abstract!Init
  <2>1. ASSUME Init PROVE Contents = <<>>
    <3>1. Stored = 0
      BY <2>1 DEF Init, Stored, Wrap
    <3> QED BY <3>1 DEF Contents
  <2> QED BY <2>1 DEF Abstract!Init
<1>2. IInv /\ [Next]_vars => [Abstract!Next]_Contents
  <2> SUFFICES ASSUME IInv, [Next]_vars PROVE [Abstract!Next]_Contents
    OBVIOUS
  <2>1. CASE \E b \in Byte : Write(b)
    BY <2>1, WritePuts DEF Abstract!Next
  <2>2. CASE ReadAdvance
    BY <2>2, AdvanceGets DEF Abstract!Next
  <2>3. CASE ReadTest \/ ReadCopy \/ ReadWrap \/ UNCHANGED vars
    BY <2>3, OthersStutter
  <2> QED BY <2>1, <2>2, <2>3 DEF Next, Read
<1> QED BY <1>1, <1>2, FifoInvariant, PTL DEF Spec, ImplementsQueue, Abstract!Spec
=============================================================================

----------------------------- MODULE EventFrame -----------------------------
(***************************************************************************)
(* Event frames (vscphelper.cpp) and their check sum (crc.c), byte for     *)
(* byte: what vscp_writeEventToFrame writes and vscp_getEventFromFrame     *)
(* reads.  An event has the fields of CanalEvent, a moment, and its time   *)
(* in nanoseconds; the frame version in its head tells which one holds.    *)
(***************************************************************************)
EXTENDS CanalEvent, Calendar, TLC

CONSTANT Now   \* what the clock says, in nanoseconds

HeaderLength == 35   \* VSCP_BINARY_PACKET_FRAME0_HEADER_LENGTH
NoCrc == 8           \* VSCP_HEADER_NO_CRC
DummyCrc == 43605    \* VSCP_NOCRC_CALC_DUMMY_CRC
NoFrame == <<>>

\* crcTable: the remainders of the 256 bytes for the CCITT polynomial.
CrcTable ==
  [d \in Byte |->
     LET remainder[bit \in 0 .. 8] ==
           IF bit = 0 THEN d * 256
           ELSE LET r == remainder[bit - 1]
                IN IF r >= 32768 THEN ((r * 2) % 65536) ^^ 4129 ELSE r * 2
     IN remainder[8]]

\* crcFast
Crc(b) ==
  LET remainder[i \in 0 .. Len(b)] ==
        IF i = 0 THEN 65535
        ELSE LET r == remainder[i - 1]
             IN CrcTable[b[i] ^^ (r \div 256)] ^^ ((r * 256) % 65536)
  IN remainder[Len(b)]

Word(x) == <<(x \div 256) % 256, x % 256>>

FrameVersion(head) == (head \div 256) % 4

\* mutant: the time is taken from the event as it is
FrameTimeAsIs(ev) == ev.ns

\* The time that goes into the frame.
FrameTime(ev) == IF FrameVersion(ev.head) = 1 THEN ev.ns ELSE ToUnixNs(ev.moment)

WriteEventToFrame(len, pkttype, ev) ==
  LET head == ev.head - FrameVersion(ev.head) * 256 + UnixNs
      checked == Word(head) \o FrameTime(ev) \o Zeros(3) \o Word(ev.class) \o Word(ev.type)
                   \o ev.guid \o Word(Len(ev.data)) \o ev.data
  IN IF len < 1 + HeaderLength + Len(ev.data) + 2
       THEN NoFrame
       ELSE <<16 + (pkttype % 16)>> \o checked \o Word(Crc(checked))

\* The bytes of a frame from a position on; positions count from 0.
At(buf, pos, n) == SubSeq(buf, pos + 1, pos + n)

\* mutant: the mark in the head is enough
CrcHoldsIfMarked(buf, size) == (At(buf, 2, 1)[1] & NoCrc) # 0 \/ Crc(At(buf, 1, size - 1)) = 0

\* The check sum of a frame with its check sum is 0.
CrcHolds(buf, size) ==
  \/ (At(buf, 2, 1)[1] & NoCrc) # 0 /\ At(buf, size - 2, 2) = Word(DummyCrc)
  \/ Crc(At(buf, 1, size - 1)) = 0

\* Format 0 has a moment where format 1 has nanoseconds.  The clock replaces
\* a time that is 0.
FrameMoment(buf) ==
  LET m == Moment(ToNumber(At(buf, 7, 2)), buf[10], buf[11], buf[12], buf[13], buf[14], 0)
      zero == m = Moment(0, 0, 0, 0, 0, 0, 0)
      ts == At(buf, 3, 4)
      now == FromUnixNs(Now)
  IN [date |-> IF zero THEN [now EXCEPT !.timestamp = 0] ELSE m,
      timestamp |-> IF ts = Zeros(4) THEN ToBytes(4, now.timestamp) ELSE ts]

\* vscp_getEventFromFrame.  The buffer has a header at least.
GetEventFromFrame(buf) ==
  LET size == 1 + HeaderLength + 2 + ToNumber(At(buf, 34, 2))
      ns == At(buf, 3, 8)
      common == [head |-> ToNumber(At(buf, 1, 2)), class |-> ToNumber(At(buf, 14, 2)),
                 type |-> ToNumber(At(buf, 16, 2)), guid |-> At(buf, 18, 16),
                 data |-> At(buf, 36, size - 38)]
  IN IF Len(buf) < size \/ ~CrcHolds(buf, size)
       THEN Refused
       ELSE common @@ (IF buf[1] \div 16 = 1
                         THEN [ns |-> IF ns = Zeros(8) THEN Now ELSE ns]
                         ELSE [moment |-> FrameMoment(buf)])
=============================================================================

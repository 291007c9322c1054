---------------------------- MODULE Conversions ----------------------------
(***************************************************************************)
(* The conversions of vscphelper.cpp and of the boot loader, checked       *)
(* against references: a caller converts one input, and the invariants     *)
(* look at what comes of it.  There is an action for every group of        *)
(* functions; the inputs are constants.                                    *)
(***************************************************************************)
EXTENDS EventFrame, DataCoding, Measurements, BootImage

CONSTANTS Events,      \* events for CANAL, filters and frames
          Filters,     \* filters
          Damages,     \* what happens to a byte of a frame: numbers to add
          Dates,       \* <<year, month, day>>
          Times,       \* <<hour, minute, second, microseconds>>
          Values,      \* values to code: [digits, exp, negative]
          Codes,       \* coded values: the bytes after the coding byte
          Readings,    \* Level I measurement events with a whole value
          Images       \* [segs, range, blockSize]

\* Values are such that their product with a power of ten is one of uint64_t,
\* and the segments of an image do not overlap.
ASSUME ConversionsAssumption ==
  /\ Damages \subseteq 1 .. 255
  /\ \A v \in Values : v.exp <= 9
  /\ \A x \in Images : \A s, t \in x.segs :
       s = t \/ EndOf(s) <= t.start \/ EndOf(t) <= s.start

VARIABLES input   \* what is converted, and by which functions
vars == <<input>>

Init == input = [kind |-> "none"]

Convert(kind, x) == /\ input.kind = "none"
                    /\ input' = [kind |-> kind, of |-> x]

ConvertCanal == \E ev \in Events : Convert("canal", ev)
ApplyFilter == \E ev \in Events, f \in Filters : Convert("filter", <<ev, f>>)
ConvertFrame == \E ev \in Events : Convert("frame", ev)
DamageFrame == \E ev \in Events, d \in Damages : \E pos \in 0 .. HeaderLength + Len(ev.data) + 2 :
                 Convert("damage", <<ev, pos, d>>)
ConvertDate == \E d \in Dates, t \in Times : Convert("date", <<d, t>>)
CodeValue == \E v \in Values : Convert("value", v)
ReadCode == \E c \in Codes : Convert("code", c)
ReadMeasurement == \E ev \in Readings : Convert("measurement", ev)
FillImage == \E x \in Images : Convert("image", x)

Next == \/ ConvertCanal \/ ApplyFilter \/ ConvertFrame \/ DamageFrame \/ ConvertDate
        \/ CodeValue \/ ReadCode \/ ReadMeasurement \/ FillImage

Spec == Init /\ [][Next]_vars
-----------------------------------------------------------------------------
Is(kind) == input.kind = kind
Of == input.of

\* A Level I event in its Level II form.
WithGuid(ev) == [ev EXCEPT !.class = @ + 512, !.data = Zeros(16) \o @]

\* What an event keeps on a CAN bus.
Essence(ev) == [priority |-> GetEventPriority(ev), hard |-> (ev.head & HardCoded) # 0,
                class |-> ev.class, type |-> ev.type, nickname |-> ev.guid[16], data |-> ev.data]

IsLevel1(ev) == ev.class < 512 /\ ev.type < 256 /\ Len(ev.data) <= 8

\* A Level I event that goes over a CAN bus arrives as it was sent: no field
\* of the id runs into another one, whatever their values are, and the GUID is
\* the one of the interface with the nickname of the node.  One that is sent
\* to an interface as a Level II event is, on the bus, the Level I event.
CanalRoundTrip ==
  Is("canal") /\ IsLevel1(Of) =>
    LET msg == ConvertEventToCanal(Of)
        back == ConvertCanalToEvent(msg, Zeros(16))
    IN /\ Essence(back) = Essence(Of)
       /\ SubSeq(back.guid, 1, 15) = Zeros(15)
       /\ ConvertEventToCanal(WithGuid(Of)) = msg

\* The filter lets an event pass if and only if every bit that a mask names
\* has the filter's value.
FilterSelects == Is("filter") => (DoLevel2Filter(Of[1], Of[2]) <=> Selected(Of[1], Of[2]))

\* An event read from the frame that was written for it is the event, with its
\* time in nanoseconds; a date is the same moment.
FrameRoundTrip ==
  Is("frame") =>
    LET back == GetEventFromFrame(WriteEventToFrame(512, 0, Of))
    IN /\ Essence(back) = Essence(Of) /\ back.guid = Of.guid /\ FrameVersion(back.head) = 1
       /\ IF FrameVersion(Of.head) = 1 THEN Of.ns = Zeros(8) \/ back.ns = Of.ns
                                       ELSE FromUnixNs(back.ns) = Of.moment

\* A frame with a changed byte is refused, whichever byte it is, the sizes, the
\* marks in the head and the check sum included; but for the packet type, which
\* the check sum does not cover.  Of that byte, the lower four bits change
\* nothing in the event that is read, and the upper four its time: the
\* nanoseconds are taken for a date and microseconds, all else is kept.
DamageIsNoticed ==
  Is("damage") =>
    LET frame == WriteEventToFrame(512, 0, Of[1])
        whole == GetEventFromFrame(frame)
        byte == (frame[Of[2] + 1] + Of[3]) % 256
        back == GetEventFromFrame([frame EXCEPT ![Of[2] + 1] = byte])
    IN CASE Of[2] # 0 -> back = Refused
         [] byte \div 16 = 1 -> back = whole
         [] OTHER -> /\ "ns" \notin DOMAIN back
                     /\ \A f \in DOMAIN whole \ {"ns"} : back[f] = whole[f]

MomentOf(d, t) == Moment(d[1], d[2], d[3], t[1], t[2], t[3], t[4])

\* A moment that is converted to nanoseconds and back is the same moment if and
\* only if int64_t has a number for it (from 1677-09-21 to 2262-04-11), and days
\* are counted as the calendar has them, before 1970 and in leap years of all
\* three kinds.
MomentRoundTrip ==
  Is("date") =>
    LET t == MomentOf(Of[1], Of[2])
    IN /\ FromUnixNs(ToUnixNs(t)) = t <=> HasUnixNs(t)
       /\ CountsDays(Of[1][1], Of[1][2], Of[1][3])

\* The digits of a value as a whole number, and how many of them are decimals.
AllDigits(x) == Scaled(x, Len(x.digits) - 1 - x.exp)
Decimals(x) == Len(x.digits) - 1 - x.exp

\* A code stands for the value: their mantissas are equal at the same decimals.
StandsFor(code, x) ==
  LET back == GetNormalized(code)
      n == back.shift.digits
      more(b, k) == FoldLeft(LAMBDA v, i : MulAdd(v, 10, 0), b, [i \in 1 .. k |-> i])
  IN back.shift.left /\ more(back.mantissa, Decimals(x) - n) = more(AllDigits(x), n - Decimals(x))


\* Whoever asks a measurement without a zone for its unit and its sensor index
\* gets the bits of the coding byte, or 0 where the class has none, from the
\* event, from its form with a GUID, and from the Level II events that it is
\* converted to.
CodedIsKept ==
  LET b == IF Of.class = Measurement THEN Of.data[1] ELSE 0
      right(ev) == /\ GetMeasurementUnit(ev) = 2 * Bit(b, 4) + Bit(b, 3)
                   /\ GetMeasurementSensorIndex(ev) = 4 * Bit(b, 2) + 2 * Bit(b, 1) + Bit(b, 0)
      made == {ConvertToLevel2Double(Of, Zeros(8)), ConvertToLevel2String(Of, <<49, 46, 53>>)}
  IN /\ \A ev \in {Of, WithGuid(Of)} \cup (made \ {NoEvent}) : right(ev)
     /\ Of.class = Measurement => NoEvent \notin made

\* An event with a zone that is converted to text has sensor index, zone and
\* sub zone where the table at vscphelper.cpp:3934 has them, and the getters
\* find index and sub zone there.  The getter of the zone takes the sub zone for
\* it; of the event itself it reads no zone, as it finds the data too short
\* when they are not.  So it is right only where the two are equal, or 0.
ZoneIsKept ==
  LET text == ConvertToLevel2String(Of, <<49, 46, 53>>)
  IN /\ text # NoEvent /\ text.data[2] = Of.data[2]
     /\ GetMeasurementSensorIndex(text) = Of.data[1]
     /\ GetMeasurementSubZone(text) = Of.data[3]
     /\ GetMeasurementZone(text) = Of.data[2] <=> Of.data[2] = Of.data[3]
     /\ \A ev \in {Of, WithGuid(Of)} : GetMeasurementZone(ev) = Of.data[2] <=> Of.data[2] = 0


\* The buffer has a place for every byte of the segment, and every byte is at
\* the place of its address: the first block of the image comes first.
IsInBuffer(x, s) ==
  LET buf == Filled(x.segs, x.range, x.blockSize)
      first == StartBlock(MinMaxForRange(x.segs, x.range), x.blockSize) * x.blockSize
  IN \A i \in DOMAIN s.bytes :
       LET at == s.start + i - 1 - first
       IN at < buf.size /\ at \in DOMAIN buf.data /\ buf.data[at] = s.bytes[i]

\* An image is complete in the buffer, with gaps and with a last block that is
\* not full, if and only if its memory range begins at address 0, which one of
\* the ten does, no segment reaches the last two addresses of the range, and it
\* touches no more blocks than one of its length that begins a block.
\* (fillMemoryBuffer takes the start of another range away twice, and deviceLoad
\* counts the blocks from the first byte.)
ImageIsComplete ==
  Is("image") =>
    LET mm == MinMaxForRange(Of.segs, Of.range)
        size == Of.blockSize
    IN (\A s \in Of.segs : IsInBuffer(Of, s))
         <=> /\ Of.range.start = 0
             /\ \A s \in Of.segs : EndOf(s) < Of.range.end
             /\ (mm.max - 1) \div size - mm.min \div size = (mm.max - mm.min - 1) \div size
=============================================================================

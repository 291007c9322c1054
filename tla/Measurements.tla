---------------------------- MODULE Measurements ----------------------------
(***************************************************************************)
(* Measurement events (vscphelper.cpp): the getters of unit, sensor index, *)
(* zone and sub zone in every form an event can have, and the conversion   *)
(* of a Level I measurement to the two Level II forms.  The number is left *)
(* out: the conversions get it as the bytes or the text they store.        *)
(***************************************************************************)
EXTENDS Naturals, Sequences

Measurement == 10
DataClass == 15
Measurement64 == 60
MeasureZone == 65
Measurement32 == 70
SetValueZone == 85
MeasurementStr == 1040
MeasurementFloat == 1060

NoEvent == [refused |-> TRUE]
Failed == [failed |-> TRUE]

\* A class with its four extensions (X1 .. X4).
Family(class) == class .. class + 4
LevelOneMeasurements ==
  UNION {Family(c) : c \in {Measurement, Measurement64, MeasureZone, Measurement32, SetValueZone}}

\* vscp_isMeasurement: the class CLASS1.DATA is one too, but not its form with
\* a GUID.
IsMeasurement(ev) ==
  \/ ev.class \in LevelOneMeasurements \cup {DataClass, MeasurementStr, MeasurementFloat}
  \/ ev.class \in {c + 512 : c \in LevelOneMeasurements}

\* The GUID precedes the data of a Level I event in a Level II form.
GuidOffset(ev) == IF ev.class \in 512 .. 1023 THEN 16 ELSE 0

Over(class) == {class, class + 512}
OfZone(ev) == ev.class \in Over(MeasureZone) \cup Over(SetValueZone)
Coded(ev) == ev.class \in Over(Measurement) \cup {DataClass}
Plain(ev) == ev.class \in Over(Measurement32) \cup Over(Measurement64)

CodedUnit(b) == (b \div 8) % 4
CodedIndex(b) == b % 8

\* What the Level II forms keep in data byte i.
FromLevel2(ev, i) ==
  IF \/ ev.class = MeasurementStr /\ Len(ev.data) >= 4
     \/ ev.class = MeasurementFloat /\ Len(ev.data) = 12
    THEN ev.data[i + 1]
    ELSE Failed

GetMeasurementUnit(ev) ==
  CASE Coded(ev) \/ OfZone(ev) -> IF Len(ev.data) < GuidOffset(ev) + 1
                                    THEN Failed ELSE CodedUnit(ev.data[GuidOffset(ev) + 1])
    [] Plain(ev) -> 0
    [] OTHER -> FromLevel2(ev, 3)

\* For a zone the code refuses data that is long enough.
GetMeasurementSensorIndex(ev) ==
  CASE ev.data = <<>> -> Failed
    [] Coded(ev) -> CodedIndex(ev.data[GuidOffset(ev) + 1])
    [] OfZone(ev) -> IF Len(ev.data) >= GuidOffset(ev) + 3
                       THEN Failed ELSE ev.data[GuidOffset(ev) + 1]
    [] Plain(ev) -> 0
    [] OTHER -> FromLevel2(ev, 0)

\* The Level II forms keep the zone in byte 1; the code reads byte 2.
GetMeasurementZone(ev) ==
  CASE ev.data = <<>> -> Failed
    [] OfZone(ev) -> IF Len(ev.data) >= GuidOffset(ev) + 3
                       THEN 0 ELSE ev.data[GuidOffset(ev) + 2]
    [] Coded(ev) \/ Plain(ev) -> 0
    [] OTHER -> FromLevel2(ev, 2)

GetMeasurementSubZone(ev) ==
  CASE ev.data = <<>> -> Failed
    [] Coded(ev) \/ OfZone(ev) \/ Plain(ev) -> 0
    [] OTHER -> FromLevel2(ev, 2)

\* vscp_getMeasurementAsString yields a text: the sizes it asks for.
HasText(ev) ==
  LET size == Len(ev.data) - GuidOffset(ev)
  IN \/ ev.class \in Over(Measurement32) /\ size = 4
     \/ ev.class \in Over(Measurement64) /\ size = 8
     \/ (Coded(ev) \/ OfZone(ev)) /\ size >= 2

\* vscp_getMeasurementAsDouble does so for fewer classes; the text is a number.
HasNumber(ev) ==
  /\ ev.class \in Over(Measurement) \cup {DataClass, MeasureZone, SetValueZone, Measurement64}
  /\ HasText(ev)


\* The bytes in front of the value, from a coding byte and from a zone.
CodedHead(ev) == <<CodedIndex(ev.data[1]), 0, 0, CodedUnit(ev.data[1])>>
ZoneHead(ev) == SubSeq(ev.data, 1, 3) \o <<0>>
NoHead == <<0, 0, 0, 0>>

\* vscp_convertLevel1MeasurementToLevel2Double: the branch for zones that
\* keeps the zone is never reached, the one before it has the same test.
ConvertToLevel2Double(ev, number) ==
  IF ~(IsMeasurement(ev) /\ HasNumber(ev)) THEN NoEvent
  ELSE LET As(head) == [ev EXCEPT !.class = MeasurementFloat, !.data = head \o number]
       IN CASE ev.class \in Family(Measurement) -> As(CodedHead(ev))
            [] ev.class \in Family(MeasureZone) \cup Family(Measurement32) -> As(NoHead)
            [] ev.class \in Family(SetValueZone) -> As(ZoneHead(ev))
            [] OTHER -> NoEvent

\* vscp_convertLevel1MeasurementToLevel2String
ConvertToLevel2String(ev, text) ==
  IF ~(IsMeasurement(ev) /\ HasText(ev)) \/ 4 + Len(text) + 1 > 512 THEN NoEvent
  ELSE LET As(head) == [ev EXCEPT !.class = MeasurementStr, !.data = head \o text]
       IN CASE ev.class \in Family(Measurement) -> As(CodedHead(ev))
            [] ev.class \in Family(Measurement64) \cup Family(Measurement32) -> As(NoHead)
            [] ev.class \in Family(MeasureZone) \cup Family(SetValueZone) -> As(ZoneHead(ev))
            [] OTHER -> NoEvent
=============================================================================

---------------------------- MODULE CanalEvent ----------------------------
(***************************************************************************)
(* Events, CANAL messages and the filter (vscphelper.cpp): the fields of a *)
(* CAN id, the conversions both ways, and vscp_doLevel2Filter.  Numbers    *)
(* have the widths of the code.  An event is [head, class, type, guid,     *)
(* data]; the time the conversions set is left out.                        *)
(***************************************************************************)
EXTENDS Naturals, Sequences, Bitwise

HardCoded == 16              \* VSCP_HEADER_HARD_CODED
UnixNs == 256                \* VSCP_HEADER16_FRAME_VERSION_UNIX_NS
IdHardCoded == 2 ^ 25        \* VSCP_CAN_ID_HARD_CODED
Refused == [refused |-> TRUE]

GetEventPriority(ev) == (ev.head \div 32) % 8

GetHeadFromCANALid(id) == ((id \div 2 ^ 26) % 8) * 32 + (IF (id & IdHardCoded) # 0 THEN HardCoded ELSE 0)
GetVscpClassFromCANALid(id) == (id \div 2 ^ 16) % 512
GetVscpTypeFromCANALid(id) == (id \div 2 ^ 8) % 256
GetNicknameFromCANALid(id) == id % 256

\* vscp_convertCanalToEvent: the nickname replaces the last byte of the
\* interface's GUID.
ConvertCanalToEvent(msg, guid) ==
  IF Len(msg.data) > 8
    THEN Refused
    ELSE [head |-> GetHeadFromCANALid(msg.id) | UnixNs,
          class |-> GetVscpClassFromCANALid(msg.id),
          type |-> GetVscpTypeFromCANALid(msg.id),
          guid |-> [guid EXCEPT ![16] = GetNicknameFromCANALid(msg.id)],
          data |-> msg.data]

\* A Level I event that is addressed to an interface: its class is 512 higher
\* and the GUID of the interface precedes the data.
IsLevel1OverLevel2(ev) == ev.class \in 512 .. 1023 /\ Len(ev.data) >= 16

\* mutant: the hard coded flag is not copied
CanalIdNoFlag(priority, class, ev) ==
  ((priority * 2 ^ 26) | (class * 2 ^ 16)) | ((ev.type * 2 ^ 8) | ev.guid[16])

CanalId(priority, class, ev) ==
  (((priority * 2 ^ 26) | (class * 2 ^ 16)) | ((ev.type * 2 ^ 8) | ev.guid[16]))
    | (IF (ev.head & HardCoded) # 0 THEN IdHardCoded ELSE 0)

\* vscp_convertEventToCanal: the data is cut after 8 bytes.
ConvertEventToCanal(ev) ==
  LET over == IsLevel1OverLevel2(ev)
      data == IF over THEN SubSeq(ev.data, 17, Len(ev.data)) ELSE ev.data
      class == IF over THEN ev.class - 512 ELSE ev.class
  IN [id |-> CanalId(GetEventPriority(ev), class, ev),
      data |-> SubSeq(data, 1, IF Len(data) <= 8 THEN Len(data) ELSE 8)]
-----------------------------------------------------------------------------
(* The filter.                                                              *)

\* mutant: the mask tells the bits that are not of interest
PassesInverted(w, filter, mask, value) ==
  LET ones == 2 ^ w - 1
  IN (ones - (filter ^^ value)) | mask = ones

\* ~(filter ^ value) | ~mask has every one of its w bits set.
Passes(w, filter, mask, value) ==
  LET ones == 2 ^ w - 1
  IN ((ones - (filter ^^ value)) | (ones - mask)) = ones

DoLevel2Filter(ev, f) ==
  /\ Passes(16, f.filter.class, f.mask.class, ev.class)
  /\ Passes(16, f.filter.type, f.mask.type, ev.type)
  /\ \A i \in 1 .. 16 : Passes(8, f.filter.guid[i], f.mask.guid[i], ev.guid[i])
  /\ Passes(8, f.filter.priority, f.mask.priority, GetEventPriority(ev))

\* The reference: every bit the mask names has the filter's value.
Bit(x, i) == (x \div 2 ^ i) % 2
Agree(w, filter, mask, value) ==
  \A i \in 0 .. w - 1 : Bit(mask, i) = 1 => Bit(filter, i) = Bit(value, i)
Selected(ev, f) ==
  /\ Agree(16, f.filter.class, f.mask.class, ev.class)
  /\ Agree(16, f.filter.type, f.mask.type, ev.type)
  /\ \A i \in 1 .. 16 : Agree(8, f.filter.guid[i], f.mask.guid[i], ev.guid[i])
  /\ Agree(8, f.filter.priority, f.mask.priority, GetEventPriority(ev))
=============================================================================

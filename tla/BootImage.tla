----------------------------- MODULE BootImage -----------------------------
(***************************************************************************)
(* How the boot loader makes the buffer it sends from the segments of a    *)
(* hex file (CBootDevice::getMinMaxForRange and fillMemoryBuffer, and the  *)
(* arithmetic of CBootDevice_VSCP::deviceLoad).  A segment is [start,      *)
(* bytes] and a range is [start, end], an end of the list of segments that *)
(* the file may go beyond.                                                 *)
(***************************************************************************)
EXTENDS Integers, Sequences, FiniteSetsExt

Fill == "ff"   \* the value of memory without data

EndOf(seg) == seg.start + Len(seg.bytes)

\* The addresses the image has in a range: from the lowest to one past the
\* highest of the segments that begin in it, or nothing.
MinMaxForRange(segs, range) ==
  LET inside == {s \in segs : s.start \in range.start .. range.end}
  IN IF inside = {} THEN [min |-> 0, max |-> 0]
     ELSE [min |-> Min({s.start : s \in inside}), max |-> Max({EndOf(s) : s \in inside})]

\* mutant: a last block that is not full is not counted
NBlocksFull(mm, blockSize) == (mm.max - mm.min) \div blockSize

NBlocks(mm, blockSize) ==
  (mm.max - mm.min) \div blockSize + (IF (mm.max - mm.min) % blockSize # 0 THEN 1 ELSE 0)

StartBlock(mm, blockSize) == mm.min \div blockSize

\* fillMemoryBuffer as deviceLoad calls it: what it writes, by the index in
\* the buffer, which may lie before it or behind it (the code's unsigned
\* difference is then a large number).  A segment is used if it ends before the
\* range does; the offset is an address, from which the start of the range is
\* taken as well.
Filled(segs, range, blockSize) ==
  LET mm == MinMaxForRange(segs, range)
      offset == StartBlock(mm, blockSize) * blockSize
      used == {s \in segs : s.start >= range.start /\ EndOf(s) < range.end}
      Index(s, i) == s.start - range.start - offset + i - 1
      written == UNION {{Index(s, i) : i \in DOMAIN s.bytes} : s \in used}
  IN [size |-> NBlocks(mm, blockSize) * blockSize,
      data |-> [x \in written |-> LET s == CHOOSE t \in used : \E i \in DOMAIN t.bytes : Index(t, i) = x
                                  IN s.bytes[x - Index(s, 1) + 1]]]
=============================================================================

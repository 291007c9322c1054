-------------------------- MODULE RegistersProofs --------------------------
(***************************************************************************)
(* Reads of registers return what they may hold, confirmed writes are      *)
(* done and block reads are complete, for any registers, values and size   *)
(* of a frame, and any number of calls, losses and repeated requests.      *)
(***************************************************************************)
EXTENDS Registers, TLAPS

USE DEF nodeVars, blockVars, historyVars, counters, hostKeeps

-----------------------------------------------------------------------------
(* Sequences, maps and frames.                                              *)

\* What Append does to a sequence.
LEMMA Appended ==
  ASSUME NEW S, NEW s \in Seq(S), NEW e \in S, NEW r, r = Append(s, e)
  PROVE  /\ r \in Seq(S) /\ Len(s) \in Nat /\ Len(r) = Len(s) + 1
         /\ \A i \in 1 .. Len(s) : r[i] = s[i]
         /\ r[Len(s) + 1] = e
OBVIOUS

\* What taking the head does to a sequence.
LEMMA Popped ==
  ASSUME NEW S, NEW s \in Seq(S), s # <<>>, NEW r, r = Tail(s)
  PROVE  /\ r \in Seq(S) /\ Len(s) \in Nat /\ Len(s) >= 1 /\ Len(r) = Len(s) - 1
         /\ \A i \in 1 .. Len(s) - 1 : r[i] = s[i + 1]
         /\ Head(s) = s[1] /\ Head(s) \in S
OBVIOUS

\* A place from i on that is not the last one.
LEMMA InPrefix ==
  ASSUME NEW n \in Nat, NEW i \in 1 .. n, NEW j \in i .. n + 1, j # n + 1
  PROVE  j \in 1 .. n /\ j \in i .. n
OBVIOUS

\* The registers of the page are an interval.
LEMMA OffsetsInterval ==
  /\ Offsets \subseteq Nat /\ 0 \in Offsets
  /\ \A a \in Offsets, b \in Offsets, x \in Nat : a <= x /\ x <= b => x \in Offsets
<1>1. PageSize \in Nat /\ PageSize > 0
  BY RegistersAssumption
<1> QED BY <1>1 DEF Offsets

\* A map is a function from registers to values.
LEMMA MapIsFunction ==
  ASSUME NEW m \in Maps
  PROVE  m \in [DOMAIN m -> Values] /\ DOMAIN m \subseteq Offsets
BY DEF Maps

\* A function from registers to values is a map.
LEMMA FunctionIsMap ==
  ASSUME NEW S \in SUBSET Offsets, NEW m \in [S -> Values]
  PROVE  m \in Maps
BY DEF Maps

\* The empty map.
LEMMA EmptyIsMap == Empty \in Maps /\ DOMAIN Empty = {}
<1>1. Empty \in [{} -> Values] /\ DOMAIN Empty = {}
  BY DEF Empty
<1> QED BY <1>1, FunctionIsMap

\* What is known of a call.
LEMMA CallsAre ==
  ASSUME NEW c \in Calls \cup {NoCall}
  PROVE  /\ c.kind \in Kinds /\ c.map \in Maps /\ c.off \in Offsets /\ c.count \in Nat
         /\ c.off + Registers(c.count) - 1 \in Offsets
         /\ c.map = Empty <=> c.kind \in ReadKinds
         /\ c.kind \in WriteKinds => DOMAIN c.map = {c.off}
<1>1. CASE c \in Calls
  BY <1>1, RegistersAssumption, OffsetsInterval
<1>2. CASE c = NoCall
  <2>1. 0 + Registers(0) - 1 \in Offsets
    BY RegistersAssumption DEF Registers, Offsets
  <2>2. /\ c.kind = "read" /\ c.off = 0 /\ c.count = 0 /\ c.map = Empty
    BY <1>2 DEF NoCall, Call
  <2> QED BY <2>1, <2>2, OffsetsInterval, EmptyIsMap DEF Kinds, ReadKinds, WriteKinds
<1> QED BY <1>1, <1>2

\* A call asks for one register at least.
LEMMA SomeRegisters ==
  ASSUME NEW count \in Nat
  PROVE  Registers(count) \in Nat /\ Registers(count) > 0
BY RegistersAssumption DEF Registers

\* A frame of count registers has one at least, and its registers are among
\* the count.
LEMMA SizeFits ==
  ASSUME NEW count \in Nat, NEW i \in Indices(count)
  PROVE  /\ i \in Nat /\ i * Chunk \in Nat /\ Size(count, i) \in Nat /\ Size(count, i) > 0
         /\ i * Chunk + Size(count, i) <= count
<1>1. i \in Nat /\ Chunk \in Nat /\ Chunk > 0 /\ i * Chunk \in Nat /\ i * Chunk < count
  BY RegistersAssumption DEF Indices
<1> DEFINE a == i * Chunk
<1>2. a \in Nat /\ a < count
  BY <1>1
<1> HIDE DEF a
<1>3. Min({Chunk, count - a}) \in {Chunk, count - a} /\ Min({Chunk, count - a}) <= count - a
  <2>1. \E x \in {Chunk, count - a} : \A y \in {Chunk, count - a} : x <= y
    <3>1. Chunk \in Int /\ count - a \in Int
      BY <1>1, <1>2
    <3> QED BY <3>1
  <2> QED BY <2>1 DEF Min
<1> QED BY <1>1, <1>2, <1>3 DEF Size, a

\* A frame with a part of a map says of its registers what the map does.
LEMMA FrameSays ==
  ASSUME NEW off \in Nat, NEW n \in Nat, n > 0, NEW m, NEW f,
         f.off = off, Len(f.data) = n, \A k \in 1 .. n : f.data[k] = m[off + k - 1]
  PROVE  /\ Covers(f) = off .. off + n - 1
         /\ \A r \in Covers(f) : At(f, r) = m[r]
<1>1. Covers(f) = off .. off + n - 1
  BY DEF Covers
<1>2. ASSUME NEW r \in off .. off + n - 1 PROVE At(f, r) = m[r]
  <2>1. r - off + 1 \in 1 .. n /\ off + (r - off + 1) - 1 = r
    OBVIOUS
  <2> QED BY <2>1 DEF At
<1> QED BY <1>1, <1>2

\* The frames of a reply bring the registers that were read.
LEMMA FramesAre ==
  ASSUME NEW off \in Offsets, NEW count \in Nat, count > 0, off + count - 1 \in Offsets,
         NEW m \in [Offsets -> Values], NEW f \in FramesOf(off, count, m)
  PROVE  /\ f \in FrameSet /\ Own(f) /\ f.index \in Indices(count)
         /\ Covers(f) = off + f.index * Chunk .. off + f.index * Chunk + Size(count, f.index) - 1
         /\ \A r \in Covers(f) : At(f, r) = m[r]
<1>1. PICK i \in Indices(count) :
        f = Frame(i, off + i * Chunk, [k \in 1 .. Size(count, i) |-> m[off + i * Chunk + k - 1]])
  BY DEF FramesOf
<1> DEFINE a == i * Chunk
           o == off + a
           n == Size(count, i)
<1>2. /\ i \in Nat /\ a \in Nat /\ n \in Nat /\ n > 0 /\ a + n <= count
  BY SizeFits
<1>3. off \in Nat
  BY OffsetsInterval
<1> HIDE DEF a, n
<1>4. o \in Nat /\ off <= o /\ o + n - 1 <= off + count - 1 /\ o <= o + n - 1
  BY <1>2, <1>3
<1>5. /\ f.off = o /\ f.index = i /\ Own(f) /\ f.data = [k \in 1 .. n |-> m[o + k - 1]]
      /\ f = [node |-> "this", page |-> "this", index |-> i, off |-> o,
             data |-> [k \in 1 .. n |-> m[o + k - 1]]]
  BY <1>1 DEF Frame, Own, a, n
<1> HIDE DEF o
<1>6. o .. o + n - 1 \subseteq Offsets
  BY <1>2, <1>3, <1>4, OffsetsInterval
<1>7. Len(f.data) = n /\ Covers(f) = o .. o + n - 1 /\ \A r \in Covers(f) : At(f, r) = m[r]
  <2>1. f.off = o /\ Len(f.data) = n /\ \A k \in 1 .. n : f.data[k] = m[o + k - 1]
    BY <1>2, <1>5
  <2>2. o \in Nat /\ n \in Nat /\ n > 0
    BY <1>2, <1>4
  <2>3. Covers(f) = o .. o + n - 1
    BY <2>1 DEF Covers
  <2>4. ASSUME NEW r \in o .. o + n - 1 PROVE At(f, r) = m[r]
    <3>1. r - o + 1 \in 1 .. n /\ o + (r - o + 1) - 1 = r
      BY <2>2
    <3> QED BY <2>1, <3>1 DEF At
  <2> QED BY <2>1, <2>3, <2>4
<1>8. f.data \in Seq(Values)
  <2>1. \A k \in 1 .. n : o + k - 1 \in o .. o + n - 1
    BY <1>2, <1>4
  <2>2. \A k \in 1 .. n : m[o + k - 1] \in Values
    BY <1>6, <2>1
  <2> QED BY <1>2, <1>5, <2>2
<1>9. o \in Offsets
  BY <1>2, <1>4, <1>6
<1>10. f \in FrameSet
  <2>1. f \in [node : {"this", "other"}, page : {"this", "other"}, index : Nat, off : Offsets,
              data : Seq(Values)]
    BY <1>2, <1>5, <1>8, <1>9
  <2> QED BY <1>2, <1>6, <1>7, <2>1 DEF FrameSet
<1> QED BY <1>1, <1>5, <1>7, <1>10 DEF o, a, n

\* The frames of a block write are parts of its map.
LEMMA WriteFramesAre ==
  ASSUME NEW m \in Maps
  PROVE  WriteFrames(m) \subseteq PartSet
<1> SUFFICES ASSUME NEW f \in WriteFrames(m) PROVE f \in PartSet
  OBVIOUS
<1>1. PICK x \in Runs(m) : \E i \in Indices(x[2] % PageSize) :
        f = [off |-> x[1] + i * Chunk, count |-> Size(x[2] % PageSize, i)]
  BY DEF WriteFrames
<1>2. PICK i \in Indices(x[2] % PageSize) :
        f = [off |-> x[1] + i * Chunk, count |-> Size(x[2] % PageSize, i)]
  BY <1>1
<1>3. DOMAIN m \subseteq Offsets
  BY MapIsFunction
<1>4. x[1] \in Nat /\ x[2] \in Nat /\ x[1] .. x[1] + x[2] - 1 \subseteq Offsets
  <2>1. /\ x[1] \in DOMAIN m /\ x[2] \in 1 .. Cardinality(DOMAIN m)
        /\ x[1] .. x[1] + x[2] - 1 \subseteq DOMAIN m
    BY <1>1 DEF Runs
  <2>2. x[2] \in Nat
    BY <2>1
  <2> QED BY <1>3, <2>1, <2>2, OffsetsInterval
<1> DEFINE a == i * Chunk
           n == Size(x[2] % PageSize, i)
<1>5. a \in Nat /\ n \in Nat /\ n > 0 /\ a + n <= x[2]
  <2>1. PICK y \in Nat, p \in Nat : y = x[2] /\ p = PageSize /\ p > 0
    BY <1>4, RegistersAssumption
  <2>2. y % p \in Nat /\ y % p <= y
    <3>1. y % p \in 0 .. p - 1 /\ y = p * (y \div p) + (y % p) /\ y \div p \in Nat
      BY <2>1
    <3>2. p * (y \div p) >= 0
      BY <2>1, <3>1
    <3> QED BY <3>1, <3>2
  <2>3. PICK l \in Nat : l = x[2] % PageSize /\ l <= x[2]
    BY <2>1, <2>2
  <2>4. i \in Indices(l) /\ n = Size(l, i)
    BY <2>3
  <2>5. a \in Nat /\ n \in Nat /\ n > 0 /\ a + n <= l
    BY <2>4, SizeFits
  <2> HIDE DEF a, n
  <2> QED BY <1>4, <2>3, <2>5
<1>6. f.off = x[1] + a /\ f.count = n /\ f = [off |-> x[1] + a, count |-> n]
  BY <1>2
<1> HIDE DEF a, n
<1>7. \A y \in x[1] + a .. x[1] + a + n - 1 : y \in x[1] .. x[1] + x[2] - 1
  BY <1>4, <1>5
<1>8. x[1] + a \in x[1] + a .. x[1] + a + n - 1
  BY <1>4, <1>5
<1> QED BY <1>4, <1>5, <1>6, <1>7, <1>8 DEF PartSet
-----------------------------------------------------------------------------
(* The line from the requests to the queue: what a step does to it.         *)

Lengths == {Len(toNode), Len(toHost), Len(queue)} \subseteq Nat

\* Of the requests, the replies and the queue the end is left, and of a reply
\* some frames.
NodeShrinks == \E k \in Nat : \A i \in 1 .. Len(toNode') :
  i + k \in 1 .. Len(toNode) /\ toNode'[i] = toNode[i + k]
HostShrinks == \E k \in Nat : \A i \in 1 .. Len(toHost') :
  i + k \in 1 .. Len(toHost) /\ toHost'[i] \subseteq toHost[i + k]
QueueShrinks == \E k \in Nat : \A i \in 1 .. Len(queue') :
  i + k \in 1 .. Len(queue) /\ queue'[i] = queue[i + k]

\* Requests, replies and frames that are not touched, and those of which the
\* first is taken.
LEMMA ShrinkFacts ==
  ASSUME WayOK
  PROVE  /\ Lengths
         /\ toNode' = toNode => NodeShrinks
         /\ toNode # <<>> /\ toNode' = Tail(toNode) => NodeShrinks
         /\ toHost' = toHost => HostShrinks
         /\ toHost # <<>> /\ toHost' = Tail(toHost) => HostShrinks
         /\ queue' = queue => QueueShrinks
         /\ queue # <<>> /\ queue' = Tail(queue) => QueueShrinks
         /\ queue' = <<>> => QueueShrinks
<1>0. /\ toNode \in Seq(RequestSet) /\ toHost \in Seq(SUBSET FrameSet) /\ queue \in Seq(FrameSet)
  BY DEF WayOK
<1>1. Lengths
  BY <1>0 DEF Lengths
<1>2. toNode' = toNode => NodeShrinks
  <2> SUFFICES ASSUME toNode' = toNode PROVE NodeShrinks
    OBVIOUS
  <2>1. \A i \in 1 .. Len(toNode') : i + 0 \in 1 .. Len(toNode) /\ toNode'[i] = toNode[i + 0]
    BY <1>0
  <2> QED BY <2>1 DEF NodeShrinks
<1>3. toNode # <<>> /\ toNode' = Tail(toNode) => NodeShrinks
  <2> SUFFICES ASSUME toNode # <<>>, toNode' = Tail(toNode) PROVE NodeShrinks
    OBVIOUS
  <2>1. /\ Len(toNode) \in Nat /\ Len(toNode') = Len(toNode) - 1
        /\ \A i \in 1 .. Len(toNode) - 1 : toNode'[i] = toNode[i + 1]
    BY <1>0, Popped
  <2>2. \A i \in 1 .. Len(toNode') : i + 1 \in 1 .. Len(toNode) /\ toNode'[i] = toNode[i + 1]
    BY <2>1
  <2> QED BY <2>2 DEF NodeShrinks
<1>4. toHost' = toHost => HostShrinks
  <2> SUFFICES ASSUME toHost' = toHost PROVE HostShrinks
    OBVIOUS
  <2>1. \A i \in 1 .. Len(toHost') : i + 0 \in 1 .. Len(toHost) /\ toHost'[i] \subseteq toHost[i + 0]
    BY <1>0
  <2> QED BY <2>1 DEF HostShrinks
<1>5. toHost # <<>> /\ toHost' = Tail(toHost) => HostShrinks
  <2> SUFFICES ASSUME toHost # <<>>, toHost' = Tail(toHost) PROVE HostShrinks
    OBVIOUS
  <2> DEFINE S == SUBSET FrameSet
  <2>1. toHost \in Seq(S)
    BY <1>0
  <2> HIDE DEF S
  <2>2. /\ Len(toHost) \in Nat /\ Len(toHost') = Len(toHost) - 1
        /\ \A i \in 1 .. Len(toHost) - 1 : toHost'[i] = toHost[i + 1]
    BY <2>1, Popped
  <2>3. \A i \in 1 .. Len(toHost') : i + 1 \in 1 .. Len(toHost) /\ toHost'[i] \subseteq toHost[i + 1]
    BY <2>2
  <2> QED BY <2>3 DEF HostShrinks
<1>6. queue' = queue => QueueShrinks
  <2> SUFFICES ASSUME queue' = queue PROVE QueueShrinks
    OBVIOUS
  <2>1. \A i \in 1 .. Len(queue') : i + 0 \in 1 .. Len(queue) /\ queue'[i] = queue[i + 0]
    BY <1>0
  <2> QED BY <2>1 DEF QueueShrinks
<1>7. queue # <<>> /\ queue' = Tail(queue) => QueueShrinks
  <2> SUFFICES ASSUME queue # <<>>, queue' = Tail(queue) PROVE QueueShrinks
    OBVIOUS
  <2>1. /\ Len(queue) \in Nat /\ Len(queue') = Len(queue) - 1
        /\ \A i \in 1 .. Len(queue) - 1 : queue'[i] = queue[i + 1]
    BY <1>0, Popped
  <2>2. \A i \in 1 .. Len(queue') : i + 1 \in 1 .. Len(queue) /\ queue'[i] = queue[i + 1]
    BY <2>1
  <2> QED BY <2>2 DEF QueueShrinks
<1>8. queue' = <<>> => QueueShrinks
  BY DEF QueueShrinks
<1> QED BY <1>1, <1>2, <1>3, <1>4, <1>5, <1>6, <1>7, <1>8

\* What is left of the line says what it said.
LEMMA ShrinkKeeps ==
  ASSUME Lengths, Lengths', NodeShrinks, HostShrinks, QueueShrinks, regs' = regs, NEW r
  PROVE  /\ \A S : AllIn(r, S) => AllIn(r, S)'
         /\ \A v : NewValue(r, v) => NewValue(r, v)'
<1>1. PICK a \in Nat : \A i \in 1 .. Len(toNode') :
        i + a \in 1 .. Len(toNode) /\ toNode'[i] = toNode[i + a]
  BY DEF NodeShrinks
<1>2. PICK b \in Nat : \A i \in 1 .. Len(toHost') :
        i + b \in 1 .. Len(toHost) /\ toHost'[i] \subseteq toHost[i + b]
  BY DEF HostShrinks
<1>3. PICK c \in Nat : \A i \in 1 .. Len(queue') :
        i + c \in 1 .. Len(queue) /\ queue'[i] = queue[i + c]
  BY DEF QueueShrinks
<1>4. /\ Len(toNode) \in Nat /\ Len(toHost) \in Nat /\ Len(queue) \in Nat
      /\ Len(toNode') \in Nat /\ Len(toHost') \in Nat /\ Len(queue') \in Nat
  BY DEF Lengths
<1>5. \A S : AllIn(r, S) => AllIn(r, S)'
  <2> SUFFICES ASSUME NEW S, AllIn(r, S) PROVE AllIn(r, S)'
    OBVIOUS
  <2>1. \A i \in 1 .. Len(toNode') : Writes(toNode'[i], r) => At(toNode'[i], r) \in S
    BY <1>1 DEF AllIn
  <2>2. \A i \in 1 .. Len(toHost') : \A f \in toHost'[i] : Says(f, r) => At(f, r) \in S
    BY <1>2 DEF AllIn
  <2>3. \A i \in 1 .. Len(queue') : Says(queue'[i], r) => At(queue'[i], r) \in S
    BY <1>3 DEF AllIn
  <2> QED BY <2>1, <2>2, <2>3 DEF AllIn
<1>6. \A v : NewValue(r, v) => NewValue(r, v)'
  <2> SUFFICES ASSUME NEW v, NewValue(r, v) PROVE NewValue(r, v)'
    OBVIOUS
  <2>1. NodeHas(r, v) => NodeHas(r, v)'
    BY <1>1 DEF NodeHas
  <2>2. RegsHave(r, v) => RegsHave(r, v)'
    BY <2>1 DEF RegsHave
  <2>3. HostHas(r, v) => HostHas(r, v)'
    BY <1>2, <2>2 DEF HostHas
  <2>4. ASSUME NEW i \in 1 .. Len(toNode'), Writes(toNode'[i], r), At(toNode'[i], r) = v,
               NEW j \in i .. Len(toNode'), Writes(toNode'[j], r)
        PROVE  At(toNode'[j], r) = v
    <3>1. i + a \in 1 .. Len(toNode) /\ j \in 1 .. Len(toNode') /\ j + a \in i + a .. Len(toNode)
      BY <1>1, <1>4
    <3>2. /\ Writes(toNode[i + a], r) /\ At(toNode[i + a], r) = v
          /\ Writes(toNode[j + a], r) /\ At(toNode'[j], r) = At(toNode[j + a], r)
      BY <1>1, <2>4, <3>1
    <3>3. \A k \in i + a .. Len(toNode) : Writes(toNode[k], r) => At(toNode[k], r) = v
      BY <3>1, <3>2 DEF NewValue
    <3> QED BY <3>1, <3>2, <3>3
  <2>5. ASSUME NEW i \in 1 .. Len(toHost'), \E f \in toHost'[i] : Says(f, r) /\ At(f, r) = v
        PROVE  /\ RegsHave(r, v)'
               /\ \A j \in i .. Len(toHost') : \A f \in toHost'[j] : Says(f, r) => At(f, r) = v
    <3>1. i + b \in 1 .. Len(toHost) /\ \E f \in toHost[i + b] : Says(f, r) /\ At(f, r) = v
      BY <1>2, <2>5
    <3>2. /\ RegsHave(r, v)
          /\ \A j \in i + b .. Len(toHost) : \A f \in toHost[j] : Says(f, r) => At(f, r) = v
      BY <3>1 DEF NewValue
    <3>3. \A j \in i .. Len(toHost') : j \in 1 .. Len(toHost') /\ j + b \in i + b .. Len(toHost)
      BY <1>2, <1>4
    <3> QED BY <1>2, <2>2, <3>2, <3>3
  <2>6. ASSUME NEW i \in 1 .. Len(queue'), Says(queue'[i], r), At(queue'[i], r) = v
        PROVE  /\ HostHas(r, v)'
               /\ \A j \in i .. Len(queue') : Says(queue'[j], r) => At(queue'[j], r) = v
    <3>1. i + c \in 1 .. Len(queue) /\ Says(queue[i + c], r) /\ At(queue[i + c], r) = v
      BY <1>3, <2>6
    <3>2. /\ HostHas(r, v)
          /\ \A j \in i + c .. Len(queue) : Says(queue[j], r) => At(queue[j], r) = v
      BY <3>1 DEF NewValue
    <3>3. \A j \in i .. Len(queue') : j \in 1 .. Len(queue') /\ j + c \in i + c .. Len(queue)
      BY <1>3, <1>4
    <3> QED BY <1>3, <2>3, <3>2, <3>3
  <2>7. regs'[r] = v => NodeHas(r, v)'
    BY <2>1 DEF NewValue
  <2> QED BY <2>4, <2>5, <2>6, <2>7 DEF NewValue
<1> QED BY <1>5, <1>6

\* A frame joins the queue: one of the oldest reply, or no reply at all.
LEMMA JoinKeeps ==
  ASSUME Lengths, Lengths', HostShrinks, UNCHANGED <<regs, toNode>>, NEW r, NEW f,
         Own(f) => Len(toHost) >= 1 /\ f \in toHost[1],
         Len(queue') = Len(queue) + 1, queue'[Len(queue) + 1] = f,
         \A i \in 1 .. Len(queue) : queue'[i] = queue[i]
  PROVE  /\ \A S : AllIn(r, S) => AllIn(r, S)'
         /\ \A v : NewValue(r, v) => NewValue(r, v)'
<1>2. PICK b \in Nat : \A i \in 1 .. Len(toHost') :
        i + b \in 1 .. Len(toHost) /\ toHost'[i] \subseteq toHost[i + b]
  BY DEF HostShrinks
<1>3. \A i \in 1 .. Len(queue') : i \in 1 .. Len(queue) \/ i = Len(queue) + 1
  BY DEF Lengths
<1>4. /\ Len(toHost) \in Nat /\ Len(queue) \in Nat
      /\ Len(toHost') \in Nat /\ Len(queue') \in Nat
  BY DEF Lengths
<1>5. Says(f, r) => 1 \in 1 .. Len(toHost) /\ f \in toHost[1]
  BY <1>4 DEF Says
<1>6. \A S : AllIn(r, S) => AllIn(r, S)'
  <2> SUFFICES ASSUME NEW S, AllIn(r, S) PROVE AllIn(r, S)'
    OBVIOUS
  <2>1. \A i \in 1 .. Len(toHost') : \A g \in toHost'[i] : Says(g, r) => At(g, r) \in S
    BY <1>2 DEF AllIn
  <2>2. Says(f, r) => At(f, r) \in S
    BY <1>5 DEF AllIn
  <2>3. \A i \in 1 .. Len(queue') : Says(queue'[i], r) => At(queue'[i], r) \in S
    BY <1>3, <2>2 DEF AllIn
  <2> QED BY <2>1, <2>3 DEF AllIn
<1>7. \A v : NewValue(r, v) => NewValue(r, v)'
  <2> SUFFICES ASSUME NEW v, NewValue(r, v) PROVE NewValue(r, v)'
    OBVIOUS
  <2>1. (NodeHas(r, v) => NodeHas(r, v)') /\ (RegsHave(r, v) => RegsHave(r, v)')
    BY DEF NodeHas, RegsHave
  <2>2. HostHas(r, v) => HostHas(r, v)'
    BY <1>2, <2>1 DEF HostHas
  <2>3. ASSUME NEW i \in 1 .. Len(toHost'), \E g \in toHost'[i] : Says(g, r) /\ At(g, r) = v
        PROVE  /\ RegsHave(r, v)'
               /\ \A j \in i .. Len(toHost') : \A g \in toHost'[j] : Says(g, r) => At(g, r) = v
    <3>1. i + b \in 1 .. Len(toHost) /\ \E g \in toHost[i + b] : Says(g, r) /\ At(g, r) = v
      BY <1>2, <2>3
    <3>2. /\ RegsHave(r, v)
          /\ \A j \in i + b .. Len(toHost) : \A g \in toHost[j] : Says(g, r) => At(g, r) = v
      BY <3>1 DEF NewValue
    <3>3. \A j \in i .. Len(toHost') : j \in 1 .. Len(toHost') /\ j + b \in i + b .. Len(toHost)
      BY <1>2, <1>4
    <3> QED BY <1>2, <2>1, <3>2, <3>3
  <2>4. ASSUME Says(f, r), At(f, r) = v PROVE HostHas(r, v)
    <3>1. 1 \in 1 .. Len(toHost) /\ \E g \in toHost[1] : Says(g, r) /\ At(g, r) = v
      BY <1>5, <2>4
    <3> QED BY <3>1 DEF NewValue, HostHas
  <2>5. HostHas(r, v) /\ Says(f, r) => At(f, r) = v
    BY <1>5 DEF HostHas
  <2>6. ASSUME NEW i \in 1 .. Len(queue'), Says(queue'[i], r), At(queue'[i], r) = v
        PROVE  /\ HostHas(r, v)'
               /\ \A j \in i .. Len(queue') : Says(queue'[j], r) => At(queue'[j], r) = v
    <3>1. CASE i \in 1 .. Len(queue)
      <4>1. Says(queue[i], r) /\ At(queue[i], r) = v
        BY <2>6, <3>1
      <4>2. /\ HostHas(r, v)
            /\ \A j \in i .. Len(queue) : Says(queue[j], r) => At(queue[j], r) = v
        BY <3>1, <4>1 DEF NewValue
      <4>3. \A j \in i .. Len(queue') :
              \/ j \in i .. Len(queue) /\ queue'[j] = queue[j]
              \/ j = Len(queue) + 1
        BY <1>4, <3>1
      <4> QED BY <2>2, <2>5, <4>2, <4>3
    <3>2. CASE i = Len(queue) + 1
      <4>1. \A j \in i .. Len(queue') : j = Len(queue) + 1
        BY <1>4, <3>2
      <4> QED BY <2>2, <2>4, <2>6, <3>2, <4>1
    <3> QED BY <1>3, <3>1, <3>2
  <2> QED BY <2>1, <2>3, <2>6 DEF NewValue
<1> QED BY <1>6, <1>7

\* The host sends a request that does not write to r, or writes v.
LEMMA SendKeeps ==
  ASSUME Lengths, Lengths', HostShrinks, QueueShrinks, regs' = regs, NEW r, NEW q,
         Len(toNode') = Len(toNode) + 1, toNode'[Len(toNode) + 1] = q,
         \A i \in 1 .. Len(toNode) : toNode'[i] = toNode[i]
  PROVE  /\ \A S : AllIn(r, S) /\ (Writes(q, r) => At(q, r) \in S) => AllIn(r, S)'
         /\ \A v : NewValue(r, v) /\ (Writes(q, r) => At(q, r) = v) => NewValue(r, v)'
<1>1. PICK b \in Nat : \A i \in 1 .. Len(toHost') :
        i + b \in 1 .. Len(toHost) /\ toHost'[i] \subseteq toHost[i + b]
  BY DEF HostShrinks
<1>2. PICK c \in Nat : \A i \in 1 .. Len(queue') :
        i + c \in 1 .. Len(queue) /\ queue'[i] = queue[i + c]
  BY DEF QueueShrinks
<1>3. /\ Len(toNode) \in Nat /\ Len(toHost) \in Nat /\ Len(queue) \in Nat
      /\ Len(toNode') \in Nat /\ Len(toHost') \in Nat /\ Len(queue') \in Nat
  BY DEF Lengths
<1>4. \A i \in 1 .. Len(toNode') : i \in 1 .. Len(toNode) \/ i = Len(toNode) + 1
  BY <1>3
<1>5. \A S : AllIn(r, S) /\ (Writes(q, r) => At(q, r) \in S) => AllIn(r, S)'
  <2> SUFFICES ASSUME NEW S, AllIn(r, S), Writes(q, r) => At(q, r) \in S PROVE AllIn(r, S)'
    OBVIOUS
  <2>1. \A i \in 1 .. Len(toNode') : Writes(toNode'[i], r) => At(toNode'[i], r) \in S
    BY <1>4 DEF AllIn
  <2>2. \A i \in 1 .. Len(toHost') : \A f \in toHost'[i] : Says(f, r) => At(f, r) \in S
    BY <1>1 DEF AllIn
  <2>3. \A i \in 1 .. Len(queue') : Says(queue'[i], r) => At(queue'[i], r) \in S
    BY <1>2 DEF AllIn
  <2> QED BY <2>1, <2>2, <2>3 DEF AllIn
<1>6. \A v : NewValue(r, v) /\ (Writes(q, r) => At(q, r) = v) => NewValue(r, v)'
  <2> SUFFICES ASSUME NEW v, NewValue(r, v), Writes(q, r) => At(q, r) = v PROVE NewValue(r, v)'
    OBVIOUS
  <2>1. NodeHas(r, v) => NodeHas(r, v)'
    BY <1>4 DEF NodeHas
  <2>2. RegsHave(r, v) => RegsHave(r, v)'
    BY <2>1 DEF RegsHave
  <2>3. HostHas(r, v) => HostHas(r, v)'
    BY <1>1, <2>2 DEF HostHas
  <2>4. ASSUME NEW i \in 1 .. Len(toNode'), Writes(toNode'[i], r), At(toNode'[i], r) = v,
               NEW j \in i .. Len(toNode'), Writes(toNode'[j], r)
        PROVE  At(toNode'[j], r) = v
    <3>1. CASE j = Len(toNode) + 1
      BY <2>4, <3>1
    <3>2. CASE j # Len(toNode) + 1
      <4>1. i \in 1 .. Len(toNode) /\ j \in 1 .. Len(toNode) /\ j \in i .. Len(toNode)
        BY <1>3, <3>2
      <4> QED BY <2>4, <4>1 DEF NewValue
    <3> QED BY <3>1, <3>2
  <2>5. ASSUME NEW i \in 1 .. Len(toHost'), \E f \in toHost'[i] : Says(f, r) /\ At(f, r) = v
        PROVE  /\ RegsHave(r, v)'
               /\ \A j \in i .. Len(toHost') : \A f \in toHost'[j] : Says(f, r) => At(f, r) = v
    <3>1. i + b \in 1 .. Len(toHost) /\ \E f \in toHost[i + b] : Says(f, r) /\ At(f, r) = v
      BY <1>1, <2>5
    <3>2. /\ RegsHave(r, v)
          /\ \A j \in i + b .. Len(toHost) : \A f \in toHost[j] : Says(f, r) => At(f, r) = v
      BY <3>1 DEF NewValue
    <3>3. \A j \in i .. Len(toHost') : j \in 1 .. Len(toHost') /\ j + b \in i + b .. Len(toHost)
      BY <1>1, <1>3
    <3> QED BY <1>1, <2>2, <3>2, <3>3
  <2>6. ASSUME NEW i \in 1 .. Len(queue'), Says(queue'[i], r), At(queue'[i], r) = v
        PROVE  /\ HostHas(r, v)'
               /\ \A j \in i .. Len(queue') : Says(queue'[j], r) => At(queue'[j], r) = v
    <3>1. i + c \in 1 .. Len(queue) /\ Says(queue[i + c], r) /\ At(queue[i + c], r) = v
      BY <1>2, <2>6
    <3>2. /\ HostHas(r, v)
          /\ \A j \in i + c .. Len(queue) : Says(queue[j], r) => At(queue[j], r) = v
      BY <3>1 DEF NewValue
    <3>3. \A j \in i .. Len(queue') : j \in 1 .. Len(queue') /\ j + c \in i + c .. Len(queue)
      BY <1>2, <1>3
    <3> QED BY <1>2, <2>3, <3>2, <3>3
  <2>7. regs'[r] = v => NodeHas(r, v)'
    BY <2>1 DEF NewValue
  <2> QED BY <2>4, <2>5, <2>6, <2>7 DEF NewValue
<1> QED BY <1>5, <1>6

\* A value nothing on the line has is a new one.
LEMMA UnknownIsNew ==
  ASSUME NEW r, NEW S, NEW v, AllIn(r, S), v \notin S
  PROVE  NewValue(r, v)
BY DEF AllIn, NewValue

\* The node takes a request and answers with what the registers hold then.
LEMMA AnswerKeeps ==
  ASSUME Lengths, Lengths', queue' = queue, NEW r, NEW q, NEW F,
         Len(toNode) >= 1, toNode[1] = q, Len(toNode') = Len(toNode) - 1,
         \A i \in 1 .. Len(toNode) - 1 : toNode'[i] = toNode[i + 1],
         Len(toHost') = Len(toHost) + 1, toHost'[Len(toHost) + 1] = F,
         \A i \in 1 .. Len(toHost) : toHost'[i] = toHost[i],
         regs'[r] = IF Writes(q, r) THEN At(q, r) ELSE regs[r],
         \A f \in F : Says(f, r) => At(f, r) = regs'[r]
  PROVE  /\ \A S : AllIn(r, S) => AllIn(r, S)'
         /\ \A v : NewValue(r, v) => NewValue(r, v)'
<1>1. /\ Len(toNode) \in Nat /\ Len(toHost) \in Nat /\ Len(queue) \in Nat
      /\ Len(toNode') \in Nat /\ Len(toHost') \in Nat
  BY DEF Lengths
<1>2. /\ 1 \in 1 .. Len(toNode)
      /\ \A i \in 1 .. Len(toNode') : i + 1 \in 1 .. Len(toNode) /\ toNode'[i] = toNode[i + 1]
  BY <1>1
<1>3. \A i \in 1 .. Len(toHost') : i \in 1 .. Len(toHost) \/ i = Len(toHost) + 1
  BY <1>1
<1>4. \A S : AllIn(r, S) => AllIn(r, S)'
  <2> SUFFICES ASSUME NEW S, AllIn(r, S) PROVE AllIn(r, S)'
    OBVIOUS
  <2>1. regs'[r] \in S
    BY <1>2 DEF AllIn
  <2>2. \A i \in 1 .. Len(toNode') : Writes(toNode'[i], r) => At(toNode'[i], r) \in S
    BY <1>2 DEF AllIn
  <2>3. \A i \in 1 .. Len(toHost') : \A f \in toHost'[i] : Says(f, r) => At(f, r) \in S
    BY <1>3, <2>1 DEF AllIn
  <2> QED BY <2>1, <2>2, <2>3 DEF AllIn
<1>5. \A v : NewValue(r, v) => NewValue(r, v)'
  <2> SUFFICES ASSUME NEW v, NewValue(r, v) PROVE NewValue(r, v)'
    OBVIOUS
  <2>1. NodeHas(r, v) => NodeHas(r, v)'
    BY <1>2 DEF NodeHas
  <2>2. RegsHave(r, v) => RegsHave(r, v)'
    <3>1. NodeHas(r, v) /\ Writes(q, r) => At(q, r) = v
      BY <1>2 DEF NodeHas
    <3> QED BY <2>1, <3>1 DEF RegsHave
  <2>3. regs'[r] = v => NodeHas(r, v)'
    <3>1. CASE Writes(q, r) /\ At(q, r) = v
      <4>1. \A j \in 1 .. Len(toNode) : Writes(toNode[j], r) => At(toNode[j], r) = v
        BY <1>2, <3>1 DEF NewValue
      <4> QED BY <2>1, <4>1 DEF NodeHas
    <3>2. CASE regs[r] = v
      BY <2>1, <3>2 DEF NewValue
    <3> QED BY <3>1, <3>2
  <2>4. ASSUME NEW i \in 1 .. Len(toNode'), Writes(toNode'[i], r), At(toNode'[i], r) = v,
               NEW j \in i .. Len(toNode'), Writes(toNode'[j], r)
        PROVE  At(toNode'[j], r) = v
    <3>1. i + 1 \in 1 .. Len(toNode) /\ j \in 1 .. Len(toNode') /\ j + 1 \in i + 1 .. Len(toNode)
      BY <1>1
    <3>2. i + 1 \in 1 .. Len(toNode) /\ j + 1 \in i + 1 .. Len(toNode)
      BY <3>1
    <3>3. /\ Writes(toNode[i + 1], r) /\ At(toNode[i + 1], r) = v
          /\ Writes(toNode[j + 1], r) /\ At(toNode'[j], r) = At(toNode[j + 1], r)
      BY <1>2, <2>4, <3>1
    <3> QED BY <3>2, <3>3 DEF NewValue
  <2>5. ASSUME RegsHave(r, v), NEW f \in F, Says(f, r) PROVE At(f, r) = v
    BY <2>2, <2>5 DEF RegsHave
  <2>6. ASSUME NEW i \in 1 .. Len(toHost'), \E f \in toHost'[i] : Says(f, r) /\ At(f, r) = v
        PROVE  /\ RegsHave(r, v)'
               /\ \A j \in i .. Len(toHost') : \A f \in toHost'[j] : Says(f, r) => At(f, r) = v
    <3>1. CASE i \in 1 .. Len(toHost)
      <4>1. /\ RegsHave(r, v)
            /\ \A j \in i .. Len(toHost) : \A f \in toHost[j] : Says(f, r) => At(f, r) = v
        BY <2>6, <3>1 DEF NewValue
      <4>2. \A j \in i .. Len(toHost') :
              \/ j \in i .. Len(toHost) /\ toHost'[j] = toHost[j]
              \/ toHost'[j] = F
        <5> SUFFICES ASSUME NEW j \in i .. Len(toHost')
                     PROVE  \/ j \in i .. Len(toHost) /\ toHost'[j] = toHost[j]
                            \/ toHost'[j] = F
          OBVIOUS
        <5>1. CASE j = Len(toHost) + 1
          BY <5>1
        <5>2. CASE j # Len(toHost) + 1
          <6>1. Len(toHost) \in Nat /\ j \in i .. Len(toHost) + 1
            BY <1>1
          <6>2. j \in 1 .. Len(toHost) /\ j \in i .. Len(toHost)
            BY <3>1, <5>2, <6>1, InPrefix
          <6> QED BY <6>2
        <5> QED BY <5>1, <5>2
      <4> QED BY <2>2, <2>5, <4>1, <4>2
    <3>2. CASE i = Len(toHost) + 1
      <4>1. regs'[r] = v
        BY <2>6, <3>2
      <4>2. \A j \in i .. Len(toHost') : toHost'[j] = F
        BY <1>1, <3>2
      <4> QED BY <2>3, <4>1, <4>2 DEF RegsHave
    <3> QED BY <1>3, <3>1, <3>2
  <2>7. HostHas(r, v) => HostHas(r, v)'
    <3>1. HostHas(r, v) => RegsHave(r, v)
      BY DEF HostHas
    <3>2. HostHas(r, v) =>
            \A i \in 1 .. Len(toHost') : \A f \in toHost'[i] : Says(f, r) => At(f, r) = v
      BY <1>3, <2>5, <3>1 DEF HostHas
    <3> QED BY <2>2, <3>1, <3>2 DEF HostHas
  <2>8. \A i \in 1 .. Len(queue) : Says(queue[i], r) /\ At(queue[i], r) = v =>
          /\ HostHas(r, v)
          /\ \A j \in i .. Len(queue) : Says(queue[j], r) => At(queue[j], r) = v
    BY DEF NewValue
  <2> QED BY <2>3, <2>4, <2>6, <2>7, <2>8 DEF NewValue
<1> QED BY <1>4, <1>5
-----------------------------------------------------------------------------
(* The steps of the node and of the network.                                *)

\* What the line from the requests to the queue says of r stays said.
LineKeeps == \A r \in Offsets : /\ \A S : AllIn(r, S) => AllIn(r, S)'
                                /\ \A v : NewValue(r, v) => NewValue(r, v)'

\* A set that holds the values of a register before a step and after it.
LEMMA PossibleStays ==
  ASSUME NEW r \in Offsets, PossibleInv, LineKeeps, possible'[r] = possible[r]
  PROVE  AllIn(r, possible[r])'
<1>1. AllIn(r, possible[r])
  BY DEF PossibleInv
<1>2. PICK S : S = possible[r]
  OBVIOUS
<1>3. AllIn(r, S)'
  BY <1>1, <1>2 DEF LineKeeps
<1> QED BY <1>2, <1>3 DEF AllIn

\* What FreshInv says of one register.
IsFresh(r) == \/ \E v \in Values : possible[r] = {v}
              \/ Unconfirmed(r) /\ NewValue(r, Sent(r))

\* A register is fresh when it has one value, or the new one.
LEMMA FreshIs ==
  ASSUME NEW r, NEW v, Unconfirmed(r)', v = Sent(r)', NewValue(r, v)'
  PROVE  IsFresh(r)'
BY DEF IsFresh, NewValue, NodeHas, RegsHave, HostHas

\* A register that is fresh stays it when its value is new.
LEMMA FreshStays ==
  ASSUME NEW r \in Offsets, LineKeeps, possible'[r] = possible[r],
         UNCHANGED call, r \in DOMAIN want /\ Unconfirmed(r) => r \in DOMAIN want' /\ want'[r] = want[r],
         IsFresh(r)
  PROVE  IsFresh(r)'
<1>1. CASE \E v \in Values : possible[r] = {v}
  BY <1>1 DEF IsFresh
<1>2. CASE Unconfirmed(r) /\ NewValue(r, Sent(r))
  <2>1. PICK v : v = Sent(r)
    OBVIOUS
  <2>2. NewValue(r, v)'
    BY <1>2, <2>1 DEF LineKeeps
  <2>3. Unconfirmed(r)' /\ v = Sent(r)'
    BY <1>2, <2>1 DEF Unconfirmed, Sent
  <2> QED BY <2>2, <2>3, FreshIs
<1> QED BY <1>1, <1>2 DEF IsFresh

\* A step of the node or the network leaves the host as it is.
LEMMA NetworkKeeps ==
  ASSUME IInv, LineKeeps, UNCHANGED hostKeeps
  PROVE  PossibleInv' /\ FreshInv' /\ CallInv' /\ CallOK' /\ FlagsOK' /\ HistoryOK'
<1> USE DEF IInv, TypeOK
<1>1. PossibleInv'
  <2> SUFFICES ASSUME NEW r \in Offsets PROVE AllIn(r, possible[r])'
    BY DEF PossibleInv
  <2> QED BY PossibleStays
<1>2. FreshInv'
  <2> SUFFICES ASSUME NEW r \in fresh PROVE IsFresh(r)'
    BY DEF FreshInv, IsFresh
  <2>1. r \in Offsets /\ IsFresh(r)
    BY DEF FreshInv, IsFresh, HistoryOK
  <2> QED BY <2>1, FreshStays
<1>3. CallInv'
  BY DEF CallInv
<1>4. CallOK'
  BY DEF CallOK
<1>5. FlagsOK'
  BY DEF FlagsOK
<1>6. HistoryOK'
  BY DEF HistoryOK
<1> QED BY <1>1, <1>2, <1>3, <1>4, <1>5, <1>6

\* A block read stays alone on a line of which some is left.
LEMMA BlockKeeps ==
  ASSUME BlockInv, NodeShrinks, HostShrinks, QueueShrinks, UNCHANGED <<call, left, got>>,
         alone' => alone, outcome' = "ok" => outcome = "ok" \/ call.kind # "readBlock"
  PROVE  BlockInv'
<1>1. PICK a \in Nat : \A i \in 1 .. Len(toNode') :
        i + a \in 1 .. Len(toNode) /\ toNode'[i] = toNode[i + a]
  BY DEF NodeShrinks
<1>2. PICK b \in Nat : \A i \in 1 .. Len(toHost') :
        i + b \in 1 .. Len(toHost) /\ toHost'[i] \subseteq toHost[i + b]
  BY DEF HostShrinks
<1>3. PICK c \in Nat : \A i \in 1 .. Len(queue') :
        i + c \in 1 .. Len(queue) /\ queue'[i] = queue[i + c]
  BY DEF QueueShrinks
<1> SUFFICES ASSUME call.kind = "readBlock", call.count # 0
             PROVE  /\ left \subseteq Indices(call.count) /\ (outcome' = "ok" => left = {})
                    /\ alone' =>
                       /\ \A i \in 1 .. Len(toNode') : toNode'[i] = Read(call.off, call.count)
                       /\ \A i \in 1 .. Len(toHost') : \A f \in toHost'[i] : OfBlock(f)
                       /\ \A i \in 1 .. Len(queue') : Own(queue'[i]) => OfBlock(queue'[i])
                       /\ DOMAIN got = UNION {Part(i) : i \in Indices(call.count) \ left}
  BY DEF BlockInv, OfBlock, Part
<1>4. left \subseteq Indices(call.count) /\ (outcome' = "ok" => left = {})
  BY DEF BlockInv
<1> SUFFICES ASSUME alone'
             PROVE  /\ \A i \in 1 .. Len(toNode') : toNode'[i] = Read(call.off, call.count)
                    /\ \A i \in 1 .. Len(toHost') : \A f \in toHost'[i] : OfBlock(f)
                    /\ \A i \in 1 .. Len(queue') : Own(queue'[i]) => OfBlock(queue'[i])
                    /\ DOMAIN got = UNION {Part(i) : i \in Indices(call.count) \ left}
  BY <1>4
<1>5. \A i \in 1 .. Len(toNode') : toNode'[i] = Read(call.off, call.count)
  BY <1>1 DEF BlockInv
<1>6. \A i \in 1 .. Len(toHost') : \A f \in toHost'[i] : OfBlock(f)
  BY <1>2 DEF BlockInv
<1>7. \A i \in 1 .. Len(queue') : Own(queue'[i]) => OfBlock(queue'[i])
  BY <1>3 DEF BlockInv
<1>8. DOMAIN got = UNION {Part(i) : i \in Indices(call.count) \ left}
  BY DEF BlockInv
<1> QED BY <1>5, <1>6, <1>7, <1>8

\* A frame leaves the oldest reply.
LEMMA LeavesFacts ==
  ASSUME WayOK, toHost # <<>>, NEW f \in Head(toHost), Leaves(f)
  PROVE  /\ toHost' \in Seq(SUBSET FrameSet) /\ HostShrinks
         /\ Len(toHost) >= 1 /\ f \in toHost[1] /\ f \in FrameSet
<1> DEFINE S == SUBSET FrameSet
           s == Head(toHost) \ {f}
<1>1. toHost \in Seq(S)
  BY DEF WayOK
<1>2. \A x : x \in S => x \ {f} \in S
  OBVIOUS
<1> HIDE DEF S
<1>3. Len(toHost) \in Nat /\ Len(toHost) >= 1 /\ Head(toHost) = toHost[1] /\ Head(toHost) \in S
  BY <1>1, Popped
<1>4. s \in S /\ s \subseteq toHost[1]
  BY <1>2, <1>3
<1>5. CASE s = {}
  <2>1. toHost' = Tail(toHost)
    BY <1>5 DEF Leaves
  <2>2. toHost' \in Seq(S)
    BY <1>1, <2>1, Popped
  <2> QED BY <1>3, <2>1, <2>2, ShrinkFacts DEF S
<1>6. CASE s # {}
  <2>1. toHost' = [toHost EXCEPT ![1] = s]
    BY <1>6 DEF Leaves
  <2> HIDE DEF s
  <2>2. toHost' \in Seq(S) /\ Len(toHost') = Len(toHost)
    BY <1>1, <1>3, <1>4, <2>1
  <2>3. \A i \in 1 .. Len(toHost) : toHost'[i] = IF i = 1 THEN s ELSE toHost[i]
    BY <1>1, <2>1
  <2>4. \A i \in 1 .. Len(toHost') : i + 0 \in 1 .. Len(toHost) /\ toHost'[i] \subseteq toHost[i + 0]
    BY <1>4, <2>2, <2>3
  <2>5. HostShrinks
    BY <2>4 DEF HostShrinks
  <2> QED BY <1>3, <2>2, <2>5 DEF S
<1> QED BY <1>5, <1>6

\* The lengths of a line that has its type.
LEMMA LengthsAre == (WayOK => Lengths) /\ (WayOK' => Lengths')
<1>1. WayOK => Lengths
  BY DEF WayOK, Lengths
<1>2. WayOK' => Lengths'
  BY DEF WayOK, Lengths
<1> QED BY <1>1, <1>2

\* Requests and frames are lost.
LEMMA LostKeeps ==
  ASSUME IInv, Lost
  PROVE  IInv'
<1> USE DEF IInv, TypeOK
<1>1. /\ toNode' \in Seq(RequestSet) /\ toHost' \in Seq(SUBSET FrameSet)
      /\ NodeShrinks /\ HostShrinks /\ QueueShrinks
  <2>1. CASE toNode # <<>> /\ toNode' = Tail(toNode) /\ UNCHANGED toHost
    <3>1. toNode \in Seq(RequestSet)
      BY DEF WayOK
    <3>2. toNode' \in Seq(RequestSet)
      BY <2>1, <3>1, Popped
    <3> QED BY <2>1, <3>2, ShrinkFacts DEF Lost, WayOK
  <2>2. CASE toHost # <<>> /\ (\E f \in Head(toHost) : Leaves(f)) /\ UNCHANGED toNode
    <3>1. toHost' \in Seq(SUBSET FrameSet) /\ HostShrinks
      BY <2>2, LeavesFacts
    <3> QED BY <2>2, <3>1, ShrinkFacts DEF Lost, WayOK
  <2> QED BY <2>1, <2>2 DEF Lost
<1>2. WayOK'
  BY <1>1 DEF WayOK, Lost
<1>3. LineKeeps
  <2>1. Lengths /\ Lengths' /\ regs' = regs
    BY <1>2, LengthsAre DEF Lost
  <2> QED BY <1>1, <2>1, ShrinkKeeps DEF LineKeeps
<1>4. UNCHANGED hostKeeps
  BY DEF Lost
<1>5. BlockInv'
  BY <1>1, <1>4, BlockKeeps
<1>6. CountersOK'
  BY DEF CountersOK, Lost
<1> QED BY <1>2, <1>3, <1>4, <1>5, <1>6, NetworkKeeps

\* A frame joins the queue, of the reply that is the oldest or of no reply.
LEMMA QueueJoins ==
  ASSUME IInv, HostShrinks, UNCHANGED <<regs, toNode, hostKeeps>>, NEW f \in FrameSet,
         queue' = Append(queue, f), toHost' \in Seq(SUBSET FrameSet),
         Own(f) => Len(toHost) >= 1 /\ f \in toHost[1]
  PROVE  WayOK' /\ LineKeeps /\ BlockInv'
<1> USE DEF IInv, TypeOK
<1>1. queue \in Seq(FrameSet)
  BY DEF WayOK
<1>2. /\ queue' \in Seq(FrameSet) /\ Len(queue) \in Nat /\ Len(queue') = Len(queue) + 1
      /\ \A i \in 1 .. Len(queue) : queue'[i] = queue[i]
      /\ queue'[Len(queue) + 1] = f
  BY <1>1, Appended
<1>3. WayOK'
  BY <1>2 DEF WayOK
<1>4. Lengths /\ Lengths'
  BY <1>3, LengthsAre
<1>5. LineKeeps
  BY <1>2, <1>4, JoinKeeps DEF LineKeeps
<1>6. BlockInv'
  <2>1. PICK b \in Nat : \A i \in 1 .. Len(toHost') :
          i + b \in 1 .. Len(toHost) /\ toHost'[i] \subseteq toHost[i + b]
    BY DEF HostShrinks
  <2> SUFFICES ASSUME call.kind = "readBlock", call.count # 0, alone
               PROVE  /\ \A i \in 1 .. Len(toHost') : \A g \in toHost'[i] : OfBlock(g)
                      /\ \A i \in 1 .. Len(queue') : Own(queue'[i]) => OfBlock(queue'[i])
    BY DEF BlockInv, OfBlock, Part
  <2>2. \A i \in 1 .. Len(toHost') : \A g \in toHost'[i] : OfBlock(g)
    BY <2>1 DEF BlockInv
  <2>3. Own(f) => OfBlock(f)
    <3>1. Own(f) => 1 \in 1 .. Len(toHost) /\ f \in toHost[1]
      BY <1>4 DEF Lengths
    <3> QED BY <3>1 DEF BlockInv
  <2>4. \A i \in 1 .. Len(queue') : i \in 1 .. Len(queue) \/ i = Len(queue) + 1
    BY <1>2
  <2>5. \A i \in 1 .. Len(queue') : Own(queue'[i]) => OfBlock(queue'[i])
    BY <1>2, <2>3, <2>4 DEF BlockInv
  <2> QED BY <2>2, <2>5
<1> QED BY <1>3, <1>5, <1>6

\* A frame of the oldest reply arrives.
LEMMA DeliverKeeps ==
  ASSUME IInv, Deliver
  PROVE  IInv'
<1> USE DEF IInv, TypeOK
<1>1. PICK f \in Head(toHost) : Leaves(f) /\ queue' = Append(queue, f)
  BY DEF Deliver
<1>2. /\ toHost' \in Seq(SUBSET FrameSet) /\ HostShrinks
      /\ Len(toHost) >= 1 /\ f \in toHost[1] /\ f \in FrameSet
  BY <1>1, LeavesFacts DEF Deliver
<1>3. UNCHANGED <<regs, toNode, hostKeeps>>
  BY DEF Deliver
<1>4. WayOK' /\ LineKeeps /\ BlockInv'
  BY <1>1, <1>2, <1>3, QueueJoins
<1>5. CountersOK'
  BY DEF CountersOK, Deliver
<1> QED BY <1>3, <1>4, <1>5, NetworkKeeps

\* An event of others arrives.
LEMMA OtherEventKeeps ==
  ASSUME IInv, OtherEvent
  PROVE  IInv'
<1> USE DEF IInv, TypeOK
<1>1. PICK f \in Foreign : queue' = Append(queue, f)
  BY DEF OtherEvent
<1>2. /\ UNCHANGED <<regs, toNode, hostKeeps>> /\ f \in FrameSet /\ ~Own(f)
      /\ toHost' \in Seq(SUBSET FrameSet) /\ HostShrinks
  BY RegistersAssumption, ShrinkFacts DEF OtherEvent, WayOK
<1>3. WayOK' /\ LineKeeps /\ BlockInv'
  BY <1>1, <1>2, QueueJoins
<1>4. CountersOK'
  BY DEF CountersOK, OtherEvent
<1> QED BY <1>2, <1>3, <1>4, NetworkKeeps

\* The node ignores an event that is no request.
LEMMA NodeIgnores ==
  ASSUME IInv, NodeAnswers, Head(toNode).kind = "event"
  PROVE  IInv'
<1> USE DEF IInv, TypeOK
<1>1. /\ toNode # <<>> /\ toNode' = Tail(toNode)
      /\ UNCHANGED <<regs, toHost, queue, hostKeeps, lost, noise>>
  BY DEF NodeAnswers
<1>2. toNode \in Seq(RequestSet)
  BY DEF WayOK
<1>3. toNode' \in Seq(RequestSet)
  BY <1>1, <1>2, Popped
<1>4. WayOK'
  BY <1>1, <1>3 DEF WayOK
<1>5. Lengths /\ Lengths' /\ NodeShrinks /\ HostShrinks /\ QueueShrinks /\ regs' = regs
  BY <1>1, <1>4, LengthsAre, ShrinkFacts
<1>6. LineKeeps
  BY <1>5, ShrinkKeeps DEF LineKeeps
<1>7. BlockInv'
  BY <1>1, <1>5, BlockKeeps
<1>8. CountersOK'
  BY <1>1 DEF CountersOK
<1> QED BY <1>1, <1>4, <1>6, <1>7, <1>8, NetworkKeeps

\* The node answers a request.
LEMMA NodeReplies ==
  ASSUME IInv, NodeAnswers, Head(toNode).kind # "event"
  PROVE  IInv'
<1> USE DEF IInv, TypeOK
<1>1. toNode \in Seq(RequestSet) /\ toNode # <<>> /\ toNode' = Tail(toNode)
  BY DEF WayOK, NodeAnswers
<1>2. PICK q : q = Head(toNode)
  OBVIOUS
<1>3. /\ toNode' \in Seq(RequestSet) /\ Len(toNode) \in Nat /\ Len(toNode) >= 1
      /\ Len(toNode') = Len(toNode) - 1
      /\ \A i \in 1 .. Len(toNode) - 1 : toNode'[i] = toNode[i + 1]
      /\ toNode[1] = q /\ q \in RequestSet
  BY <1>1, <1>2, Popped
<1>4. \E F \in SUBSET FrameSet :
        /\ toHost' = Append(toHost, F) /\ regs' \in [Offsets -> Values]
        /\ \A r \in Offsets : /\ regs'[r] = IF Writes(q, r) THEN At(q, r) ELSE regs[r]
                              /\ \A f \in F : Says(f, r) => At(f, r) = regs'[r]
        /\ call.kind = "readBlock" /\ call.count # 0 /\ alone => \A f \in F : OfBlock(f)
  <2>0. regs \in [Offsets -> Values]
    BY DEF WayOK
  <2>1. CASE q.kind = "read"
    <3> DEFINE n == Registers(q.count)
               F == FramesOf(q.off, n, regs)
    <3>1. toHost' = Append(toHost, F) /\ regs' = regs
      BY <1>2, <2>1 DEF NodeAnswers
    <3>2. q.off \in Offsets /\ n \in Nat /\ n > 0 /\ q.off + n - 1 \in Offsets
      BY <1>3, <2>1, SomeRegisters DEF RequestSet
    <3> HIDE DEF n
    <3>3. \A f \in F : /\ f \in FrameSet /\ Own(f) /\ f.index \in Indices(n)
                       /\ Covers(f) = q.off + f.index * Chunk
                                      .. q.off + f.index * Chunk + Size(n, f.index) - 1
                       /\ \A r \in Covers(f) : At(f, r) = regs[r]
      BY <2>0, <3>2, FramesAre
    <3> HIDE DEF F
    <3>4. \A r \in Offsets : /\ regs'[r] = IF Writes(q, r) THEN At(q, r) ELSE regs[r]
                             /\ \A f \in F : Says(f, r) => At(f, r) = regs'[r]
      BY <2>1, <3>1, <3>3 DEF Writes, Says
    <3>5. ASSUME call.kind = "readBlock", call.count # 0, alone, NEW f \in F PROVE OfBlock(f)
      <4>1. 1 \in 1 .. Len(toNode)
        BY <1>3
      <4>2. q = Read(call.off, call.count)
        BY <1>3, <3>5, <4>1 DEF BlockInv
      <4>3. q.off = call.off /\ n = call.count
        BY <3>5, <4>2 DEF Read, Registers, n
      <4> QED BY <3>3, <4>3 DEF OfBlock, Part
    <3>6. F \in SUBSET FrameSet
      BY <3>3
    <3> QED BY <2>0, <3>1, <3>4, <3>5, <3>6
  <2>2. CASE q.kind = "write"
    <3> DEFINE g == Frame(0, q.off, q.data)
    <3>1. /\ toHost' = Append(toHost, {g})
          /\ regs' = [r \in Offsets |-> IF r \in Covers(q) THEN At(q, r) ELSE regs[r]]
      BY <1>2, <2>2 DEF NodeAnswers
    <3>2. /\ q.off \in Offsets /\ q.data \in Seq(Values) /\ Len(q.data) > 0
          /\ Covers(q) \subseteq Offsets
      BY <1>3, <2>2 DEF RequestSet
    <3>3. g.off = q.off /\ g.data = q.data /\ g.index = 0
      BY DEF Frame
    <3>4. Covers(g) = Covers(q) /\ \A r : At(g, r) = At(q, r)
      BY <3>3 DEF Covers, At
    <3>5. g \in FrameSet
      <4>1. g \in [node : {"this", "other"}, page : {"this", "other"}, index : Nat, off : Offsets,
                  data : Seq(Values)]
        BY <3>2 DEF Frame
      <4> QED BY <3>2, <3>3, <3>4, <4>1 DEF FrameSet
    <3> HIDE DEF g
    <3>6. \A r \in Covers(q) : At(q, r) \in Values
      <4>1. q.off \in Nat /\ Len(q.data) \in Nat
        <5>1. Len(q.data) \in Nat
          BY <3>2
        <5> QED BY <3>2, <5>1, OffsetsInterval
      <4>2. \A r \in Covers(q) : r - q.off + 1 \in 1 .. Len(q.data)
        BY <4>1 DEF Covers
      <4> QED BY <3>2, <4>2 DEF At
    <3>7. regs' \in [Offsets -> Values]
      BY <2>0, <3>1, <3>6
    <3>8. \A r \in Offsets : /\ regs'[r] = IF Writes(q, r) THEN At(q, r) ELSE regs[r]
                             /\ \A f \in {g} : Says(f, r) => At(f, r) = regs'[r]
      BY <2>2, <3>1, <3>4 DEF Writes, Says
    <3>9. ~(call.kind = "readBlock" /\ call.count # 0 /\ alone)
      <4>1. 1 \in 1 .. Len(toNode)
        BY <1>3
      <4>2. call.kind = "readBlock" /\ call.count # 0 /\ alone => q = Read(call.off, call.count)
        BY <1>3, <4>1 DEF BlockInv
      <4> QED BY <2>2, <4>2 DEF Read
    <3>10. {g} \in SUBSET FrameSet
      BY <3>5
    <3> QED BY <3>1, <3>7, <3>8, <3>9, <3>10
  <2> QED BY <1>2, <1>3, <2>1, <2>2 DEF RequestSet
<1>5. PICK F \in SUBSET FrameSet :
        /\ toHost' = Append(toHost, F) /\ regs' \in [Offsets -> Values]
        /\ \A r \in Offsets : /\ regs'[r] = IF Writes(q, r) THEN At(q, r) ELSE regs[r]
                              /\ \A f \in F : Says(f, r) => At(f, r) = regs'[r]
        /\ call.kind = "readBlock" /\ call.count # 0 /\ alone => \A f \in F : OfBlock(f)
  BY <1>4
<1>6. /\ toHost' \in Seq(SUBSET FrameSet) /\ Len(toHost) \in Nat /\ Len(toHost') = Len(toHost) + 1
      /\ \A i \in 1 .. Len(toHost) : toHost'[i] = toHost[i]
      /\ toHost'[Len(toHost) + 1] = F
  <2> DEFINE S == SUBSET FrameSet
  <2>1. toHost \in Seq(S) /\ F \in S
    BY DEF WayOK
  <2> HIDE DEF S
  <2>2. /\ toHost' \in Seq(S) /\ Len(toHost) \in Nat /\ Len(toHost') = Len(toHost) + 1
        /\ \A i \in 1 .. Len(toHost) : toHost'[i] = toHost[i]
        /\ toHost'[Len(toHost) + 1] = F
    BY <1>5, <2>1, Appended
  <2> QED BY <2>2 DEF S
<1>7. UNCHANGED hostKeeps /\ queue' = queue
  BY DEF NodeAnswers
<1>8. WayOK'
  BY <1>3, <1>5, <1>6, <1>7 DEF WayOK
<1>9. LineKeeps
  <2> SUFFICES ASSUME NEW r \in Offsets
               PROVE  /\ \A S : AllIn(r, S) => AllIn(r, S)'
                      /\ \A v : NewValue(r, v) => NewValue(r, v)'
    BY DEF LineKeeps
  <2>1. Lengths /\ Lengths'
    BY <1>8, LengthsAre
  <2>2. /\ regs'[r] = IF Writes(q, r) THEN At(q, r) ELSE regs[r]
        /\ \A f \in F : Says(f, r) => At(f, r) = regs'[r]
    BY <1>5
  <2> QED BY <1>3, <1>6, <1>7, <2>1, <2>2, AnswerKeeps
<1>10. BlockInv'
  <2> SUFFICES ASSUME call.kind = "readBlock", call.count # 0, alone
               PROVE  /\ \A i \in 1 .. Len(toNode') : toNode'[i] = Read(call.off, call.count)
                      /\ \A i \in 1 .. Len(toHost') : \A f \in toHost'[i] : OfBlock(f)
    BY <1>7 DEF BlockInv, OfBlock, Part
  <2>1. \A i \in 1 .. Len(toNode') : i + 1 \in 1 .. Len(toNode) /\ toNode'[i] = toNode[i + 1]
    BY <1>3
  <2>2. \A i \in 1 .. Len(toHost') : i \in 1 .. Len(toHost) \/ i = Len(toHost) + 1
    BY <1>6
  <2>3. \A i \in 1 .. Len(toNode') : toNode'[i] = Read(call.off, call.count)
    BY <2>1 DEF BlockInv
  <2>4. \A i \in 1 .. Len(toHost') : \A f \in toHost'[i] : OfBlock(f)
    BY <1>5, <1>6, <2>2 DEF BlockInv
  <2> QED BY <2>3, <2>4
<1>11. CountersOK'
  BY DEF CountersOK, NodeAnswers
<1> QED BY <1>7, <1>8, <1>9, <1>10, <1>11, NetworkKeeps

\* The node takes an event.
LEMMA NodeAnswersKeeps ==
  ASSUME IInv, NodeAnswers
  PROVE  IInv'
BY NodeIgnores, NodeReplies

-----------------------------------------------------------------------------
(* What the host sends.                                                     *)

\* A request to write has values for its registers.
LEMMA WrittenValues ==
  ASSUME NEW q \in RequestSet, NEW r, Writes(q, r)
  PROVE  At(q, r) \in Values /\ r \in Offsets
<1>1. /\ q.off \in Offsets /\ q.data \in Seq(Values) /\ Covers(q) \subseteq Offsets /\ r \in Covers(q)
  BY DEF RequestSet, Writes
<1>2. Len(q.data) \in Nat
  BY <1>1
<1>3. q.off \in Nat
  BY <1>1, OffsetsInterval
<1>4. r - q.off + 1 \in 1 .. Len(q.data)
  BY <1>1, <1>2, <1>3 DEF Covers
<1> QED BY <1>1, <1>4 DEF At

\* A frame has values for its registers.
LEMMA FrameValues ==
  ASSUME NEW f \in FrameSet, NEW r \in Covers(f)
  PROVE  At(f, r) \in Values /\ r \in Offsets
<1>1. f.off \in Offsets /\ f.data \in Seq(Values) /\ Covers(f) \subseteq Offsets
  BY DEF FrameSet
<1>2. Len(f.data) \in Nat
  BY <1>1
<1>3. f.off \in Nat
  BY <1>1, OffsetsInterval
<1>4. r - f.off + 1 \in 1 .. Len(f.data)
  BY <1>2, <1>3 DEF Covers
<1> QED BY <1>1, <1>4 DEF At

\* A request joins those on their way.
LEMMA NodeJoins ==
  ASSUME IInv, NEW q \in RequestSet, toNode' = Append(toNode, q), regs' = regs, toHost' = toHost,
         QueueShrinks, queue' \in Seq(FrameSet), NEW r \in Offsets
  PROVE  /\ WayOK' /\ Len(toNode) \in Nat /\ Len(toNode') = Len(toNode) + 1
         /\ toNode'[Len(toNode) + 1] = q /\ \A i \in 1 .. Len(toNode) : toNode'[i] = toNode[i]
         /\ \A S : AllIn(r, S) /\ (Writes(q, r) => At(q, r) \in S) => AllIn(r, S)'
         /\ \A v : NewValue(r, v) /\ (Writes(q, r) => At(q, r) = v) => NewValue(r, v)'
<1> USE DEF IInv, TypeOK
<1>1. toNode \in Seq(RequestSet)
  BY DEF WayOK
<1>2. /\ toNode' \in Seq(RequestSet) /\ Len(toNode) \in Nat /\ Len(toNode') = Len(toNode) + 1
      /\ \A i \in 1 .. Len(toNode) : toNode'[i] = toNode[i]
      /\ toNode'[Len(toNode) + 1] = q
  BY <1>1, Appended
<1>3. WayOK'
  BY <1>2 DEF WayOK
<1>4. Lengths /\ Lengths' /\ HostShrinks
  BY <1>3, LengthsAre, ShrinkFacts
<1> QED BY <1>2, <1>3, <1>4, SendKeeps

\* What the host sends is possible from then on, and is new if it was not
\* possible before.
LEMMA SendsFacts ==
  ASSUME IInv, NEW q \in RequestSet, NEW before \in SUBSET Offsets, Sends(q, before),
         regs' = regs, toHost' = toHost, QueueShrinks, queue' \in Seq(FrameSet)
  PROVE  /\ WayOK' /\ PossibleInv' /\ possible' \in [Offsets -> SUBSET Values] /\ fresh' \subseteq Offsets
         /\ \A r \in Offsets : Writes(q, r) => At(q, r) \in possible'[r]
         /\ \A r \in Offsets : ~Writes(q, r) =>
              /\ possible'[r] = possible[r]
              /\ r \in fresh' => r \in before
              /\ \A v : NewValue(r, v) => NewValue(r, v)'
         /\ \A r \in fresh' : Writes(q, r) => \A v : v = At(q, r) => NewValue(r, v)'
<1> USE DEF IInv, TypeOK
<1> DEFINE W == IF q.kind = "write" THEN Covers(q) ELSE {}
<1>1. \A r : r \in W <=> Writes(q, r)
  BY DEF Writes
<1>2. /\ toNode' = Append(toNode, q)
      /\ possible' = [r \in Offsets |-> IF r \in W THEN possible[r] \cup {At(q, r)} ELSE possible[r]]
      /\ fresh' = (before \ W) \cup {r \in W : At(q, r) \notin possible[r]}
  BY DEF Sends
<1> HIDE DEF W
<1>3. \A r \in Offsets : possible'[r] = IF Writes(q, r) THEN possible[r] \cup {At(q, r)} ELSE possible[r]
  BY <1>1, <1>2
<1>4. \A r \in Offsets :
        /\ \A S : AllIn(r, S) /\ (Writes(q, r) => At(q, r) \in S) => AllIn(r, S)'
        /\ \A v : NewValue(r, v) /\ (Writes(q, r) => At(q, r) = v) => NewValue(r, v)'
  BY <1>2, NodeJoins
<1>5. WayOK'
  <2>1. 0 \in Offsets
    BY OffsetsInterval
  <2> QED BY <1>2, <2>1, NodeJoins
<1>6. possible' \in [Offsets -> SUBSET Values] /\ fresh' \subseteq Offsets
  <2>1. possible \in [Offsets -> SUBSET Values]
    BY DEF HistoryOK
  <2>2. \A r \in W : r \in Offsets /\ At(q, r) \in Values
    BY <1>1, WrittenValues
  <2>3. possible' \in [Offsets -> SUBSET Values]
    BY <1>2, <2>1, <2>2
  <2> QED BY <1>2, <2>2, <2>3
<1>7. PossibleInv'
  <2> SUFFICES ASSUME NEW r \in Offsets PROVE AllIn(r, possible[r])'
    BY DEF PossibleInv
  <2>1. AllIn(r, possible[r])
    BY DEF PossibleInv
  <2>2. PICK S : S = possible'[r]
    OBVIOUS
  <2>3. possible[r] \subseteq S /\ (Writes(q, r) => At(q, r) \in S)
    BY <1>3, <2>2
  <2>4. AllIn(r, S)
    BY <2>1, <2>3 DEF AllIn
  <2>5. AllIn(r, S)'
    BY <1>4, <2>3, <2>4
  <2> QED BY <2>2, <2>5 DEF AllIn
<1>8. \A r \in Offsets : ~Writes(q, r) =>
        /\ possible'[r] = possible[r]
        /\ r \in fresh' => r \in before
        /\ \A v : NewValue(r, v) => NewValue(r, v)'
  BY <1>1, <1>2, <1>3, <1>4
<1>9. ASSUME NEW r \in fresh', Writes(q, r), NEW v, v = At(q, r) PROVE NewValue(r, v)'
  <2>1. r \in Offsets /\ v \notin possible[r] /\ AllIn(r, possible[r])
    BY <1>1, <1>2, <1>6, <1>9 DEF PossibleInv
  <2>2. NewValue(r, v)
    BY <2>1, UnknownIsNew
  <2> QED BY <1>4, <1>9, <2>1, <2>2
<1> QED BY <1>3, <1>5, <1>6, <1>7, <1>8, <1>9

\* A call for one register asks for what it is called with.
LEMMA RequestIs ==
  ASSUME NEW c \in Calls \cup {NoCall}, c.kind # "writeBlock"
  PROVE  /\ Request(c) \in RequestSet
         /\ c.map = Empty => Request(c) = Read(c.off, c.count) /\ \A r : ~Writes(Request(c), r)
         /\ c.map # Empty => /\ c.kind \in WriteKinds
                             /\ \A r : Writes(Request(c), r) <=> r = c.off
                             /\ At(Request(c), c.off) = c.map[c.off]
<1>1. /\ c.kind \in Kinds /\ c.map \in Maps /\ c.off \in Offsets /\ c.count \in Nat
      /\ c.off + Registers(c.count) - 1 \in Offsets
      /\ c.map = Empty <=> c.kind \in ReadKinds
      /\ c.kind \in WriteKinds => DOMAIN c.map = {c.off}
  BY CallsAre
<1>2. c.off \in Nat
  BY <1>1, OffsetsInterval
<1>3. CASE c.map = Empty
  <2>1. Request(c) = Read(c.off, c.count)
    BY <1>3 DEF Request
  <2>2. /\ Read(c.off, c.count) \in [kind : {"read", "write", "event"}, off : Offsets, count : Nat, data : Seq(Values)]
        /\ Read(c.off, c.count).kind = "read" /\ Read(c.off, c.count).off = c.off
        /\ Read(c.off, c.count).count = c.count
    BY <1>1 DEF Read
  <2>3. Read(c.off, c.count) \in RequestSet
    BY <1>1, <2>2 DEF RequestSet
  <2> QED BY <1>3, <2>1, <2>2, <2>3 DEF Writes
<1>4. CASE c.map # Empty
  <2> DEFINE q == Request(c)
  <2>1. c.kind \in WriteKinds /\ DOMAIN c.map = {c.off}
    BY <1>1, <1>4 DEF Kinds
  <2>2. c.map[c.off] \in Values
    BY <1>1, <2>1, MapIsFunction
  <2>3. PICK d : d = <<c.map[c.off]>>
    OBVIOUS
  <2>4. d \in Seq(Values) /\ Len(d) = 1 /\ d[1] = c.map[c.off]
    BY <2>2, <2>3
  <2>5. q = [kind |-> "write", off |-> c.off, count |-> Len(d), data |-> d]
    BY <1>4, <2>3 DEF Request, Write
  <2>6. /\ q \in [kind : {"read", "write", "event"}, off : Offsets, count : Nat, data : Seq(Values)]
        /\ q.kind = "write" /\ q.off = c.off /\ q.data = d
    BY <1>1, <2>4, <2>5
  <2> HIDE DEF q
  <2>7. Covers(q) = {c.off}
    <3>1. q.off = c.off /\ Len(q.data) = 1
      BY <2>4, <2>6
    <3>2. \A x : x \in c.off .. c.off + 1 - 1 <=> x = c.off
      BY <1>2
    <3> QED BY <3>1, <3>2 DEF Covers
  <2>8. q \in RequestSet
    <3>1. Len(q.data) = 1
      BY <2>4, <2>6
    <3>2. Covers(q) \subseteq Offsets
      BY <1>1, <2>7
    <3>3. q.kind = "write" /\ Len(q.data) > 0
      BY <2>6, <3>1
    <3>4. q \in [kind : {"read", "write", "event"}, off : Offsets, count : Nat, data : Seq(Values)]
      BY <2>6
    <3> QED BY <3>2, <3>3, <3>4 DEF RequestSet
  <2>9. At(q, c.off) = c.map[c.off]
    BY <1>2, <2>4, <2>6 DEF At
  <2>10. \A r : Writes(q, r) <=> r = c.off
    BY <2>6, <2>7 DEF Writes
  <2> QED BY <1>4, <2>1, <2>8, <2>9, <2>10 DEF q
<1> QED BY <1>3, <1>4

\* A call begins.
LEMMA BeginKeeps ==
  ASSUME IInv, Begin
  PROVE  IInv'
<1> USE DEF IInv, TypeOK
<1>1. PICK c \in Calls :
        /\ calls + Weight(c) <= MaxCalls /\ calls' = calls + Weight(c)
        /\ call' = c /\ alone' = SameBlock(c)
        /\ asked' = [r \in Offsets |-> IF r \in DOMAIN c.map THEN asked[r] \cup {c.map[r]} ELSE asked[r]]
        /\ queue' = IF c.kind \in {"ifWrite", "viaWrite"} THEN queue ELSE <<>>
        /\ want' = IF c.kind = "writeBlock" THEN c.map ELSE Empty
        /\ rest' = IF c.kind = "writeBlock" THEN WriteFrames(c.map) ELSE {}
        /\ left' = IF c.kind = "readBlock" THEN Indices(c.count) ELSE {}
        /\ \/ /\ c.kind # "writeBlock" /\ Sends(Request(c), {})
              /\ pc' = "wait" /\ outcome' = "none"
           \/ /\ c.kind = "writeBlock" /\ fresh' = {} /\ UNCHANGED <<toNode, possible>>
              /\ IF WriteFrames(c.map) = {} THEN pc' = "idle" /\ outcome' = "ok"
                                            ELSE pc' = "send" /\ outcome' = "none"
  BY DEF Begin
<1>2. /\ rcvcnt' = 0 /\ got' = Empty /\ foreign' = {} /\ spoiled' = FALSE
      /\ UNCHANGED <<regs, toHost, lost, noise, resends>>
  BY DEF Begin
<1>3. c \in Calls \cup {NoCall} /\ c.map \in Maps /\ c.off \in Offsets
      /\ (c.kind = "readBlock" => c.map = Empty) /\ (c.kind \in WriteKinds => c.map # Empty)
  BY CallsAre DEF ReadKinds, WriteKinds
<1>4. QueueShrinks /\ queue' \in Seq(FrameSet) /\ HostShrinks
  <2>1. queue' = queue \/ queue' = <<>>
    BY <1>1
  <2>2. queue \in Seq(FrameSet)
    BY DEF WayOK
  <2>3. QueueShrinks
    BY <2>1, ShrinkFacts
  <2>4. queue' \in Seq(FrameSet)
    <3>1. <<>> \in Seq(FrameSet)
      OBVIOUS
    <3> QED BY <2>1, <2>2, <3>1
  <2>5. HostShrinks
    BY <1>2, ShrinkFacts
  <2> QED BY <2>3, <2>4, <2>5
<1>5. CallOK'
  <2>1. want' \in Maps /\ got' \in Maps
    BY <1>1, <1>2, <1>3, EmptyIsMap
  <2>2. rest' \subseteq PartSet
    BY <1>1, <1>3, WriteFramesAre
  <2>3. left' \subseteq Nat
    BY <1>1 DEF Indices
  <2>4. pc' \in {"idle", "send", "wait"} /\ outcome' \in {"none", "ok"} /\ 0 \in Offsets
    BY <1>1, OffsetsInterval
  <2> QED BY <1>1, <1>2, <2>1, <2>2, <2>3, <2>4 DEF CallOK
<1>6. FlagsOK'
  BY <1>1, <1>2 DEF FlagsOK, SameBlock
<1>7. asked' \in [Offsets -> SUBSET Values]
  <2>1. \A r \in DOMAIN c.map : c.map[r] \in Values
    BY <1>3, MapIsFunction
  <2> QED BY <1>1, <2>1 DEF HistoryOK
<1>8. CountersOK'
  BY <1>1, <1>2, RegistersAssumption DEF CountersOK
<1>9. DOMAIN got' = {}
  BY <1>2, EmptyIsMap
<1>10. CASE c.kind = "writeBlock"
  <2>1. toNode' = toNode /\ possible' = possible /\ fresh' = {}
    BY <1>1, <1>10
  <2>2. WayOK'
    BY <1>2, <1>4, <2>1 DEF WayOK
  <2>3. NodeShrinks
    BY <2>1, ShrinkFacts
  <2>4. Lengths /\ Lengths' /\ regs' = regs
    BY <1>2, <2>2, LengthsAre
  <2>5. LineKeeps
    BY <1>4, <2>3, <2>4, ShrinkKeeps DEF LineKeeps
  <2>6. PossibleInv'
    <3> SUFFICES ASSUME NEW r \in Offsets PROVE AllIn(r, possible[r])'
      BY DEF PossibleInv
    <3> QED BY <2>1, <2>5, PossibleStays
  <2>7. FreshInv'
    BY <2>1 DEF FreshInv
  <2>8. CallInv'
    BY <1>1, <1>9, <1>10 DEF CallInv, WriteKinds
  <2>9. BlockInv'
    BY <1>1, <1>10 DEF BlockInv
  <2>10. HistoryOK'
    BY <1>2, <1>7, <2>1 DEF HistoryOK
  <2> QED BY <1>5, <1>6, <1>8, <2>2, <2>6, <2>7, <2>8, <2>9, <2>10
<1>11. CASE c.kind # "writeBlock"
  <2>1. Sends(Request(c), {}) /\ pc' = "wait" /\ outcome' = "none" /\ rest' = {}
    BY <1>1, <1>11
  <2>2. PICK q : q = Request(c)
    OBVIOUS
  <2>3. /\ q \in RequestSet
        /\ c.map = Empty => q = Read(c.off, c.count) /\ \A r : ~Writes(q, r)
        /\ c.map # Empty => /\ c.kind \in WriteKinds
                            /\ \A r : Writes(q, r) <=> r = c.off
                            /\ At(q, c.off) = c.map[c.off]
    BY <1>3, <1>11, <2>2, RequestIs
  <2>4. Sends(q, {}) /\ {} \in SUBSET Offsets /\ regs' = regs /\ toHost' = toHost
    BY <1>2, <2>1, <2>2
  <2>5. /\ WayOK' /\ PossibleInv' /\ possible' \in [Offsets -> SUBSET Values] /\ fresh' \subseteq Offsets
        /\ \A r \in Offsets : Writes(q, r) => At(q, r) \in possible'[r]
        /\ \A r \in Offsets : ~Writes(q, r) =>
             /\ possible'[r] = possible[r]
             /\ r \in fresh' => r \in {}
             /\ \A v : NewValue(r, v) => NewValue(r, v)'
        /\ \A r \in fresh' : Writes(q, r) => \A v : v = At(q, r) => NewValue(r, v)'
    BY <1>4, <2>3, <2>4, SendsFacts
  <2>6. FreshInv'
    <3> SUFFICES ASSUME NEW r \in fresh' PROVE IsFresh(r)'
      BY DEF FreshInv, IsFresh
    <3>1. Writes(q, r)
      BY <2>5
    <3>2. c.kind \in WriteKinds /\ r = c.off /\ At(q, r) = c.map[c.off]
      BY <2>3, <3>1
    <3>3. PICK v : v = At(q, r)
      OBVIOUS
    <3>4. NewValue(r, v)'
      BY <2>5, <3>1, <3>3
    <3>5. Unconfirmed(r)' /\ v = Sent(r)'
      BY <1>1, <1>11, <3>2, <3>3 DEF Unconfirmed, Sent
    <3> QED BY <3>4, <3>5, FreshIs
  <2>7. CallInv'
    <3>1. c.kind \in WriteKinds => c.map[c.off] \in possible'[c.off]
      BY <1>3, <2>3, <2>5
    <3> QED BY <1>1, <1>9, <2>1, <3>1 DEF CallInv
  <2>8. BlockInv'
    <3> SUFFICES ASSUME c.kind = "readBlock"
                 PROVE  BlockInv'
      BY <1>1 DEF BlockInv
    <3>1. left' = Indices(c.count) /\ queue' = <<>> /\ q = Read(c.off, c.count)
      BY <1>1, <1>3, <2>3
    <3>2. /\ Len(toNode) \in Nat /\ Len(toNode') = Len(toNode) + 1
          /\ toNode'[Len(toNode) + 1] = q /\ \A i \in 1 .. Len(toNode) : toNode'[i] = toNode[i]
      <4>1. toNode' = Append(toNode, q) /\ 0 \in Offsets
        BY <2>4, OffsetsInterval DEF Sends
      <4> QED BY <1>4, <2>3, <2>4, <4>1, NodeJoins
    <3>3. ASSUME SameBlock(c), NEW i \in 1 .. Len(toNode') PROVE toNode'[i] = Read(c.off, c.count)
      <4>1. i \in 1 .. Len(toNode) \/ i = Len(toNode) + 1
        BY <3>2
      <4>2. DOMAIN toNode = 1 .. Len(toNode)
        BY DEF WayOK
      <4> QED BY <3>1, <3>2, <3>3, <4>1, <4>2 DEF SameBlock
    <3>4. ASSUME SameBlock(c), NEW i \in 1 .. Len(toHost), NEW f \in toHost[i]
          PROVE  /\ f.index \in Indices(c.count)
                 /\ Covers(f) = c.off + f.index * Chunk
                                .. c.off + f.index * Chunk + Size(c.count, f.index) - 1
      <4>1. DOMAIN toHost = 1 .. Len(toHost)
        BY DEF WayOK
      <4>2. /\ f.index \in Indices(c.count) /\ f.off = c.off + f.index * Chunk
            /\ Len(f.data) = Size(c.count, f.index)
        BY <3>4, <4>1 DEF SameBlock
      <4> QED BY <4>2 DEF Covers
    <3>5. Len(queue') = 0
      BY <3>1
    <3>6. Indices(c.count) \ left' = {}
      BY <3>1
    <3> QED BY <1>1, <1>2, <1>9, <2>1, <3>1, <3>3, <3>4, <3>5, <3>6 DEF BlockInv, OfBlock, Part
  <2>9. HistoryOK'
    BY <1>2, <1>7, <2>5 DEF HistoryOK
  <2> QED BY <1>5, <1>6, <1>8, <2>5, <2>6, <2>7, <2>8, <2>9
<1> QED BY <1>10, <1>11

\* What is asked of a map that has got new entries.
LEMMA FilledIs ==
  ASSUME NEW m \in Maps, NEW rs \in SUBSET Offsets
  PROVE  /\ Filled(m, rs) \in Maps /\ DOMAIN Filled(m, rs) = DOMAIN m \cup rs
         /\ \A r \in DOMAIN m : Filled(m, rs)[r] = m[r]
<1>1. m \in [DOMAIN m -> Values] /\ DOMAIN m \subseteq Offsets /\ 0 \in Values
  BY MapIsFunction, RegistersAssumption
<1>2. Filled(m, rs) \in [DOMAIN m \cup rs -> Values]
  BY <1>1 DEF Filled
<1>3. DOMAIN m \cup rs \in SUBSET Offsets
  BY <1>1
<1>4. DOMAIN Filled(m, rs) = DOMAIN m \cup rs /\ \A r \in DOMAIN m : Filled(m, rs)[r] = m[r]
  BY DEF Filled
<1> QED BY <1>2, <1>3, <1>4, FunctionIsMap

\* A block write sends its next frame.
LEMMA SendFrameKeeps ==
  ASSUME IInv, SendFrame
  PROVE  IInv'
<1> USE DEF IInv, TypeOK
<1>1. PICK f \in rest :
        LET m == Filled(want, f.off .. f.off + f.count - 1)
        IN /\ \A g \in rest : f.off <= g.off
           /\ want' = m
           /\ rest' = rest \ {f}
           /\ Sends(Write(f.off, [k \in 1 .. f.count |-> m[f.off + k - 1]]), fresh)
  BY DEF SendFrame
<1> DEFINE R == f.off .. f.off + f.count - 1
           m == Filled(want, R)
           d == [k \in 1 .. f.count |-> m[f.off + k - 1]]
           q == Write(f.off, d)
<1>2. want' = m /\ rest' = rest \ {f} /\ Sends(q, fresh)
  BY <1>1
<1>3. /\ f.off \in Offsets /\ f.count \in Nat /\ f.count > 0 /\ R \in SUBSET Offsets
      /\ f.off \in Nat /\ want \in Maps
  BY OffsetsInterval DEF CallOK, PartSet
<1> HIDE DEF m
<1>4. m \in Maps /\ DOMAIN m = DOMAIN want \cup R /\ \A r \in DOMAIN want : m[r] = want[r]
  BY <1>3, FilledIs DEF m
<1>5. /\ d \in Seq(Values) /\ Len(d) = f.count /\ \A k \in 1 .. f.count : d[k] = m[f.off + k - 1]
  <2>1. \A r \in R : m[r] \in Values
    BY <1>4, MapIsFunction
  <2>2. \A k \in 1 .. f.count : f.off + k - 1 \in R
    BY <1>3
  <2> QED BY <1>3, <2>1, <2>2
<1> HIDE DEF d
<1>6. /\ q \in [kind : {"read", "write", "event"}, off : Offsets, count : Nat, data : Seq(Values)]
      /\ q.kind = "write" /\ q.off = f.off /\ q.data = d
  BY <1>3, <1>5 DEF Write
<1> HIDE DEF q
<1>7. Covers(q) = R /\ \A r \in Covers(q) : At(q, r) = m[r]
  <2>1. /\ q.off = f.off /\ Len(q.data) = f.count
        /\ \A k \in 1 .. f.count : q.data[k] = m[f.off + k - 1]
    BY <1>5, <1>6
  <2>2. f.off \in Nat /\ f.count \in Nat /\ f.count > 0
    BY <1>3
  <2>3. PICK o \in Nat, n \in Nat : o = f.off /\ n = f.count
    BY <2>2
  <2>4. n > 0 /\ q.off = o /\ Len(q.data) = n /\ \A k \in 1 .. n : q.data[k] = m[o + k - 1]
    BY <2>1, <2>2, <2>3
  <2>5. Covers(q) = o .. o + n - 1 /\ \A r \in Covers(q) : At(q, r) = m[r]
    BY <2>4, FrameSays
  <2> QED BY <2>3, <2>5
<1>8. q \in RequestSet
  <2>1. q.kind = "write" /\ Len(q.data) > 0 /\ Covers(q) \subseteq Offsets
    BY <1>3, <1>5, <1>6, <1>7
  <2> QED BY <1>6, <2>1 DEF RequestSet
<1>9. \A r : Writes(q, r) <=> r \in R
  BY <1>6, <1>7 DEF Writes
<1> HIDE DEF R
<1>10. /\ pc = "send" /\ pc' = "wait" /\ queue' = <<>>
       /\ UNCHANGED <<regs, toHost, call, left, rcvcnt, got, spoiled, outcome, asked, alone, foreign,
                      counters>>
  BY DEF SendFrame
<1>11. QueueShrinks /\ queue' \in Seq(FrameSet)
  BY <1>10, ShrinkFacts
<1>12. call.kind = "writeBlock" /\ DOMAIN got = {}
  BY <1>10 DEF CallInv, ReadKinds
<1>13. /\ WayOK' /\ PossibleInv' /\ possible' \in [Offsets -> SUBSET Values] /\ fresh' \subseteq Offsets
       /\ \A r \in Offsets : ~Writes(q, r) =>
             /\ possible'[r] = possible[r]
             /\ r \in fresh' => r \in fresh
             /\ \A v : NewValue(r, v) => NewValue(r, v)'
       /\ \A r \in fresh' : Writes(q, r) => \A v : v = At(q, r) => NewValue(r, v)'
  <2>1. fresh \in SUBSET Offsets
    BY DEF HistoryOK
  <2> QED BY <1>2, <1>8, <1>10, <1>11, <2>1, SendsFacts
<1>14. FreshInv'
  <2> SUFFICES ASSUME NEW r \in fresh' PROVE IsFresh(r)'
    BY DEF FreshInv, IsFresh
  <2>1. r \in Offsets
    BY <1>13
  <2>2. CASE Writes(q, r)
    <3>1. PICK v : v = At(q, r)
      OBVIOUS
    <3>2. NewValue(r, v)'
      BY <1>13, <2>2, <3>1
    <3>3. r \in R /\ v = m[r] /\ r \in DOMAIN m
      BY <1>4, <1>7, <1>9, <2>2, <3>1
    <3>4. Unconfirmed(r)' /\ v = Sent(r)'
      BY <1>2, <1>10, <1>12, <3>3 DEF Unconfirmed, Sent
    <3> QED BY <3>2, <3>4, FreshIs
  <2>3. CASE ~Writes(q, r)
    <3>1. r \in fresh /\ possible'[r] = possible[r] /\ \A v : NewValue(r, v) => NewValue(r, v)'
      BY <1>13, <2>1, <2>3
    <3>2. CASE \E v \in Values : possible[r] = {v}
      BY <3>1, <3>2 DEF IsFresh
    <3>3. CASE Unconfirmed(r) /\ NewValue(r, Sent(r))
      <4>1. PICK v : v = Sent(r)
        OBVIOUS
      <4>2. NewValue(r, v)'
        BY <3>1, <3>3, <4>1
      <4>3. Unconfirmed(r)' /\ v = Sent(r)'
        BY <1>2, <1>4, <1>10, <1>12, <3>3, <4>1 DEF Unconfirmed, Sent
      <4> QED BY <4>2, <4>3, FreshIs
    <3> QED BY <3>1, <3>2, <3>3 DEF FreshInv
  <2> QED BY <2>2, <2>3
<1>15. CallOK'
  BY <1>2, <1>4, <1>10 DEF CallOK
<1>16. FlagsOK' /\ CountersOK'
  BY <1>10 DEF FlagsOK, CountersOK
<1>17. HistoryOK'
  BY <1>10, <1>13 DEF HistoryOK
<1>18. CallInv'
  BY <1>10, <1>12 DEF CallInv, WriteKinds
<1>19. BlockInv'
  BY <1>10, <1>12 DEF BlockInv
<1> QED BY <1>13, <1>14, <1>15, <1>16, <1>17, <1>18, <1>19

\* A request is repeated, or the event that was received is sent.
LEMMA ResendKeeps ==
  ASSUME IInv, Resend
  PROVE  IInv'
<1> USE DEF IInv, TypeOK
<1>1. /\ call.kind \in IfKinds /\ resends' = resends + 1
      /\ toNode' = Append(toNode, IF spoiled THEN Received ELSE Request(call))
      /\ UNCHANGED <<regs, toHost, queue, call, pc, blockVars, spoiled, outcome, historyVars, calls,
                     lost, noise>>
  BY DEF Resend
<1>2. call \in Calls \cup {NoCall} /\ call.kind \notin {"readBlock", "writeBlock"}
  BY <1>1 DEF CallOK, IfKinds
<1>3. CallOK' /\ HistoryOK' /\ CallInv' /\ BlockInv'
  <2>1. CallOK'
    BY <1>1 DEF CallOK
  <2>2. HistoryOK'
    BY <1>1 DEF HistoryOK
  <2>3. CallInv'
    BY <1>1 DEF CallInv
  <2>4. BlockInv'
    BY <1>1, <1>2 DEF BlockInv
  <2> QED BY <2>1, <2>2, <2>3, <2>4
<1>4. FlagsOK' /\ CountersOK'
  BY <1>1 DEF FlagsOK, CountersOK
<1>5. PICK q : q = IF spoiled THEN Received ELSE Request(call)
  OBVIOUS
<1>6. /\ q \in RequestSet
      /\ \A r : Writes(q, r) => /\ call.kind \in WriteKinds /\ r = call.off
                                /\ At(q, r) = call.map[call.off]
  <2>1. CASE spoiled
    <3>1. q = [kind |-> "event", off |-> 0, count |-> 0, data |-> <<>>]
      BY <1>5, <2>1 DEF Received
    <3>2. 0 \in Offsets /\ <<>> \in Seq(Values)
      BY OffsetsInterval
    <3>3. q \in [kind : {"read", "write", "event"}, off : Offsets, count : Nat, data : Seq(Values)]
      BY <3>1, <3>2
    <3>4. q.kind = "event"
      BY <3>1
    <3> QED BY <3>3, <3>4 DEF RequestSet, Writes
  <2>2. CASE ~spoiled
    <3>1. q = Request(call)
      BY <1>5, <2>2
    <3>2. /\ q \in RequestSet
          /\ call.map = Empty => \A r : ~Writes(q, r)
          /\ call.map # Empty => /\ call.kind \in WriteKinds
                                 /\ \A r : Writes(q, r) <=> r = call.off
                                 /\ At(q, call.off) = call.map[call.off]
      BY <1>2, <3>1, RequestIs
    <3> QED BY <3>2
  <2> QED BY <2>1, <2>2
<1>7. toNode' = Append(toNode, q) /\ regs' = regs /\ toHost' = toHost /\ QueueShrinks
      /\ queue' \in Seq(FrameSet)
  BY <1>1, <1>5, ShrinkFacts DEF WayOK
<1>8. \A r \in Offsets :
        /\ \A S : AllIn(r, S) /\ (Writes(q, r) => At(q, r) \in S) => AllIn(r, S)'
        /\ \A v : NewValue(r, v) /\ (Writes(q, r) => At(q, r) = v) => NewValue(r, v)'
  BY <1>6, <1>7, NodeJoins
<1>9. WayOK'
  <2>1. 0 \in Offsets
    BY OffsetsInterval
  <2> QED BY <1>6, <1>7, <2>1, NodeJoins
<1>10. PossibleInv'
  <2> SUFFICES ASSUME NEW r \in Offsets PROVE AllIn(r, possible[r])'
    BY DEF PossibleInv
  <2>1. PICK S : S = possible[r]
    OBVIOUS
  <2>2. AllIn(r, S)
    BY <2>1 DEF PossibleInv
  <2>3. Writes(q, r) => At(q, r) \in S
    BY <1>6, <2>1 DEF CallInv
  <2>4. AllIn(r, S)'
    BY <1>8, <2>2, <2>3
  <2>5. possible'[r] = S
    BY <1>1, <2>1
  <2> QED BY <2>4, <2>5 DEF AllIn
<1>11. FreshInv'
  <2> SUFFICES ASSUME NEW r \in fresh PROVE IsFresh(r)'
    BY <1>1 DEF FreshInv, IsFresh
  <2>1. r \in Offsets
    BY DEF HistoryOK
  <2>2. CASE \E v \in Values : possible[r] = {v}
    BY <1>1, <2>2 DEF IsFresh
  <2>3. CASE Unconfirmed(r) /\ NewValue(r, Sent(r))
    <3>1. PICK v : v = Sent(r)
      OBVIOUS
    <3>2. Writes(q, r) => At(q, r) = v
      BY <1>2, <1>6, <3>1 DEF Sent
    <3>3. NewValue(r, v)'
      BY <1>8, <2>1, <2>3, <3>1, <3>2
    <3>4. Unconfirmed(r)' /\ v = Sent(r)'
      BY <1>1, <2>3, <3>1 DEF Unconfirmed, Sent
    <3> QED BY <3>3, <3>4, FreshIs
  <2> QED BY <2>2, <2>3 DEF FreshInv
<1> QED BY <1>3, <1>4, <1>9, <1>10, <1>11

-----------------------------------------------------------------------------
(* What the host receives.                                                  *)

\* The call waits no longer, or goes on to its next frame.
LEMMA EndKeeps ==
  ASSUME IInv, UNCHANGED <<nodeVars, queue, call, blockVars, spoiled, historyVars, counters>>,
         pc' \in {"idle", "send"}, pc' = "send" => call.kind = "writeBlock",
         outcome' \in {outcome, "ok", "timeout", "error"},
         outcome' = "ok" => outcome = "ok" \/ call.kind # "readBlock"
  PROVE  IInv'
<1> USE DEF IInv, TypeOK
<1>1. WayOK'
  BY DEF WayOK
<1>2. CallOK'
  BY DEF CallOK
<1>3. FlagsOK'
  BY DEF FlagsOK
<1>4. HistoryOK' /\ CountersOK'
  BY DEF HistoryOK, CountersOK
<1>5. Lengths /\ Lengths' /\ NodeShrinks /\ HostShrinks /\ QueueShrinks /\ regs' = regs
  BY <1>1, LengthsAre, ShrinkFacts
<1>6. LineKeeps
  BY <1>5, ShrinkKeeps DEF LineKeeps
<1>7. PossibleInv'
  <2> SUFFICES ASSUME NEW r \in Offsets PROVE AllIn(r, possible[r])'
    BY DEF PossibleInv
  <2> QED BY <1>6, PossibleStays
<1>8. FreshInv'
  <2> SUFFICES ASSUME NEW r \in fresh PROVE IsFresh(r)'
    BY DEF FreshInv, IsFresh
  <2>1. r \in Offsets /\ IsFresh(r)
    BY DEF FreshInv, IsFresh, HistoryOK
  <2> QED BY <1>6, <2>1, FreshStays
<1>9. CallInv'
  BY DEF CallInv
<1>10. BlockInv'
  BY <1>5, BlockKeeps
<1> QED BY <1>1, <1>2, <1>3, <1>4, <1>7, <1>8, <1>9, <1>10

\* A call goes on to its next frame, or ends.
LEMMA NextFrameFacts ==
  ASSUME IInv, NEW result, NextFrame(result)
  PROVE  /\ pc' \in {"idle", "send"} /\ (pc' = "send" => call.kind = "writeBlock")
         /\ outcome' \in {outcome, result}
BY DEF NextFrame, End, IInv, CallInv

\* A call waits on, or its only turn is over.
LEMMA WaitOnFacts ==
  ASSUME IInv, pc = "wait", WaitOn
  PROVE  /\ pc' \in {"idle", "send", "wait"} /\ (pc' = "send" => call.kind = "writeBlock")
         /\ outcome' \in {outcome, "ok"}
         /\ call.kind = "readBlock" => UNCHANGED <<pc, outcome>>
<1>1. CASE OneTurn
  <2>1. NextFrame("ok") /\ call.kind # "readBlock"
    BY <1>1 DEF WaitOn, OneTurn
  <2> QED BY <2>1, NextFrameFacts
<1>2. CASE ~OneTurn
  BY <1>2 DEF WaitOn
<1> QED BY <1>1, <1>2

\* A call gives up.
LEMMA GiveUpKeeps ==
  ASSUME IInv, GiveUp
  PROVE  IInv'
<1>1. CASE NextFrame("timeout")
  <2>1. /\ pc' \in {"idle", "send"} /\ (pc' = "send" => call.kind = "writeBlock")
        /\ outcome' \in {outcome, "timeout"}
    BY <1>1, NextFrameFacts
  <2> QED BY <2>1, EndKeeps DEF GiveUp
<1>2. CASE OneTurn /\ NextFrame("ok")
  <2>1. /\ pc' \in {"idle", "send"} /\ (pc' = "send" => call.kind = "writeBlock")
        /\ outcome' \in {outcome, "ok"} /\ call.kind # "readBlock"
    BY <1>2, NextFrameFacts DEF OneTurn
  <2> QED BY <2>1, EndKeeps DEF GiveUp
<1> QED BY <1>1, <1>2 DEF GiveUp

\* The client fails.
LEMMA ClientFailsKeeps ==
  ASSUME IInv, ClientFails
  PROVE  IInv'
BY EndKeeps DEF ClientFails, End

\* An event is taken from the queue.
LEMMA TakesFacts ==
  ASSUME IInv, NEW kinds, Takes(kinds)
  PROVE  /\ call.kind \in kinds /\ pc = "wait" /\ Head(queue) \in FrameSet
         /\ Len(queue) >= 1 /\ Head(queue) = queue[1]
         /\ NodeShrinks /\ HostShrinks /\ QueueShrinks /\ LineKeeps /\ WayOK'
         /\ UNCHANGED <<nodeVars, call, asked, counters>> /\ FlagsOK'
         /\ alone' => alone /\ (IsReply(queue[1]) => Own(queue[1]))
<1> USE DEF IInv, TypeOK
<1>1. /\ call.kind \in kinds /\ pc = "wait" /\ queue # <<>> /\ queue' = Tail(queue)
      /\ UNCHANGED <<nodeVars, call, asked, counters>>
  BY DEF Takes
<1>2. queue \in Seq(FrameSet)
  BY DEF WayOK
<1>3. queue' \in Seq(FrameSet) /\ Len(queue) >= 1 /\ Head(queue) = queue[1] /\ Head(queue) \in FrameSet
  BY <1>1, <1>2, Popped
<1>4. WayOK'
  BY <1>1, <1>3 DEF WayOK
<1>5. Lengths /\ Lengths' /\ NodeShrinks /\ HostShrinks /\ QueueShrinks /\ regs' = regs
  BY <1>1, <1>4, LengthsAre, ShrinkFacts
<1>6. LineKeeps
  BY <1>5, ShrinkKeeps DEF LineKeeps
<1>7. /\ FlagsOK' /\ (alone' => alone /\ (IsReply(queue[1]) => Own(queue[1])))
  BY <1>3, Zenon DEF Takes, FlagsOK
<1> QED BY <1>1, <1>3, <1>4, <1>5, <1>6, <1>7

\* What a frame from the queue says is possible.
LEMMA TakenIsPossible ==
  ASSUME IInv, Len(queue) >= 1, NEW r \in Offsets, Says(queue[1], r)
  PROVE  At(queue[1], r) \in possible[r]
<1>1. 1 \in 1 .. Len(queue)
  BY LengthsAre DEF IInv, TypeOK, Lengths
<1> QED BY <1>1 DEF IInv, PossibleInv, AllIn

\* A step that takes an event and changes nothing that is possible.
LEMMA TakenKeeps ==
  ASSUME IInv, NEW kinds, Takes(kinds), UNCHANGED possible, fresh' \subseteq fresh,
         foreign' \subseteq Offsets,
         \A r \in fresh' : r \in DOMAIN want /\ Unconfirmed(r) => r \in DOMAIN want' /\ want'[r] = want[r]
  PROVE  PossibleInv' /\ FreshInv' /\ HistoryOK' /\ CountersOK' /\ FlagsOK'
<1> USE DEF IInv, TypeOK
<1>1. LineKeeps /\ UNCHANGED <<call, asked, counters>> /\ FlagsOK'
  BY TakesFacts
<1>2. PossibleInv'
  <2> SUFFICES ASSUME NEW r \in Offsets PROVE AllIn(r, possible[r])'
    BY DEF PossibleInv
  <2> QED BY <1>1, PossibleStays
<1>3. FreshInv'
  <2> SUFFICES ASSUME NEW r \in fresh' PROVE IsFresh(r)'
    BY DEF FreshInv, IsFresh
  <2>1. r \in Offsets /\ IsFresh(r)
    BY DEF FreshInv, IsFresh, HistoryOK
  <2> QED BY <1>1, <2>1, FreshStays
<1>4. HistoryOK' /\ CountersOK'
  BY <1>1 DEF HistoryOK, CountersOK
<1> QED BY <1>1, <1>2, <1>3, <1>4

\* A frame that answers a call for one register brings it.
LEMMA AnswerCovers ==
  ASSUME NEW f \in FrameSet, Answers(f)
  PROVE  call.off \in Covers(f) /\ At(f, call.off) = f.data[1]
<1>1. f.off \in Offsets /\ f.data \in Seq(Values) /\ Len(f.data) > 0 /\ f.off = call.off
  BY DEF FrameSet, Answers
<1>2. Len(f.data) \in Nat
  BY <1>1
<1>3. f.off \in Nat
  BY <1>1, OffsetsInterval
<1>4. call.off \in Covers(f)
  BY <1>1, <1>2, <1>3 DEF Covers
<1>5. call.off - f.off + 1 = 1
  BY <1>1, <1>3
<1> QED BY <1>4, <1>5 DEF At

\* The reply to the read of a register, or another event.
LEMMA ReceiveReadKeeps ==
  ASSUME IInv, ReceiveRead
  PROVE  IInv'
<1> USE DEF IInv, TypeOK
<1>1. Takes({"read", "ifRead"}) /\ UNCHANGED <<want, rest, left, rcvcnt, possible, fresh>>
  BY DEF ReceiveRead
<1>2. PICK f : f = Head(queue)
  OBVIOUS
<1>3. /\ call.kind \in {"read", "ifRead"} /\ f \in FrameSet /\ Len(queue) >= 1 /\ f = queue[1]
      /\ WayOK' /\ call' = call /\ pc = "wait"
  BY <1>1, <1>2, TakesFacts
<1>4. BlockInv'
  BY <1>3 DEF BlockInv
<1>5. rest = {} /\ call.kind \in ReadKinds /\ call.kind \notin WriteKinds
  BY <1>3 DEF CallInv, ReadKinds, WriteKinds
<1>6. CASE Answers(f)
  <2>1. /\ got' = [r \in {call.off} |-> f.data[1]] /\ pc' = "idle" /\ outcome' = "ok"
        /\ foreign' = IF Own(f) THEN {} ELSE {call.off}
    BY <1>2, <1>6 DEF ReceiveRead, End
  <2>2. call.off \in Covers(f) /\ At(f, call.off) = f.data[1]
    BY <1>3, <1>6, AnswerCovers
  <2>3. f.data[1] \in Values /\ call.off \in Offsets
    BY <1>3, <2>2, FrameValues
  <2>4. Own(f) => f.data[1] \in possible[call.off]
    BY <1>3, <2>2, <2>3, TakenIsPossible DEF Says
  <2>5. got' \in Maps /\ DOMAIN got' = {call.off} /\ got'[call.off] = f.data[1]
    <3>1. {call.off} \in SUBSET Offsets /\ got' \in [{call.off} -> Values]
      BY <2>1, <2>3
    <3>2. got' \in Maps
      BY <3>1, FunctionIsMap
    <3> QED BY <2>1, <3>2
  <2>6. PossibleInv' /\ FreshInv' /\ HistoryOK' /\ CountersOK' /\ FlagsOK'
    <3>1. foreign' \subseteq Offsets
      BY <2>1, <2>3
    <3> QED BY <1>1, <3>1, TakenKeeps
  <2>7. CallOK'
    BY <1>1, <1>3, <2>1, <2>5 DEF CallOK
  <2>8. CallInv'
    <3>1. \A r \in DOMAIN got' \ foreign' : got'[r] \in possible'[r]
      BY <1>1, <2>1, <2>4, <2>5
    <3> QED BY <1>1, <1>3, <1>5, <2>1, <3>1 DEF CallInv
  <2> QED BY <1>3, <1>4, <2>6, <2>7, <2>8
<1>7. CASE ~Answers(f)
  <2>1. UNCHANGED <<got, foreign>> /\ WaitOn
    BY <1>2, <1>7 DEF ReceiveRead
  <2>2. /\ pc' \in {"idle", "send", "wait"} /\ (pc' = "send" => call.kind = "writeBlock")
        /\ outcome' \in {outcome, "ok"}
    BY <1>3, <2>1, WaitOnFacts
  <2>3. CallOK'
    BY <1>1, <1>3, <2>1, <2>2 DEF CallOK
  <2>4. CallInv'
    BY <1>1, <1>3, <1>5, <2>1, <2>2 DEF CallInv
  <2>5. PossibleInv' /\ FreshInv' /\ HistoryOK' /\ CountersOK' /\ FlagsOK'
    <3>1. foreign' \subseteq Offsets
      BY <2>1 DEF HistoryOK
    <3> QED BY <1>1, <3>1, TakenKeeps
  <2> QED BY <1>3, <1>4, <2>3, <2>4, <2>5
<1> QED BY <1>6, <1>7

\* A block read gets a frame, or another event.
LEMMA ReceiveBlockKeeps ==
  ASSUME IInv, ReceiveBlock
  PROVE  IInv'
<1> USE DEF IInv, TypeOK
<1>1. Takes({"readBlock"}) /\ UNCHANGED <<want, rest, possible, fresh>>
  BY DEF ReceiveBlock
<1>2. PICK f : f = Head(queue)
  OBVIOUS
<1>3. /\ call.kind = "readBlock" /\ f \in FrameSet /\ Len(queue) >= 1 /\ f = queue[1]
      /\ WayOK' /\ NodeShrinks /\ HostShrinks /\ QueueShrinks
      /\ UNCHANGED call /\ pc = "wait" /\ (alone' => alone /\ (IsReply(f) => Own(f)))
  BY <1>1, <1>2, TakesFacts
<1>4. foreign' \subseteq Offsets => PossibleInv' /\ FreshInv' /\ HistoryOK' /\ CountersOK' /\ FlagsOK'
  BY <1>1, TakenKeeps
<1>5. CASE IsReply(f)
  <2>1. /\ left' = left \ {f.index}
        /\ got' = [r \in DOMAIN got \cup Covers(f) |-> IF r \in Covers(f) THEN At(f, r) ELSE got[r]]
        /\ foreign' = IF Own(f) THEN foreign \ Covers(f) ELSE foreign \cup Covers(f)
        /\ rcvcnt' = (rcvcnt + Len(f.data)) % PageSize
        /\ \/ left' = {} /\ pc' = "idle" /\ outcome' = "ok"
           \/ UNCHANGED <<pc, outcome>>
    <3>1. WaitOn => UNCHANGED <<pc, outcome>>
      BY <1>3, WaitOnFacts
    <3> QED BY <1>2, <1>5, <3>1 DEF ReceiveBlock, AllThere, End
  <2>2. \A r \in Covers(f) : r \in Offsets /\ At(f, r) \in Values
    BY <1>3, FrameValues
  <2>3. got \in [DOMAIN got -> Values] /\ DOMAIN got \subseteq Offsets
    BY MapIsFunction DEF CallOK
  <2>4. got' \in Maps /\ DOMAIN got' = DOMAIN got \cup Covers(f)
    <3>1. got' \in [DOMAIN got \cup Covers(f) -> Values]
      BY <2>1, <2>2, <2>3
    <3>2. DOMAIN got \cup Covers(f) \in SUBSET Offsets
      BY <2>2, <2>3
    <3>3. got' \in Maps
      BY <3>1, <3>2, FunctionIsMap
    <3> QED BY <2>1, <3>3
  <2>5. rcvcnt' \in Offsets
    <3>1. rcvcnt \in Nat
      BY OffsetsInterval DEF CallOK
    <3>2. f.data \in Seq(Values)
      BY <1>3 DEF FrameSet
    <3>3. Len(f.data) \in Nat
      BY <3>2
    <3>4. PICK x \in Nat : x = rcvcnt + Len(f.data)
      BY <3>1, <3>3
    <3>5. PICK p \in Nat : p = PageSize /\ p > 0
      BY RegistersAssumption
    <3>6. x % p \in 0 .. p - 1
      BY <3>5
    <3> QED BY <2>1, <3>4, <3>5, <3>6 DEF Offsets
  <2>6. CallOK'
    <3>1. outcome' \in {"none", "ok", "mismatch", "timeout", "error"} /\ pc' \in {"idle", "send", "wait"}
      BY <2>1 DEF CallOK
    <3>2. left' \subseteq Nat
      BY <2>1 DEF CallOK
    <3> QED BY <1>1, <1>3, <2>4, <2>5, <3>1, <3>2 DEF CallOK
  <2>7. CallInv'
    <3>1. ASSUME NEW r \in DOMAIN got' \ foreign' PROVE got'[r] \in possible'[r]
      <4>1. CASE r \in Covers(f)
        <5>0. Own(f)
          BY <2>1, <3>1, <4>1
        <5>1. r \in Offsets /\ Says(queue[1], r) /\ got'[r] = At(queue[1], r)
          BY <1>3, <2>1, <2>2, <2>4, <4>1, <5>0 DEF Says
        <5> QED BY <1>1, <1>3, <5>1, TakenIsPossible
      <4>2. CASE r \notin Covers(f)
        <5>1. r \in DOMAIN got \ foreign /\ got'[r] = got[r]
          BY <2>1, <2>4, <3>1, <4>2
        <5> QED BY <1>1, <5>1 DEF CallInv
      <4> QED BY <4>1, <4>2
    <3>2. pc' # "send"
      BY <1>3, <2>1
    <3> QED BY <1>1, <1>3, <3>1, <3>2 DEF CallInv, ReadKinds, WriteKinds
  <2>8. BlockInv'
    <3>1. PICK a \in Nat : \A i \in 1 .. Len(toNode') :
            i + a \in 1 .. Len(toNode) /\ toNode'[i] = toNode[i + a]
      BY <1>3 DEF NodeShrinks
    <3>2. PICK b \in Nat : \A i \in 1 .. Len(toHost') :
            i + b \in 1 .. Len(toHost) /\ toHost'[i] \subseteq toHost[i + b]
      BY <1>3 DEF HostShrinks
    <3>3. PICK c \in Nat : \A i \in 1 .. Len(queue') :
            i + c \in 1 .. Len(queue) /\ queue'[i] = queue[i + c]
      BY <1>3 DEF QueueShrinks
    <3> SUFFICES ASSUME call.count # 0 PROVE BlockInv'
      BY <1>3 DEF BlockInv
    <3>4. left' \subseteq Indices(call.count) /\ (outcome' = "ok" => left' = {})
      BY <1>3, <2>1 DEF BlockInv
    <3>5. ASSUME alone'
          PROVE  /\ \A i \in 1 .. Len(toNode') : toNode'[i] = Read(call.off, call.count)
                 /\ \A i \in 1 .. Len(toHost') : \A g \in toHost'[i] : OfBlock(g)
                 /\ \A i \in 1 .. Len(queue') : Own(queue'[i]) => OfBlock(queue'[i])
                 /\ DOMAIN got' = UNION {Part(i) : i \in Indices(call.count) \ left'}
      <4>1. \A i \in 1 .. Len(toNode') : toNode'[i] = Read(call.off, call.count)
        BY <1>3, <3>1, <3>5 DEF BlockInv
      <4>2. \A i \in 1 .. Len(toHost') : \A g \in toHost'[i] : OfBlock(g)
        BY <1>3, <3>2, <3>5 DEF BlockInv
      <4>3. \A i \in 1 .. Len(queue') : Own(queue'[i]) => OfBlock(queue'[i])
        BY <1>3, <3>3, <3>5 DEF BlockInv
      <4>4. OfBlock(f)
        <5>1. 1 \in 1 .. Len(queue)
          BY <1>3, LengthsAre DEF Lengths
        <5>2. alone /\ Own(queue[1])
          BY <1>3, <1>5, <3>5
        <5> QED BY <1>3, <5>1, <5>2 DEF BlockInv
      <4>5. f.index \in Indices(call.count) /\ Covers(f) = Part(f.index)
        BY <4>4 DEF OfBlock
      <4>6. DOMAIN got = UNION {Part(i) : i \in Indices(call.count) \ left}
        BY <1>3, <3>5 DEF BlockInv
      <4>7. Indices(call.count) \ left' = (Indices(call.count) \ left) \cup {f.index}
        BY <2>1, <4>5
      <4>8. DOMAIN got' = UNION {Part(i) : i \in Indices(call.count) \ left'}
        BY <2>4, <4>5, <4>6, <4>7
      <4> QED BY <4>1, <4>2, <4>3, <4>8
    <3> QED BY <1>3, <3>4, <3>5 DEF BlockInv, OfBlock, Part
  <2>9. foreign' \subseteq Offsets
    BY <2>1, <2>2 DEF HistoryOK
  <2> QED BY <1>3, <1>4, <2>6, <2>7, <2>8, <2>9
<1>6. CASE ~IsReply(f)
  <2>1. UNCHANGED <<left, got, foreign, rcvcnt, pc, outcome>>
    <3>1. UNCHANGED <<left, got, foreign, rcvcnt>> /\ WaitOn
      BY <1>2, <1>6 DEF ReceiveBlock
    <3> QED BY <1>3, <3>1, WaitOnFacts
  <2>2. CallOK'
    BY <1>1, <1>3, <2>1 DEF CallOK
  <2>3. CallInv'
    BY <1>1, <1>3, <2>1 DEF CallInv
  <2>4. BlockInv'
    BY <1>3, <2>1, BlockKeeps
  <2>5. foreign' \subseteq Offsets
    BY <2>1 DEF HistoryOK
  <2> QED BY <1>3, <1>4, <2>2, <2>3, <2>4, <2>5
<1> QED BY <1>5, <1>6

\* A new value that is confirmed is the only one the register may have.
LEMMA ConfirmKeeps ==
  ASSUME IInv, NEW kinds, Takes(kinds), NEW rs \in SUBSET Offsets, Confirm(rs),
         UNCHANGED <<fresh, foreign>>, Own(queue[1]), rs \subseteq Covers(queue[1]),
         \A r \in rs \cap fresh : Unconfirmed(r) => At(queue[1], r) = Sent(r),
         \A r \in fresh \ rs : r \in DOMAIN want /\ Unconfirmed(r) => r \in DOMAIN want' /\ want'[r] = want[r]
  PROVE  /\ PossibleInv' /\ FreshInv' /\ HistoryOK' /\ CountersOK' /\ FlagsOK'
         /\ \A r \in rs : At(queue[1], r) \in possible'[r]
         /\ \A r \in Offsets \ rs : possible'[r] = possible[r]
<1> USE DEF IInv, TypeOK
<1>1. /\ Len(queue) >= 1 /\ Head(queue) = queue[1] /\ queue[1] \in FrameSet
      /\ LineKeeps /\ UNCHANGED <<call, asked, counters>> /\ FlagsOK'
  BY TakesFacts
<1>2. /\ possible' = [r \in Offsets |-> IF r \in rs \cap fresh THEN {At(queue[1], r)} ELSE possible[r]]
      /\ possible \in [Offsets -> SUBSET Values] /\ fresh \subseteq Offsets
  BY <1>1 DEF Confirm, HistoryOK
<1>3. /\ \A r \in rs \cap fresh : possible'[r] = {At(queue[1], r)}
      /\ \A r \in Offsets : r \notin rs \cap fresh => possible'[r] = possible[r]
  BY <1>2
<1>4. \A r \in rs : Says(queue[1], r) /\ At(queue[1], r) \in possible[r] /\ At(queue[1], r) \in Values
  BY <1>1, FrameValues, TakenIsPossible DEF Says
<1>5. 1 \in 1 .. Len(queue)
  BY <1>1, LengthsAre DEF Lengths
<1>6. ASSUME NEW r \in rs \cap fresh PROVE AllIn(r, {At(queue[1], r)})
  <2>1. IsFresh(r) /\ r \in Offsets
    BY DEF FreshInv, IsFresh
  <2>2. CASE \E v \in Values : possible[r] = {v}
    <3>1. possible[r] = {At(queue[1], r)}
      BY <1>4, <2>2
    <3> QED BY <2>1, <3>1 DEF PossibleInv
  <2>3. CASE Unconfirmed(r) /\ NewValue(r, Sent(r))
    <3>1. PICK v : v = Sent(r)
      OBVIOUS
    <3>2. NewValue(r, v) /\ Says(queue[1], r) /\ At(queue[1], r) = v
      BY <1>4, <2>3, <3>1
    <3>3. /\ HostHas(r, v)
          /\ \A j \in 1 .. Len(queue) : Says(queue[j], r) => At(queue[j], r) = v
      BY <1>5, <3>2 DEF NewValue
    <3> QED BY <3>2, <3>3 DEF AllIn, HostHas, RegsHave, NodeHas
  <2> QED BY <2>1, <2>2, <2>3 DEF IsFresh
<1>7. PossibleInv'
  <2> SUFFICES ASSUME NEW r \in Offsets PROVE AllIn(r, possible[r])'
    BY DEF PossibleInv
  <2>1. CASE r \in rs \cap fresh
    <3>1. PICK S : S = possible'[r]
      OBVIOUS
    <3>2. AllIn(r, S)
      BY <1>3, <1>6, <2>1, <3>1
    <3>3. AllIn(r, S)'
      BY <1>1, <3>2 DEF LineKeeps
    <3> QED BY <3>1, <3>3 DEF AllIn
  <2>2. CASE r \notin rs \cap fresh
    BY <1>1, <1>3, <2>2, PossibleStays
  <2> QED BY <2>1, <2>2
<1>8. FreshInv'
  <2> SUFFICES ASSUME NEW r \in fresh PROVE IsFresh(r)'
    BY <1>1 DEF FreshInv, IsFresh
  <2>1. CASE r \in rs
    BY <1>3, <1>4, <2>1 DEF IsFresh
  <2>2. CASE r \notin rs
    <3>1. r \in Offsets /\ IsFresh(r)
      BY <1>2 DEF FreshInv, IsFresh
    <3>2. possible'[r] = possible[r]
      BY <1>3, <2>2, <3>1
    <3> QED BY <1>1, <2>2, <3>1, <3>2, FreshStays
  <2> QED BY <2>1, <2>2
<1>9. HistoryOK'
  <2>1. \A r \in rs \cap fresh : {At(queue[1], r)} \in SUBSET Values
    BY <1>4
  <2>2. possible' \in [Offsets -> SUBSET Values]
    BY <1>2, <2>1
  <2> QED BY <1>1, <2>2 DEF HistoryOK
<1>10. CountersOK'
  BY <1>1 DEF CountersOK
<1>11. FlagsOK'
  BY <1>1
<1>12. /\ \A r \in rs : At(queue[1], r) \in possible'[r]
       /\ \A r \in Offsets \ rs : possible'[r] = possible[r]
  BY <1>3, <1>4
<1> QED BY <1>7, <1>8, <1>9, <1>10, <1>11, <1>12

\* The reply to the write of a register, or another event.
LEMMA ReceiveWriteKeeps ==
  ASSUME IInv, ReceiveWrite
  PROVE  IInv'
<1> USE DEF IInv, TypeOK
<1>1. Takes(WriteKinds) /\ UNCHANGED <<blockVars, fresh, foreign>>
  BY DEF ReceiveWrite
<1>2. PICK f : f = Head(queue)
  OBVIOUS
<1>3. /\ call.kind \in WriteKinds /\ f \in FrameSet /\ Len(queue) >= 1 /\ f = queue[1]
      /\ WayOK' /\ call' = call /\ pc = "wait"
  BY <1>1, <1>2, TakesFacts
<1>4. call.kind \notin {"readBlock", "writeBlock"} /\ call.kind \notin ReadKinds
  BY <1>3 DEF ReadKinds, WriteKinds
<1>5. pc' \in {"idle", "wait"} /\ outcome' \in {outcome, "ok", "mismatch"}
  <2>1. WaitOn => pc' \in {"idle", "wait"} /\ outcome' \in {outcome, "ok"}
    BY <1>3, <1>4, WaitOnFacts
  <2> QED BY <1>3, <2>1 DEF ReceiveWrite, End
<1>6. CallOK' /\ BlockInv'
  <2>1. CallOK'
    BY <1>1, <1>3, <1>5 DEF CallOK
  <2>2. BlockInv'
    BY <1>3, <1>4 DEF BlockInv
  <2> QED BY <2>1, <2>2
<1>7. CASE UNCHANGED possible
  <2>1. PossibleInv' /\ FreshInv' /\ HistoryOK' /\ CountersOK' /\ FlagsOK'
    <3>1. foreign' \subseteq Offsets
      BY <1>1 DEF HistoryOK
    <3> QED BY <1>1, <1>7, <3>1, TakenKeeps
  <2>2. CallInv'
    BY <1>1, <1>3, <1>5, <1>7 DEF CallInv
  <2> QED BY <1>3, <1>6, <2>1, <2>2
<1>8. CASE Answers(f) /\ Accepts(f) /\ Own(f) /\ call.kind # "viaWrite" /\ Confirm({call.off})
  <2>1. f.data[1] = call.map[call.off]
    BY <1>8 DEF Accepts
  <2>2. call.off \in Covers(f) /\ At(f, call.off) = f.data[1]
    BY <1>3, <1>8, AnswerCovers
  <2>3. PICK rs \in SUBSET Offsets : rs = {call.off}
    BY <1>3, <2>2, FrameValues
  <2>4. /\ Own(queue[1]) /\ rs \subseteq Covers(queue[1]) /\ Confirm(rs)
        /\ \A r \in rs \cap fresh : Unconfirmed(r) => At(queue[1], r) = Sent(r)
    BY <1>3, <1>4, <1>8, <2>1, <2>2, <2>3 DEF Sent
  <2>5. \A r \in fresh \ rs : r \in DOMAIN want /\ Unconfirmed(r) => r \in DOMAIN want' /\ want'[r] = want[r]
    BY <1>1
  <2>6. /\ PossibleInv' /\ FreshInv' /\ HistoryOK' /\ CountersOK' /\ FlagsOK'
        /\ \A r \in rs : At(queue[1], r) \in possible'[r]
    BY <1>1, <2>4, <2>5, ConfirmKeeps
  <2>7. call.map[call.off] \in possible'[call.off]
    BY <1>3, <2>1, <2>2, <2>3, <2>6
  <2>8. CallInv'
    BY <1>1, <1>3, <1>4, <1>5, <2>7 DEF CallInv
  <2> QED BY <1>3, <1>6, <2>6, <2>8
<1>9. CASE Confirm({}) \/ (~Own(f) /\ Confirm({call.off}))
  <2>1. possible' = [r \in Offsets |-> possible[r]]
    BY <1>2, <1>9 DEF Confirm
  <2>2. UNCHANGED possible
    BY <2>1 DEF HistoryOK
  <2> QED BY <1>7, <2>2
<1>10. \/ UNCHANGED possible
       \/ /\ Answers(f) /\ Accepts(f)
          /\ Confirm(IF call.kind = "viaWrite" THEN {} ELSE {call.off})
  BY <1>2 DEF ReceiveWrite
<1> QED BY <1>7, <1>8, <1>9, <1>10

\* A block write gets the reply to a frame, or another event.
LEMMA ReceiveBlockWriteKeeps ==
  ASSUME IInv, ReceiveBlockWrite
  PROVE  IInv'
<1> USE DEF IInv, TypeOK
<1>1. Takes({"writeBlock"}) /\ UNCHANGED <<rest, left, rcvcnt, got, foreign>>
  BY DEF ReceiveBlockWrite
<1>2. PICK f : f = Head(queue)
  OBVIOUS
<1>3. /\ call.kind = "writeBlock" /\ f \in FrameSet /\ Len(queue) >= 1 /\ f = queue[1]
      /\ WayOK' /\ call' = call /\ pc = "wait"
  BY <1>1, <1>2, TakesFacts
<1>4. BlockInv'
  BY <1>3 DEF BlockInv
<1>5. CallInv' /\ foreign' \subseteq Offsets
  <2>1. call.kind \notin WriteKinds /\ call.kind \notin ReadKinds
    BY <1>3 DEF ReadKinds, WriteKinds
  <2> QED BY <1>1, <1>3, <2>1 DEF CallInv, HistoryOK
<1>6. CASE IsReply(f) /\ f.index = 0
  <2> DEFINE m == Filled(want, Covers(f))
             done == Confirmed(f, m)
  <2>1. /\ want' = [r \in DOMAIN m \ done |-> m[r]] /\ Confirm(done)
        /\ fresh' = IF Own(f) THEN fresh ELSE fresh \ done
        /\ pc' \in {"idle", "send"} /\ outcome' \in {outcome, "ok"}
    BY <1>2, <1>6 DEF ReceiveBlockWrite, End, NextFrame
  <2>2. want \in Maps /\ Covers(f) \in SUBSET Offsets
    BY <1>3, FrameValues DEF CallOK
  <2> HIDE DEF m
  <2>3. m \in Maps /\ DOMAIN m = DOMAIN want \cup Covers(f) /\ \A r \in DOMAIN want : m[r] = want[r]
    BY <2>2, FilledIs DEF m
  <2>4. done \in SUBSET Offsets /\ done \subseteq Covers(f) /\ \A r \in done : m[r] = At(f, r)
    BY <2>2 DEF Confirmed
  <2> HIDE DEF done
  <2>5. want' \in Maps
    <3>1. m \in [DOMAIN m -> Values] /\ DOMAIN m \subseteq Offsets
      BY <2>3, MapIsFunction
    <3>2. want' \in [DOMAIN m \ done -> Values] /\ DOMAIN m \ done \in SUBSET Offsets
      BY <2>1, <3>1
    <3> QED BY <3>2, FunctionIsMap
  <2>6. \A r \in done \cap fresh : Unconfirmed(r) => At(queue[1], r) = Sent(r)
    BY <1>3, <2>3, <2>4 DEF Unconfirmed, Sent
  <2>7. \A r \in fresh \ done : r \in DOMAIN want /\ Unconfirmed(r) =>
          r \in DOMAIN want' /\ want'[r] = want[r]
    BY <2>1, <2>3
  <2>8. PossibleInv' /\ FreshInv' /\ HistoryOK' /\ CountersOK' /\ FlagsOK'
    <3>1. CASE Own(f)
      <4>1. Own(queue[1]) /\ done \subseteq Covers(queue[1]) /\ UNCHANGED <<fresh, foreign>>
        BY <1>1, <1>3, <2>1, <2>4, <3>1
      <4> QED BY <1>1, <2>1, <2>4, <2>6, <2>7, <4>1, ConfirmKeeps
    <3>2. CASE ~Own(f)
      <4>1. possible' = [r \in Offsets |-> possible[r]]
        BY <1>2, <2>1, <3>2 DEF Confirm
      <4>2. UNCHANGED possible
        BY <4>1 DEF HistoryOK
      <4>3. fresh' = fresh \ done
        BY <2>1, <3>2
      <4>4. \A r \in fresh' : r \in DOMAIN want /\ Unconfirmed(r) =>
              r \in DOMAIN want' /\ want'[r] = want[r]
        BY <2>7, <4>3
      <4> QED BY <1>1, <1>5, <4>2, <4>3, <4>4, TakenKeeps
    <3> QED BY <3>1, <3>2
  <2>9. CallOK'
    BY <1>1, <1>3, <2>1, <2>5 DEF CallOK
  <2> QED BY <1>3, <1>4, <1>5, <2>8, <2>9
<1>7. CASE ~(IsReply(f) /\ f.index = 0)
  <2>1. UNCHANGED <<want, possible, fresh>> /\ WaitOn
    BY <1>2, <1>7 DEF ReceiveBlockWrite
  <2>2. pc' \in {"idle", "send", "wait"} /\ outcome' \in {outcome, "ok"}
    BY <1>3, <2>1, WaitOnFacts
  <2>3. PossibleInv' /\ FreshInv' /\ HistoryOK' /\ CountersOK' /\ FlagsOK'
    BY <1>1, <1>5, <2>1, TakenKeeps
  <2>4. CallOK'
    BY <1>1, <1>3, <2>1, <2>2 DEF CallOK
  <2> QED BY <1>3, <1>4, <1>5, <2>3, <2>4
<1> QED BY <1>6, <1>7
-----------------------------------------------------------------------------
(* The theorems.                                                            *)

\* The invariant holds at the start.
LEMMA InitIInv == Init => IInv
<1> SUFFICES ASSUME Init PROVE IInv
  OBVIOUS
<1>1. 0 \in Values /\ 0 \in Offsets
  BY RegistersAssumption, OffsetsInterval
<1>2. /\ regs = [r \in Offsets |-> 0] /\ possible = [r \in Offsets |-> {regs[r]}] /\ fresh = {}
      /\ toNode = <<>> /\ toHost = <<>> /\ queue = <<>>
  BY DEF Init
<1>3. /\ call = NoCall /\ pc = "idle" /\ want = Empty /\ rest = {} /\ left = {} /\ rcvcnt = 0
      /\ got = Empty /\ outcome = "none"
  BY DEF Init
<1>4. WayOK
  BY <1>1, <1>2 DEF WayOK
<1>5. CallOK
  BY <1>1, <1>3, EmptyIsMap DEF CallOK
<1>6. FlagsOK /\ CountersOK
  BY DEF Init, FlagsOK, CountersOK
<1>7. HistoryOK
  BY <1>1, <1>2 DEF Init, HistoryOK
<1>8. \A r \in Offsets : regs[r] \in possible[r]
  BY <1>2
<1>9. Len(toNode) = 0 /\ Len(toHost) = 0 /\ Len(queue) = 0
  BY <1>2
<1>10. PossibleInv
  BY <1>8, <1>9 DEF PossibleInv, AllIn
<1>11. FreshInv
  BY <1>2 DEF FreshInv
<1>12. call.kind = "read" /\ call.kind \notin WriteKinds /\ DOMAIN got = {}
  BY <1>3, EmptyIsMap DEF NoCall, Call, WriteKinds
<1>13. CallInv /\ BlockInv
  BY <1>3, <1>12 DEF CallInv, BlockInv
<1> QED BY <1>4, <1>5, <1>6, <1>7, <1>10, <1>11, <1>13 DEF IInv, TypeOK

\* A step that changes nothing keeps the invariant.
LEMMA StutterKeeps ==
  ASSUME IInv, UNCHANGED vars
  PROVE  IInv'
<1>1. UNCHANGED hostKeeps /\ UNCHANGED nodeVars /\ queue' = queue /\ UNCHANGED counters
  BY DEF vars
<1>2. WayOK'
  BY <1>1 DEF IInv, TypeOK, WayOK
<1>3. Lengths /\ Lengths' /\ NodeShrinks /\ HostShrinks /\ QueueShrinks /\ regs' = regs
  BY <1>1, <1>2, LengthsAre, ShrinkFacts DEF IInv, TypeOK
<1>4. LineKeeps
  BY <1>3, ShrinkKeeps DEF LineKeeps
<1>5. BlockInv'
  BY <1>1, <1>3, BlockKeeps DEF IInv
<1>6. CountersOK'
  BY <1>1 DEF IInv, TypeOK, CountersOK
<1> QED BY <1>1, <1>2, <1>4, <1>5, <1>6, NetworkKeeps DEF IInv, TypeOK

\* Every step keeps the invariant.
LEMMA NextKeeps == IInv /\ [Next]_vars => IInv'
<1> SUFFICES ASSUME IInv, [Next]_vars PROVE IInv'
  OBVIOUS
<1>1. CASE NodeAnswers
  BY <1>1, NodeAnswersKeeps
<1>2. CASE Deliver
  BY <1>2, DeliverKeeps
<1>3. CASE Lost
  BY <1>3, LostKeeps
<1>4. CASE OtherEvent
  BY <1>4, OtherEventKeeps
<1>5. CASE Begin
  BY <1>5, BeginKeeps
<1>6. CASE SendFrame
  BY <1>6, SendFrameKeeps
<1>7. CASE Resend
  BY <1>7, ResendKeeps
<1>8. CASE GiveUp
  BY <1>8, GiveUpKeeps
<1>9. CASE ClientFails
  BY <1>9, ClientFailsKeeps
<1>10. CASE ReceiveRead
  BY <1>10, ReceiveReadKeeps
<1>11. CASE ReceiveWrite
  BY <1>11, ReceiveWriteKeeps
<1>12. CASE ReceiveBlock
  BY <1>12, ReceiveBlockKeeps
<1>13. CASE ReceiveBlockWrite
  BY <1>13, ReceiveBlockWriteKeeps
<1>14. CASE UNCHANGED vars
  BY <1>14, StutterKeeps
<1> QED BY <1>1, <1>2, <1>3, <1>4, <1>5, <1>6, <1>7, <1>8, <1>9, <1>10, <1>11, <1>12, <1>13, <1>14
        DEF Next, Host

\* The inductive invariant of the register calls.
THEOREM RegistersInvariant == Spec => []IInv
<1>1. Init => IInv
  BY InitIInv
<1>2. IInv /\ [Next]_vars => IInv'
  BY NextKeeps
<1> QED BY <1>1, <1>2, PTL DEF Spec

\* A wait that ends without a reply ends with success only without a limit.
LEMMA NoReplyNoSuccess ==
  ASSUME ReadInv, UNCHANGED <<call, got, foreign>>,
         (WaitOn /\ call.kind # "writeBlock") \/ UNCHANGED outcome \/ GiveUp
  PROVE  ReadInv'
<1>1. outcome' = "ok" /\ call.limit => outcome = "ok"
  <2>1. CASE WaitOn
    BY <2>1 DEF WaitOn, OneTurn
  <2>2. CASE GiveUp
    BY <2>2 DEF GiveUp, OneTurn, NextFrame, End
  <2> QED BY <2>1, <2>2
<1> QED BY <1>1 DEF ReadInv

\* Every step keeps the origin of what was read.
LEMMA ReadInvKeeps == ReadInv /\ [Next]_vars => ReadInv'
<1> SUFFICES ASSUME ReadInv, [Next]_vars PROVE ReadInv'
  OBVIOUS
<1>1. CASE NodeAnswers \/ Deliver \/ Lost \/ OtherEvent \/ SendFrame \/ Resend \/ UNCHANGED vars
  <2>1. UNCHANGED <<call, got, foreign, outcome>>
    BY <1>1 DEF NodeAnswers, Deliver, Lost, OtherEvent, SendFrame, Resend, vars, hostKeeps, blockVars,
                historyVars
  <2> QED BY <2>1 DEF ReadInv
<1>2. CASE Begin
  <2>1. foreign' = {} /\ (outcome' = "ok" => call'.kind = "writeBlock")
    BY <1>2 DEF Begin
  <2> QED BY <2>1 DEF ReadInv
<1>3. CASE GiveUp
  <2>1. UNCHANGED <<call, got, foreign>>
    BY <1>3 DEF GiveUp, blockVars, historyVars
  <2> QED BY <1>3, <2>1, NoReplyNoSuccess
<1>4. CASE ClientFails
  BY <1>4 DEF ClientFails, End, ReadInv, blockVars, historyVars
<1>5. CASE ReceiveRead
  <2> DEFINE f == Head(queue)
  <2>1. call' = call /\ call.kind \in {"read", "ifRead"}
    BY <1>5 DEF ReceiveRead, Takes
  <2>2. CASE Answers(f)
    <3>1. got' = [r \in {call.off} |-> f.data[1]] /\ foreign' = IF Own(f) THEN {} ELSE {call.off}
      BY <1>5, <2>2 DEF ReceiveRead
    <3>2. call.kind \in IfKinds => Own(f)
      BY <2>2 DEF Answers, IsReply, Own
    <3> QED BY <2>1, <3>1, <3>2 DEF ReadInv
  <2>3. CASE ~Answers(f)
    <3>1. UNCHANGED <<got, foreign>> /\ WaitOn
      BY <1>5, <2>3 DEF ReceiveRead
    <3> QED BY <2>1, <3>1, NoReplyNoSuccess
  <2> QED BY <2>2, <2>3
<1>6. CASE ReceiveWrite
  <2>1. call' = call /\ call.kind \in WriteKinds /\ foreign' = foreign
    BY <1>6 DEF ReceiveWrite, Takes
  <2> QED BY <2>1 DEF ReadInv, WriteKinds
<1>7. CASE ReceiveBlock
  <2>1. call' = call /\ call.kind = "readBlock"
    BY <1>7 DEF ReceiveBlock, Takes
  <2> QED BY <2>1 DEF ReadInv, IfKinds
<1>8. CASE ReceiveBlockWrite
  <2>1. call' = call /\ call.kind = "writeBlock"
    BY <1>8 DEF ReceiveBlockWrite, Takes
  <2> QED BY <2>1 DEF ReadInv, IfKinds
<1> QED BY <1>1, <1>2, <1>3, <1>4, <1>5, <1>6, <1>7, <1>8 DEF Next, Host

\* What a successful call has read from this node, of one register
\* (register.cpp:110 and vscpremotetcpif.cpp) or of a block, is a value the
\* register may hold, and the confirmed value alone once the node has confirmed
\* a write of a new one: for any number of lost, late and repeated requests and
\* replies, whatever other nodes send.  With a time limit, a read of one register
\* that succeeds has a value, and the calls of the interface have it from the
\* node (vscpremotetcpif.cpp:4340).
THEOREM RegistersReadIsPossible == Spec => []ReadIsPossible
<1>1. Init => ReadInv
  BY DEF Init, ReadInv, NoCall, Call, IfKinds
<1>2. ReadInv /\ [Next]_vars => ReadInv'
  BY ReadInvKeeps
<1>3. IInv /\ ReadInv => ReadIsPossible
  BY DEF IInv, CallInv, ReadInv, ReadIsPossible
<1> QED BY <1>1, <1>2, <1>3, RegistersInvariant, PTL DEF Spec

\* Once the node has confirmed a write of a new value to a call that compares
\* it (register.cpp:207, 462, vscpremotetcpif.cpp:4746), it has the value until
\* the host sends another, whatever other nodes send.
THEOREM RegistersWriteIsDone == Spec => []WriteIsDone
<1>1. IInv => WriteIsDone
  BY DEF IInv, PossibleInv, AllIn, WriteIsDone
<1> QED BY <1>1, RegistersInvariant, PTL

\* The frames of a block cover it.
LEMMA PartsAreBlock ==
  ASSUME NEW off \in Nat, NEW count \in Nat, count > 0
  PROVE  UNION {off + i * Chunk .. off + i * Chunk + Size(count, i) - 1 : i \in Indices(count)}
           = off .. off + count - 1
<1>0. Chunk \in Nat /\ Chunk > 0
  BY RegistersAssumption
<1> DEFINE P(i) == off + i * Chunk .. off + i * Chunk + Size(count, i) - 1
<1>1. ASSUME NEW i \in Indices(count) PROVE P(i) \subseteq off .. off + count - 1
  <2>1. PICK a : a = i * Chunk
    OBVIOUS
  <2>2. a \in Nat /\ Size(count, i) \in Nat /\ a + Size(count, i) <= count
    BY <2>1, SizeFits
  <2>3. \A x \in off + a .. off + a + Size(count, i) - 1 : x \in off .. off + count - 1
    BY <2>2
  <2> QED BY <2>1, <2>3
<1>2. ASSUME NEW x \in off .. off + count - 1 PROVE \E i \in Indices(count) : x \in P(i)
  <2>1. PICK y \in Nat : y = x - off /\ y < count
    OBVIOUS
  <2>2. PICK i \in Nat : i * Chunk <= y /\ y < i * Chunk + Chunk
    <3>1. y \div Chunk \in Nat /\ (y \div Chunk) * Chunk <= y /\ y < (y \div Chunk) * Chunk + Chunk
      BY <1>0
    <3> QED BY <3>1
  <2>3. i <= i * Chunk
    BY <1>0
  <2>4. PICK a \in Nat : a = i * Chunk
    BY <1>0
  <2>5. i \in Indices(count)
    <3>1. i \in 0 .. count - 1 /\ a < count
      BY <2>1, <2>2, <2>3, <2>4
    <3> QED BY <2>4, <3>1 DEF Indices
  <2>6. Size(count, i) \in {Chunk, count - a}
    <3>1. \E z \in {Chunk, count - a} : \A w \in {Chunk, count - a} : z <= w
      <4>1. Chunk \in Int /\ count - a \in Int
        BY <1>0
      <4> QED BY <4>1
    <3> QED BY <2>4, <3>1 DEF Size, Min
  <2>7. y < a + Size(count, i) /\ a <= y
    BY <1>0, <2>1, <2>2, <2>4, <2>6
  <2>8. Size(count, i) \in Int
    BY <1>0, <2>6
  <2>9. x \in off + a .. off + a + Size(count, i) - 1
    BY <2>1, <2>7, <2>8
  <2> QED BY <2>4, <2>5, <2>9
<1> HIDE DEF P
<1>3. UNION {P(i) : i \in Indices(count)} = off .. off + count - 1
  BY <1>1, <1>2
<1> QED BY <1>3 DEF P

\* A read of a block smaller than the page that succeeds has read every register
\* of the block, and no other, whatever frames were lost or came in which order
\* (register.cpp:256), when only reads of this block were on their way and no
\* frame of another node was taken for one of this.
THEOREM RegistersBlockIsComplete == Spec => []BlockIsComplete
<1>1. IInv => BlockIsComplete
  <2> SUFFICES ASSUME IInv, outcome = "ok", call.kind = "readBlock", call.count # 0, alone
               PROVE  DOMAIN got = call.off .. call.off + call.count - 1
    BY DEF BlockIsComplete
  <2>1. left = {} /\ DOMAIN got = UNION {Part(i) : i \in Indices(call.count) \ left}
    BY DEF IInv, BlockInv
  <2>2. DOMAIN got = UNION {Part(i) : i \in Indices(call.count)}
    BY <2>1
  <2>3. call.off \in Nat /\ call.count \in Nat /\ call.count > 0
    <3>1. call \in Calls \cup {NoCall}
      BY DEF IInv, TypeOK, CallOK
    <3>2. call.off \in Nat /\ call.count \in Nat
      BY <3>1, CallsAre, OffsetsInterval
    <3> QED BY <3>2
  <2>4. UNION {Part(i) : i \in Indices(call.count)} = call.off .. call.off + call.count - 1
    BY <2>3, PartsAreBlock DEF Part
  <2> QED BY <2>2, <2>4
<1> QED BY <1>1, RegistersInvariant, PTL

=============================================================================

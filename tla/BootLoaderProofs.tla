-------------------------- MODULE BootLoaderProofs --------------------------
(***************************************************************************)
(* The node never programs data other than the image's, and a block that   *)
(* the host has passed is programmed, for any image, size of a chunk and   *)
(* number of restarts of the node, whatever is lost or late.               *)
(***************************************************************************)
EXTENDS BootLoader, TLAPS

USE BootLoaderAssumption DEF load, host, node, Tries

-----------------------------------------------------------------------------
(* Sequences and the image.                                                  *)

\* What Append does to a sequence.
LEMMA Appended ==
  ASSUME NEW S, NEW s \in Seq(S), NEW e \in S, NEW r, r = Append(s, e) \/ r = s \o <<e>>
  PROVE  /\ r \in Seq(S) /\ Len(s) \in Nat /\ Len(r) = Len(s) + 1
         /\ \A i \in 1 .. Len(s) : r[i] = s[i]
         /\ r[Len(s) + 1] = e
<1>1. CASE r = Append(s, e)
  BY <1>1
<1>2. CASE r = s \o <<e>>
  BY <1>2
<1> QED BY <1>1, <1>2

\* What two more elements do to a sequence.
LEMMA AppendedTwo ==
  ASSUME NEW S, NEW s \in Seq(S), NEW d \in S, NEW e \in S, NEW r, r = s \o <<d, e>>
  PROVE  /\ r \in Seq(S) /\ Len(s) \in Nat /\ Len(r) = Len(s) + 2
         /\ \A i \in 1 .. Len(s) : r[i] = s[i]
         /\ r[Len(s) + 1] = d /\ r[Len(s) + 2] = e
OBVIOUS

\* What taking the head does to a sequence.
LEMMA Popped ==
  ASSUME NEW S, NEW s \in Seq(S), s # <<>>, NEW r, r = Tail(s)
  PROVE  /\ r \in Seq(S) /\ Len(s) \in Nat /\ Len(s) >= 1 /\ Len(r) = Len(s) - 1
         /\ \A i \in 1 .. Len(s) - 1 : r[i] = s[i + 1]
         /\ Head(s) = s[1] /\ Head(s) \in S
OBVIOUS

\* The element of a sequence of one.
LEMMA TheElement == ASSUME NEW S, NEW s \in Seq(S), NEW c, s = <<c>> PROVE c \in S
<1>1. Len(s) = 1 /\ s[1] = c
  OBVIOUS
<1> QED BY <1>1

\* A block is sent in at least one chunk.
LEMMA SomeChunks == ASSUME NEW size \in Nat PROVE ChunksOf(size) \in Nat /\ ChunksOf(size) >= 1
<1>1. ASSUME size > ChunkSize
      PROVE  size \div ChunkSize \in Nat /\ size \div ChunkSize >= 1
  BY <1>1
<1> QED BY <1>1 DEF ChunksOf

\* A block is a memory type and a number.
LEMMA BlockParts ==
  ASSUME device \in Loads, NEW x
  PROVE  x \in Blocks <=> /\ x = <<x[1], x[2]>> /\ x[1] \in 1 .. Len(Image)
                          /\ x[2] \in 0 .. Len(Image[x[1]]) - 1
<1>1. Image \in Seq(Seq(Seq(Nat)))
  BY DEF Image
<1>2. DOMAIN Image = 1 .. Len(Image)
  BY <1>1
<1>3. ASSUME x \in Blocks
      PROVE  /\ x = <<x[1], x[2]>> /\ x[1] \in 1 .. Len(Image)
             /\ x[2] \in 0 .. Len(Image[x[1]]) - 1
  <2>1. PICK t \in DOMAIN Image : x \in {t} \X (0 .. Len(Image[t]) - 1)
    BY <1>3 DEF Blocks
  <2> QED BY <1>2, <2>1
<1>4. ASSUME x = <<x[1], x[2]>>, x[1] \in 1 .. Len(Image), x[2] \in 0 .. Len(Image[x[1]]) - 1
      PROVE  x \in Blocks
  <2>1. x \in {x[1]} \X (0 .. Len(Image[x[1]]) - 1)
    BY <1>4
  <2> QED BY <1>2, <1>4, <2>1 DEF Blocks
<1> QED BY <1>3, <1>4

\* The data of a block: as many chunks as are sent.
LEMMA BlockChunks ==
  ASSUME device \in Loads
  PROVE  /\ Image \in Seq(Seq(Seq(Nat))) /\ NChunks \in Nat /\ NChunks >= 1 /\ BlockSize \in Nat
         /\ NoBlock \notin Blocks
         /\ \A x \in Blocks : BlockData(x) \in Seq(Nat) /\ Len(BlockData(x)) = NChunks
<1>1. /\ Image \in Seq(Seq(Seq(Nat))) /\ BlockSize \in Nat
      /\ \A t \in DOMAIN Image : \A b \in DOMAIN Image[t] : Len(Image[t][b]) = NChunks
  BY DEF Image, NChunks, BlockSize
<1>2. NChunks \in Nat /\ NChunks >= 1
  BY <1>1, SomeChunks DEF NChunks
<1>3. ASSUME NEW x \in Blocks
      PROVE  BlockData(x) \in Seq(Nat) /\ Len(BlockData(x)) = NChunks
  <2>1. x[1] \in DOMAIN Image /\ x[2] \in 0 .. Len(Image[x[1]]) - 1
    BY <1>1, BlockParts
  <2>2. Image[x[1]] \in Seq(Seq(Nat))
    BY <1>1, <2>1
  <2>3. x[2] + 1 \in DOMAIN Image[x[1]]
    BY <2>1, <2>2
  <2> QED BY <1>1, <2>1, <2>2, <2>3 DEF BlockData
<1>4. NoBlock \notin Blocks
  BY BlockParts DEF NoBlock
<1> QED BY <1>1, <1>2, <1>3, <1>4
-----------------------------------------------------------------------------
(* The stream.                                                               *)

\* Taking the oldest answer; what was never behind it is gone.
LEMMA AnswerTaken ==
  ASSUME StreamOK, toHost # <<>>, toHost' = Tail(toHost), toNode' = toNode, NEW K, NEW L
  PROVE  /\ NoneOf(K) => NoneOf(K)'
         /\ Never(K, L) => Never(K, L)'
         /\ Head(toHost).to \in K /\ Never(K, L) => NoneOf(L)'
<1>1. /\ Len(toHost) \in Nat /\ Len(toHost) >= 1 /\ Len(toHost') = Len(toHost) - 1
      /\ \A i \in 1 .. Len(toHost) - 1 : toHost'[i] = toHost[i + 1]
      /\ Head(toHost) = toHost[1]
  BY Popped DEF StreamOK
<1>2. \A i \in 1 .. Len(toHost') : i + 1 \in 1 .. Len(toHost) /\ toHost'[i] = toHost[i + 1]
  BY <1>1
<1>3. NoneOf(K) => NoneOf(K)'
  BY <1>2 DEF NoneOf
<1>4. Never(K, L) => Never(K, L)'
  <2> SUFFICES ASSUME Never(K, L) PROVE Never(K, L)'
    OBVIOUS
  <2>1. \A i, j \in 1 .. Len(toHost') : i < j /\ toHost'[i].to \in K => toHost'[j].to \notin L
    <3> SUFFICES ASSUME NEW i \in 1 .. Len(toHost'), NEW j \in 1 .. Len(toHost'), i < j, toHost'[i].to \in K
                 PROVE  toHost'[j].to \notin L
      OBVIOUS
    <3>1. i + 1 < j + 1
      BY <1>1
    <3> QED BY <1>2, <3>1 DEF Never
  <2>2. \A i \in 1 .. Len(toHost'), j \in 1 .. Len(toNode) : toHost'[i].to \in K => toNode[j].to \notin L
    BY <1>2 DEF Never
  <2>3. \A i, j \in 1 .. Len(toNode) : i < j /\ toNode[i].to \in K => toNode[j].to \notin L
    BY DEF Never
  <2> QED BY <2>1, <2>2, <2>3 DEF Never
<1>5. Head(toHost).to \in K /\ Never(K, L) => NoneOf(L)'
  <2> SUFFICES ASSUME toHost[1].to \in K, Never(K, L) PROVE NoneOf(L)'
    BY <1>1
  <2>0. 1 \in 1 .. Len(toHost)
    BY <1>1
  <2>1. ASSUME NEW i \in 1 .. Len(toHost') PROVE toHost'[i].to \notin L
    <3>1. 1 < i + 1
      BY <1>1
    <3> QED BY <1>2, <2>0, <3>1 DEF Never
  <2>2. \A i \in 1 .. Len(toNode) : toNode[i].to \notin L
    BY <2>0 DEF Never
  <2> QED BY <2>1, <2>2 DEF NoneOf
<1> QED BY <1>3, <1>4, <1>5

\* A request disappears.
LEMMA RequestDropped ==
  ASSUME StreamOK, toNode # <<>>, toNode' = Tail(toNode), toHost' = toHost, NEW K, NEW L
  PROVE  /\ NoneOf(K) => NoneOf(K)'
         /\ Never(K, L) => Never(K, L)'
<1>1. /\ Len(toNode) \in Nat /\ Len(toNode) >= 1 /\ Len(toNode') = Len(toNode) - 1
      /\ \A i \in 1 .. Len(toNode) - 1 : toNode'[i] = toNode[i + 1]
  BY Popped DEF StreamOK
<1>2. \A i \in 1 .. Len(toNode') : i + 1 \in 1 .. Len(toNode) /\ toNode'[i] = toNode[i + 1]
  BY <1>1
<1>3. NoneOf(K) => NoneOf(K)'
  BY <1>2 DEF NoneOf
<1>4. Never(K, L) => Never(K, L)'
  <2> SUFFICES ASSUME Never(K, L) PROVE Never(K, L)'
    OBVIOUS
  <2>1. \A i, j \in 1 .. Len(toNode') : i < j /\ toNode'[i].to \in K => toNode'[j].to \notin L
    <3> SUFFICES ASSUME NEW i \in 1 .. Len(toNode'), NEW j \in 1 .. Len(toNode'), i < j, toNode'[i].to \in K
                 PROVE  toNode'[j].to \notin L
      OBVIOUS
    <3>1. i + 1 < j + 1
      BY <1>1
    <3> QED BY <1>2, <3>1 DEF Never
  <2>2. \A i \in 1 .. Len(toHost), j \in 1 .. Len(toNode') : toHost[i].to \in K => toNode'[j].to \notin L
    BY <1>2 DEF Never
  <2>3. \A i, j \in 1 .. Len(toHost) : i < j /\ toHost[i].to \in K => toHost[j].to \notin L
    BY DEF Never
  <2> QED BY <2>1, <2>2, <2>3 DEF Never
<1> QED BY <1>3, <1>4

\* A request is added at the end.
LEMMA RequestAdded ==
  ASSUME StreamOK, NEW m \in Requests, toNode' = Append(toNode, m), toHost' = toHost, NEW K, NEW L
  PROVE  /\ NoneOf(K) /\ m.to \notin K => NoneOf(K)'
         /\ Never(K, L) /\ m.to \notin L => Never(K, L)'
         /\ NoneOf(K) => Never(K, L)'
<1>1. /\ Len(toNode) \in Nat /\ Len(toNode') = Len(toNode) + 1
      /\ \A i \in 1 .. Len(toNode) : toNode'[i] = toNode[i]
      /\ toNode'[Len(toNode) + 1] = m
  BY Appended DEF StreamOK
<1>2. \A i \in 1 .. Len(toNode') : \/ i \in 1 .. Len(toNode) /\ toNode'[i] = toNode[i]
                                   \/ i = Len(toNode) + 1 /\ toNode'[i] = m
  BY <1>1
<1>3. NoneOf(K) /\ m.to \notin K => NoneOf(K)'
  BY <1>2 DEF NoneOf
<1>4. Never(K, L) /\ m.to \notin L => Never(K, L)'
  <2> SUFFICES ASSUME Never(K, L), m.to \notin L PROVE Never(K, L)'
    OBVIOUS
  <2>1. \A i, j \in 1 .. Len(toNode') : i < j /\ toNode'[i].to \in K => toNode'[j].to \notin L
    <3> SUFFICES ASSUME NEW i \in 1 .. Len(toNode'), NEW j \in 1 .. Len(toNode), i < j, toNode'[i].to \in K
                 PROVE  toNode[j].to \notin L
      BY <1>2
    <3>1. i \in 1 .. Len(toNode)
      BY <1>1
    <3> QED BY <1>1, <3>1 DEF Never
  <2>2. \A i \in 1 .. Len(toHost), j \in 1 .. Len(toNode') : toHost[i].to \in K => toNode'[j].to \notin L
    BY <1>2 DEF Never
  <2>3. \A i, j \in 1 .. Len(toHost) : i < j /\ toHost[i].to \in K => toHost[j].to \notin L
    BY DEF Never
  <2> QED BY <2>1, <2>2, <2>3 DEF Never
<1>5. NoneOf(K) => Never(K, L)'
  <2> SUFFICES ASSUME NoneOf(K) PROVE Never(K, L)'
    OBVIOUS
  <2>1. \A i, j \in 1 .. Len(toNode') : i < j /\ toNode'[i].to \in K => toNode'[j].to \notin L
    <3> SUFFICES ASSUME NEW i \in 1 .. Len(toNode'), NEW j \in 1 .. Len(toNode'), i < j, toNode'[i].to \in K
                 PROVE  FALSE
      OBVIOUS
    <3>1. i \in 1 .. Len(toNode)
      BY <1>1
    <3> QED BY <1>1, <3>1 DEF NoneOf
  <2> QED BY <2>1 DEF Never, NoneOf
<1> QED BY <1>3, <1>4, <1>5

\* The node answers a request with one event.
LEMMA AnsweredOnce ==
  ASSUME StreamOK, toNode # <<>>, toNode' = Tail(toNode), NEW a \in Events, a.to = Head(toNode).to,
         toHost' = toHost \o <<a>>, NEW K, NEW L
  PROVE  /\ NoneOf(K) => NoneOf(K)'
         /\ Never(K, L) => Never(K, L)'
<1>1. /\ Len(toNode) \in Nat /\ Len(toNode) >= 1 /\ Len(toNode') = Len(toNode) - 1
      /\ \A i \in 1 .. Len(toNode) - 1 : toNode'[i] = toNode[i + 1]
      /\ Head(toNode) = toNode[1]
  BY Popped DEF StreamOK
<1>2. \A i \in 1 .. Len(toNode') : i + 1 \in 1 .. Len(toNode) /\ toNode'[i] = toNode[i + 1]
  BY <1>1
<1>3. 1 \in 1 .. Len(toNode) /\ a.to = toNode[1].to
  BY <1>1
<1>4. /\ Len(toHost) \in Nat /\ Len(toHost') = Len(toHost) + 1
      /\ \A i \in 1 .. Len(toHost) : toHost'[i] = toHost[i]
      /\ toHost'[Len(toHost) + 1] = a
  BY Appended DEF StreamOK
<1>5. \A i \in 1 .. Len(toHost') : \/ i \in 1 .. Len(toHost) /\ toHost'[i] = toHost[i]
                                   \/ i = Len(toHost) + 1 /\ toHost'[i] = a
  BY <1>4
<1>6. NoneOf(K) => NoneOf(K)'
  BY <1>2, <1>3, <1>5 DEF NoneOf
<1>7. Never(K, L) => Never(K, L)'
  <2> SUFFICES ASSUME Never(K, L) PROVE Never(K, L)'
    OBVIOUS
  <2>1. \A i, j \in 1 .. Len(toNode') : i < j /\ toNode'[i].to \in K => toNode'[j].to \notin L
    <3> SUFFICES ASSUME NEW i \in 1 .. Len(toNode'), NEW j \in 1 .. Len(toNode'), i < j, toNode'[i].to \in K
                 PROVE  toNode'[j].to \notin L
      OBVIOUS
    <3>1. i + 1 < j + 1
      BY <1>1
    <3> QED BY <1>2, <3>1 DEF Never
  <2>2. \A i \in 1 .. Len(toHost'), j \in 1 .. Len(toNode') : toHost'[i].to \in K => toNode'[j].to \notin L
    <3> SUFFICES ASSUME NEW i \in 1 .. Len(toHost'), NEW j \in 1 .. Len(toNode'), toHost'[i].to \in K
                 PROVE  toNode[j + 1].to \notin L
      BY <1>2
    <3>1. j + 1 \in 1 .. Len(toNode) /\ 1 < j + 1
      BY <1>1
    <3>2. CASE i \in 1 .. Len(toHost)
      BY <1>4, <3>1, <3>2 DEF Never
    <3>3. CASE toHost'[i] = a
      BY <1>3, <3>1, <3>3 DEF Never
    <3> QED BY <1>5, <3>2, <3>3
  <2>3. \A i, j \in 1 .. Len(toHost') : i < j /\ toHost'[i].to \in K => toHost'[j].to \notin L
    <3> SUFFICES ASSUME NEW i \in 1 .. Len(toHost'), NEW j \in 1 .. Len(toHost'), i < j, toHost'[i].to \in K
                 PROVE  toHost'[j].to \notin L
      OBVIOUS
    <3>1. i \in 1 .. Len(toHost) /\ toHost[i].to \in K
      BY <1>4
    <3>2. CASE j \in 1 .. Len(toHost)
      BY <1>4, <3>1, <3>2 DEF Never
    <3>3. CASE toHost'[j] = a
      BY <1>3, <3>1, <3>3 DEF Never
    <3> QED BY <1>5, <3>2, <3>3
  <2> QED BY <2>1, <2>2, <2>3 DEF Never
<1> QED BY <1>6, <1>7
\* The chunk that completes a block is answered with two events.
LEMMA AnsweredTwice ==
  ASSUME StreamOK, toNode # <<>>, toNode' = Tail(toNode), Head(toNode).to = "CHUNK",
         NEW a \in Events, a.to = "CHUNK", NEW d \in Events, d.to = "DATA",
         toHost' = toHost \o <<a, d>>, NEW K, NEW L,
         "DATA" \in K => "CHUNK" \in K, "DATA" \in L => "CHUNK" \in L,
         ~("CHUNK" \in K /\ "DATA" \in L)
  PROVE  /\ NoneOf(K) => NoneOf(K)'
         /\ Never(K, L) => Never(K, L)'
<1>1. /\ Len(toNode) \in Nat /\ Len(toNode) >= 1 /\ Len(toNode') = Len(toNode) - 1
      /\ \A i \in 1 .. Len(toNode) - 1 : toNode'[i] = toNode[i + 1]
      /\ Head(toNode) = toNode[1]
  BY Popped DEF StreamOK
<1>2. \A i \in 1 .. Len(toNode') : i + 1 \in 1 .. Len(toNode) /\ toNode'[i] = toNode[i + 1]
  BY <1>1
<1>3. 1 \in 1 .. Len(toNode) /\ toNode[1].to = "CHUNK"
  BY <1>1
<1>4. /\ Len(toHost) \in Nat /\ Len(toHost') = Len(toHost) + 2
      /\ \A i \in 1 .. Len(toHost) : toHost'[i] = toHost[i]
      /\ toHost'[Len(toHost) + 1] = a /\ toHost'[Len(toHost) + 2] = d
  BY AppendedTwo DEF StreamOK
<1>5. \A i \in 1 .. Len(toHost') : \/ i \in 1 .. Len(toHost) /\ toHost'[i] = toHost[i]
                                   \/ i = Len(toHost) + 1 /\ toHost'[i] = a
                                   \/ i = Len(toHost) + 2 /\ toHost'[i] = d
  BY <1>4
<1>6. NoneOf(K) => NoneOf(K)'
  BY <1>2, <1>3, <1>5 DEF NoneOf
<1>7. Never(K, L) => Never(K, L)'
  <2> SUFFICES ASSUME Never(K, L) PROVE Never(K, L)'
    OBVIOUS
  <2>1. \A i, j \in 1 .. Len(toNode') : i < j /\ toNode'[i].to \in K => toNode'[j].to \notin L
    <3> SUFFICES ASSUME NEW i \in 1 .. Len(toNode'), NEW j \in 1 .. Len(toNode'), i < j, toNode'[i].to \in K
                 PROVE  toNode'[j].to \notin L
      OBVIOUS
    <3>1. i + 1 < j + 1
      BY <1>1
    <3> QED BY <1>2, <3>1 DEF Never
  <2>2. \A i \in 1 .. Len(toHost'), j \in 1 .. Len(toNode') : toHost'[i].to \in K => toNode'[j].to \notin L
    <3> SUFFICES ASSUME NEW i \in 1 .. Len(toHost'), NEW j \in 1 .. Len(toNode'), toHost'[i].to \in K
                 PROVE  toNode[j + 1].to \notin L
      BY <1>2
    <3>1. j + 1 \in 1 .. Len(toNode) /\ 1 < j + 1
      BY <1>1
    <3>2. CASE i \in 1 .. Len(toHost)
      BY <1>4, <3>1, <3>2 DEF Never
    <3>3. CASE toHost'[i] = a \/ toHost'[i] = d
      BY <1>3, <3>1, <3>3 DEF Never
    <3> QED BY <1>5, <3>2, <3>3
  <2>3. \A i, j \in 1 .. Len(toHost') : i < j /\ toHost'[i].to \in K => toHost'[j].to \notin L
    <3> SUFFICES ASSUME NEW i \in 1 .. Len(toHost'), NEW j \in 1 .. Len(toHost'), i < j, toHost'[i].to \in K
                 PROVE  toHost'[j].to \notin L
      OBVIOUS
    <3>1. CASE i \in 1 .. Len(toHost) /\ j \in 1 .. Len(toHost)
      BY <1>4, <3>1 DEF Never
    <3>2. CASE i \in 1 .. Len(toHost) /\ (toHost'[j] = a \/ toHost'[j] = d)
      BY <1>3, <1>4, <3>2 DEF Never
    <3>3. CASE i = Len(toHost) + 1
      BY <1>4, <3>3
    <3> QED BY <1>4, <1>5, <3>1, <3>2, <3>3
  <2> QED BY <2>1, <2>2, <2>3 DEF Never
<1> QED BY <1>6, <1>7

\* What the invariant says of the stream stays true of it.
Kept ==
  /\ Only({"ENTER"}) => Only({"ENTER"})'
  /\ Only(Start) => Only(Start)'
  /\ NoneOf(Start) => NoneOf(Start)'
  /\ NoneOf(Program) => NoneOf(Program)'
  /\ Never({"ENTER"}, {"ENTER"}) => Never({"ENTER"}, {"ENTER"})'
  /\ Never(Start, Start) => Never(Start, Start)'
  /\ Never(Start, Others) => Never(Start, Others)'
  /\ Never(Others, Start) => Never(Others, Start)'
  /\ Never(Start, Program) => Never(Start, Program)'
  /\ Never(Program, Answers) => Never(Program, Answers)'
  /\ Quiet => Quiet'

\* A step that leaves the host where it is.
LEMMA StreamFrame ==
  ASSUME StreamInv, Kept, UNCHANGED <<pc, load, await, rv>>
  PROVE  StreamInv'
<1>1. QuietInv'
  BY DEF StreamInv, QuietInv, Kept, Acknowledged, At
<1>2. FirstTryInv'
  BY DEF StreamInv, FirstTryInv, Kept, Acknowledged, At, Started, Writing
<1>3. SecondTryInv'
  BY DEF StreamInv, SecondTryInv, Kept, Acknowledged, At, Started, Writing
<1>4. ThirdTryInv'
  BY DEF StreamInv, ThirdTryInv, Kept, Acknowledged, At, Started, Writing
<1>5. ProgramInv'
  BY DEF StreamInv, ProgramInv, Kept, Acknowledged, At, Started, Writing
<1> QED BY <1>1, <1>2, <1>3, <1>4, <1>5 DEF StreamInv

\* The stream does not change.
LEMMA StreamStill ==
  ASSUME UNCHANGED <<toHost, toNode>>, NEW K, NEW L
  PROVE  /\ NoneOf(K)' <=> NoneOf(K)
         /\ Never(K, L)' <=> Never(K, L)
         /\ Quiet' <=> Quiet
BY DEF NoneOf, Never, Quiet

\* How what is said of the stream follows from one another.
LEMMA StreamFacts ==
  ASSUME StreamOK, NEW K, NEW L
  PROVE  /\ Quiet => NoneOf(K)
         /\ NoneOf(K) => Never(K, L) /\ Never(L, K)
         /\ NoneOf(Answers) => Quiet
<1>1. Quiet => NoneOf(K)
  BY DEF Quiet, NoneOf
<1>2. NoneOf(K) => Never(K, L) /\ Never(L, K)
  BY DEF Never, NoneOf
<1>3. NoneOf(Answers) => Quiet
  <2> SUFFICES ASSUME NoneOf(Answers) PROVE Quiet
    OBVIOUS
  <2>1. ASSUME toHost # <<>> PROVE FALSE
    <3>1. 1 \in 1 .. Len(toHost) /\ toHost[1] \in Events
      BY <2>1 DEF StreamOK
    <3> QED BY <3>1 DEF NoneOf, Events
  <2>2. ASSUME toNode # <<>> PROVE FALSE
    <3>1. 1 \in 1 .. Len(toNode) /\ toNode[1] \in Requests
      BY <2>2 DEF StreamOK
    <3> QED BY <3>1 DEF NoneOf, Requests
  <2> QED BY <2>1, <2>2 DEF Quiet
<1> QED BY <1>1, <1>2, <1>3

\* The kinds of messages that are left out.
LEMMA Smaller ==
  ASSUME NEW K, NEW L, NEW M, K \subseteq L
  PROVE  /\ NoneOf(L) => NoneOf(K)
         /\ Never(L, M) => Never(K, M)
         /\ Never(M, L) => Never(M, K)
BY DEF NoneOf, Never
-----------------------------------------------------------------------------
(* What single changes of the state leave as it is.                          *)

\* Nothing but the host's place changes.
LEMMA NodeFrame ==
  ASSUME UNCHANGED <<device, memtype, block, toHost, toNode, node>>
  PROVE  /\ RequestInv' <=> RequestInv
         /\ AnswerInv' <=> AnswerInv
         /\ Late' <=> Late
         /\ Mixed' <=> Mixed
         /\ ProgramReady' <=> ProgramReady
         /\ OnlyImageData' <=> OnlyImageData
         /\ PassedIsProgrammed' <=> PassedIsProgrammed
<1> USE DEF Current, Here, Image, NChunks, BlockSize, BlockData, Blocks, Passed, Ahead
<1>1. RequestInv' <=> RequestInv
  BY DEF RequestInv
<1>2. AnswerInv' <=> AnswerInv
  BY DEF AnswerInv
<1>3. (Late' <=> Late) /\ (Mixed' <=> Mixed)
  BY DEF Late, Mixed
<1>4. ProgramReady' <=> ProgramReady
  BY DEF ProgramReady
<1>5. (OnlyImageData' <=> OnlyImageData) /\ (PassedIsProgrammed' <=> PassedIsProgrammed)
  BY DEF OnlyImageData, PassedIsProgrammed
<1> QED BY <1>1, <1>2, <1>3, <1>4, <1>5

\* The image and the block being loaded.
LEMMA BlockFrame ==
  ASSUME UNCHANGED <<device, memtype, block>>
  PROVE  /\ UNCHANGED <<Image, BlockSize, NChunks, Current, Blocks, BlockData(Current)>>
         /\ \A x : (BlockData(x)' = BlockData(x)) /\ (Passed(x)' <=> Passed(x)) /\ (Ahead(x)' <=> Ahead(x))
BY DEF Current, Image, NChunks, BlockSize, BlockData, Blocks, Passed, Ahead

\* The flash does not change.
LEMMA FlashFrame ==
  ASSUME UNCHANGED <<device, memtype, block, flash>>, OnlyImageData, PassedIsProgrammed
  PROVE  OnlyImageData' /\ PassedIsProgrammed'
BY DEF OnlyImageData, PassedIsProgrammed, Image, NChunks, BlockSize, BlockData, Blocks, Passed, Ahead

\* The oldest answer is taken.
LEMMA TakenFrame ==
  ASSUME StreamOK, toHost # <<>>, toHost' = Tail(toHost), UNCHANGED <<device, memtype, block, toNode, node>>
  PROVE  /\ RequestInv => RequestInv'
         /\ AnswerInv => AnswerInv'
         /\ Late => Late'
         /\ Mixed => Mixed'
         /\ ProgramReady => ProgramReady'
<1> USE DEF Current, Here, Image, NChunks, BlockSize, BlockData, Blocks, Passed, Ahead
<1>1. RequestInv => RequestInv'
  BY DEF RequestInv
<1>2. ProgramReady => ProgramReady'
  BY DEF ProgramReady
<1> HIDE DEF Current, Here, Image, NChunks, BlockSize, BlockData, Blocks, Passed, Ahead
<1>s. /\ UNCHANGED <<Image, BlockSize, NChunks, Current, Blocks, BlockData(Current)>>
      /\ Here' <=> Here
  BY BlockFrame DEF Here
<1>3. /\ Len(toHost) \in Nat /\ Len(toHost) >= 1 /\ Len(toHost') = Len(toHost) - 1
      /\ \A i \in 1 .. Len(toHost) - 1 : toHost'[i] = toHost[i + 1]
  BY Popped DEF StreamOK
<1>4. \A i \in 1 .. Len(toHost') : i + 1 \in 1 .. Len(toHost) /\ toHost'[i] = toHost[i + 1]
  BY <1>3
<1>5. \A i, j \in 1 .. Len(toHost') : i < j => i + 1 < j + 1
  BY <1>3
<1>6. Late => Late'
  <2> SUFFICES ASSUME Late PROVE Late'
    OBVIOUS
  <2>1. (\E i \in 1 .. Len(toHost') : toHost'[i].to = "START") => \E i \in 1 .. Len(toHost) : toHost[i].to = "START"
    BY <1>4
  <2>2. \A i, j \in 1 .. Len(toHost') : i < j /\ toHost'[i].to = "START" /\ toHost'[j].to = "DATA" => NChunks = 1
    BY <1>4, <1>5 DEF Late
  <2> QED BY <1>s, <2>1, <2>2 DEF Late
<1>7. Mixed => Mixed'
  <2> SUFFICES ASSUME Mixed PROVE Mixed'
    OBVIOUS
  <2>2. \A i, j \in 1 .. Len(toHost') : i < j /\ toHost'[i].to = "DATA" /\ toHost'[j].to = "START" => NChunks = 1
    BY <1>4, <1>5 DEF Mixed
  <2>3. \A i \in 1 .. Len(toHost'), j \in 1 .. Len(toNode) : toHost'[i].to = "DATA" /\ toNode[j].to = "START" => NChunks = 1
    BY <1>4 DEF Mixed
  <2> QED BY <1>s, <2>2, <2>3 DEF Mixed
<1>8. AnswerInv => AnswerInv'
  <2> SUFFICES ASSUME AnswerInv, NEW i \in 1 .. Len(toHost')
               PROVE  /\ toHost'[i].to = "START" /\ toHost'[i].ack =>
                           /\ Here
                           /\ (\A j \in i + 1 .. Len(toHost') : toHost'[j].to # "CHUNK") => at = NoBlock \/ buffer = <<>>
                      /\ toHost'[i].to = "DATA" /\ (\A j \in i + 1 .. Len(toHost') : toHost'[j].to # "START") =>
                           at = NoBlock \/ (Len(buffer) = NChunks /\ buffer = toHost'[i].data)
                      /\ toHost'[i].to = "PROGRAM" /\ toHost'[i].ack
                           /\ (\A j \in i + 1 .. Len(toHost') : toHost'[j].to # "PROGRAM") =>
                           flash[Current] = BlockData(Current)
    BY <1>s DEF AnswerInv
  <2>1. i + 1 \in 1 .. Len(toHost) /\ toHost'[i] = toHost[i + 1]
    BY <1>4
  <2>2. \A j \in (i + 1) + 1 .. Len(toHost) : j - 1 \in i + 1 .. Len(toHost') /\ toHost'[j - 1] = toHost[j]
    BY <1>3
  <2>3. /\ toHost[i + 1].to = "START" /\ toHost[i + 1].ack =>
                           /\ Here
                           /\ (\A j \in (i + 1) + 1 .. Len(toHost) : toHost[j].to # "CHUNK") => at = NoBlock \/ buffer = <<>>
        /\ toHost[i + 1].to = "DATA" /\ (\A j \in (i + 1) + 1 .. Len(toHost) : toHost[j].to # "START") =>
                           at = NoBlock \/ (Len(buffer) = NChunks /\ buffer = toHost[i + 1].data)
        /\ toHost[i + 1].to = "PROGRAM" /\ toHost[i + 1].ack
                           /\ (\A j \in (i + 1) + 1 .. Len(toHost) : toHost[j].to # "PROGRAM") =>
                           flash[Current] = BlockData(Current)
    BY <2>1 DEF AnswerInv
  <2>4. \A K : (\A j \in i + 1 .. Len(toHost') : toHost'[j].to # K) =>
                 \A j \in (i + 1) + 1 .. Len(toHost) : toHost[j].to # K
    BY <2>2
  <2> QED BY <2>1, <2>3, <2>4
<1> QED BY <1>1, <1>2, <1>6, <1>7, <1>8

\* A request disappears.
LEMMA DroppedFrame ==
  ASSUME StreamOK, toNode # <<>>, toNode' = Tail(toNode), UNCHANGED <<device, memtype, block, toHost, node>>
  PROVE  /\ RequestInv => RequestInv'
         /\ AnswerInv => AnswerInv'
         /\ Late => Late'
         /\ Mixed => Mixed'
         /\ ProgramReady => ProgramReady'
<1>0. AnswerInv => AnswerInv'
  BY DEF AnswerInv, Current, Here, Image, NChunks, BlockSize, BlockData
<1>s. /\ UNCHANGED <<Image, BlockSize, NChunks, Current, Blocks, BlockData(Current), Passed(at)>>
      /\ Here' <=> Here
  BY BlockFrame DEF Here, Passed
<1>3. /\ Len(toNode) \in Nat /\ Len(toNode) >= 1 /\ Len(toNode') = Len(toNode) - 1
      /\ \A i \in 1 .. Len(toNode) - 1 : toNode'[i] = toNode[i + 1]
  BY Popped DEF StreamOK
<1>4. \A i \in 1 .. Len(toNode') : i + 1 \in 1 .. Len(toNode) /\ toNode'[i] = toNode[i + 1]
  BY <1>3
<1>5. \A i, j \in 1 .. Len(toNode') : i < j => i + 1 < j + 1
  BY <1>3
<1>6. \A j \in 1 .. Len(toNode') : \A i \in 1 .. j - 1 : i + 1 \in 1 .. (j + 1) - 1 /\ toNode'[i] = toNode[i + 1]
  BY <1>3
<1>7. RequestInv => RequestInv'
  BY <1>s, <1>4 DEF RequestInv
<1>8. Late => Late'
  <2> SUFFICES ASSUME Late, NEW j \in 1 .. Len(toNode'), toNode'[j].to = "CHUNK",
                      \/ \E i \in 1 .. Len(toHost) : toHost[i].to = "START"
                      \/ \E i \in 1 .. j - 1 : toNode'[i].to = "START"
               PROVE  /\ at = NoBlock \/ buffer = <<>>
                      /\ \A k \in 1 .. Len(toNode') : toNode'[k].to = "CHUNK" => k = j
    BY <1>s DEF Late
  <2>1. \/ \E i \in 1 .. Len(toHost) : toHost[i].to = "START"
        \/ \E i \in 1 .. (j + 1) - 1 : toNode[i].to = "START"
    BY <1>6
  <2>2. /\ at = NoBlock \/ buffer = <<>>
        /\ \A k \in 1 .. Len(toNode) : toNode[k].to = "CHUNK" => k = j + 1
    BY <1>4, <2>1 DEF Late
  <2>3. \A k \in 1 .. Len(toNode') : k + 1 = j + 1 => k = j
    BY <1>3
  <2> QED BY <1>4, <2>2, <2>3
<1>9. Mixed => Mixed'
  <2> SUFFICES ASSUME Mixed PROVE Mixed'
    OBVIOUS
  <2>1. \A i \in 1 .. Len(toHost), j \in 1 .. Len(toNode') : toHost[i].to = "DATA" /\ toNode'[j].to = "START" => NChunks = 1
    BY <1>4 DEF Mixed
  <2>2. ASSUME NEW i \in 1 .. Len(toNode'), NEW j \in 1 .. Len(toNode'),
               i < j, toNode'[i].to = "CHUNK", toNode'[j].to = "START"
        PROVE  /\ at = NoBlock \/ buffer = <<>>
               /\ \A k \in 1 .. Len(toNode') : toNode'[k].to = "CHUNK" => k = i \/ k > j
    <3>1. /\ at = NoBlock \/ buffer = <<>>
          /\ \A k \in 1 .. Len(toNode) : toNode[k].to = "CHUNK" => k = i + 1 \/ k > j + 1
      BY <1>4, <1>5, <2>2 DEF Mixed
    <3>2. \A k \in 1 .. Len(toNode') : (k + 1 = i + 1 => k = i) /\ (k + 1 > j + 1 => k > j)
      BY <1>3
    <3> QED BY <1>4, <3>1, <3>2
  <2> QED BY <1>s, <2>1, <2>2 DEF Mixed
<1>10. ProgramReady => ProgramReady'
  <2> SUFFICES ASSUME ProgramReady, NEW i \in 1 .. Len(toNode'), toNode'[i].to = "PROGRAM"
               PROVE  /\ Here
                      /\ \/ NChunks = 1
                         \/ /\ \A j \in 1 .. i - 1 : toNode'[j].to # "START"
                            /\ at = NoBlock \/ buffer = BlockData(Current)
    BY <1>s DEF ProgramReady
  <2>1. /\ Here
        /\ \/ NChunks = 1
           \/ /\ \A j \in 1 .. (i + 1) - 1 : toNode[j].to # "START"
              /\ at = NoBlock \/ buffer = BlockData(Current)
    BY <1>4 DEF ProgramReady
  <2> QED BY <1>6, <2>1
<1> QED BY <1>0, <1>7, <1>8, <1>9, <1>10
-----------------------------------------------------------------------------
(* Losses, restarts of the node and time-outs.                               *)

\* The host stays where it is.
LEMMA HostPlace ==
  ASSUME UNCHANGED <<device, pc, load, await, rv, ex>>
  PROVE  /\ Started' <=> Started
         /\ Writing' <=> Writing
         /\ Confirmed' <=> Confirmed
         /\ Acknowledged("started")' <=> Acknowledged("started")
         /\ Acknowledged("programmed")' <=> Acknowledged("programmed")
BY BlockFrame DEF Started, Writing, Confirmed, Acknowledged, At, BlockConfirmed, Current, BlockData, Image

\* The host and the node stay where they are.
LEMMA StillFrame ==
  ASSUME UNCHANGED <<device, pc, load, await, rv, ex, node>>, Late => Late', Mixed => Mixed',
         (\A j \in 1 .. Len(toNode) : toNode[j].to # "START") =>
           \A j \in 1 .. Len(toNode') : toNode'[j].to # "START"
  PROVE  /\ LateInv => LateInv'
         /\ MixedInv => MixedInv'
         /\ ReadyInv => ReadyInv'
<1>1. /\ UNCHANGED <<NChunks, Current, BlockData(Current)>>
      /\ Here' <=> Here
  BY BlockFrame DEF Here
<1>2. LateInv => LateInv'
  BY HostPlace DEF LateInv
<1>3. MixedInv => MixedInv'
  BY HostPlace DEF MixedInv
<1>4. ReadyInv => ReadyInv'
  BY <1>1, HostPlace DEF ReadyInv
<1> QED BY <1>2, <1>3, <1>4

\* An answer is lost.
LEMMA AnswerLostIInv == ASSUME IInv, AnswerLost PROVE IInv'
<1> USE DEF AnswerLost
<1>0. StreamOK
  BY DEF IInv
<1>1. UNCHANGED <<Image, BlockSize, NChunks, Current, Blocks>>
  BY BlockFrame
<1>2. TypeOK'
  BY <1>1 DEF IInv, TypeOK
<1>3. StreamOK'
  <2>1. toHost' \in Seq(Events)
    BY <1>0, Popped DEF StreamOK
  <2> QED BY <1>0, <1>1, <2>1 DEF StreamOK, Requests
<1>4. Kept
  BY <1>0, AnswerTaken DEF Kept, Only, Quiet
<1>5. StreamInv'
  BY <1>4, StreamFrame DEF IInv
<1>6. RequestInv' /\ AnswerInv' /\ ProgramReady' /\ (Late => Late') /\ (Mixed => Mixed')
  BY <1>0, TakenFrame DEF IInv
<1>7. LateInv' /\ MixedInv' /\ ReadyInv'
  BY <1>6, StillFrame DEF IInv
<1>8. OnlyImageData' /\ PassedIsProgrammed'
  BY FlashFrame DEF IInv
<1> QED BY <1>2, <1>3, <1>5, <1>6, <1>7, <1>8 DEF IInv

\* A request is lost.
LEMMA RequestLostIInv == ASSUME IInv, RequestLost PROVE IInv'
<1> USE DEF RequestLost
<1>0. StreamOK
  BY DEF IInv
<1>1. UNCHANGED <<Image, BlockSize, NChunks, Current, Blocks>>
  BY BlockFrame
<1>2. TypeOK'
  BY <1>1 DEF IInv, TypeOK
<1>3. StreamOK'
  <2>1. toNode' \in Seq(Requests)
    BY <1>0, Popped DEF StreamOK
  <2> QED BY <1>0, <1>1, <2>1 DEF StreamOK, Requests
<1>4. Kept
  BY <1>0, RequestDropped DEF Kept, Only, Quiet
<1>5. StreamInv'
  BY <1>4, StreamFrame DEF IInv
<1>6. RequestInv' /\ AnswerInv' /\ ProgramReady' /\ (Late => Late') /\ (Mixed => Mixed')
  BY <1>0, DroppedFrame DEF IInv
<1>7. \A j \in 1 .. Len(toNode') : j + 1 \in 1 .. Len(toNode) /\ toNode'[j] = toNode[j + 1]
  BY <1>0, Popped DEF StreamOK
<1>8. LateInv' /\ MixedInv' /\ ReadyInv'
  BY <1>6, <1>7, StillFrame DEF IInv
<1>9. OnlyImageData' /\ PassedIsProgrammed'
  BY FlashFrame DEF IInv
<1> QED BY <1>2, <1>3, <1>5, <1>6, <1>8, <1>9 DEF IInv

\* A node that is not collecting a block: whatever is said of its buffer holds.
LEMMA NodeResetIInv ==
  ASSUME IInv, UNCHANGED <<host, await, ex, toNode, toHost, flash>>, at' = NoBlock, buffer' = <<>>,
         mode' \in {"application", "boot"}, restarts' \in 0 .. MaxRestarts
  PROVE  IInv'
<1>0. StreamOK
  BY DEF IInv
<1>1. /\ UNCHANGED <<Image, BlockSize, NChunks, Current, Blocks, BlockData(Current)>> /\ Here'
      /\ NChunks \in Nat
  BY <1>0, BlockFrame, BlockChunks DEF Here, StreamOK
<1>2. TypeOK'
  BY <1>1 DEF IInv, TypeOK
<1>3. StreamOK'
  BY <1>0, <1>1 DEF StreamOK, Requests
<1>4. Kept
  BY StreamStill DEF Kept, Only
<1>5. StreamInv'
  BY <1>4, StreamFrame DEF IInv
<1>6. RequestInv' /\ AnswerInv' /\ ProgramReady' /\ (Late => Late') /\ (Mixed => Mixed')
  <2>1. RequestInv'
    BY <1>1 DEF IInv, RequestInv
  <2>2. AnswerInv'
    BY <1>1 DEF IInv, AnswerInv
  <2>3. ProgramReady'
    BY <1>1 DEF IInv, ProgramReady
  <2>4. Late => Late'
    BY <1>1 DEF Late
  <2>5. Mixed => Mixed'
    BY <1>1 DEF Mixed
  <2> QED BY <2>1, <2>2, <2>3, <2>4, <2>5
<1>7. LateInv' /\ MixedInv' /\ ReadyInv'
  BY <1>1, <1>6, HostPlace DEF IInv, LateInv, MixedInv, ReadyInv
<1>8. OnlyImageData' /\ PassedIsProgrammed'
  BY FlashFrame DEF IInv
<1> QED BY <1>2, <1>3, <1>5, <1>6, <1>7, <1>8 DEF IInv

\* The node restarts into its application.
LEMMA NodeRestartsIInv == ASSUME IInv, NodeRestarts PROVE IInv'
BY NodeResetIInv DEF NodeRestarts, IInv, TypeOK

\* The host gives up waiting.
LEMMA CheckResponseTimeoutIInv == ASSUME IInv, CheckResponseTimeout PROVE IInv'
<1> USE DEF CheckResponseTimeout
<1>0. StreamOK
  BY DEF IInv
<1>1. UNCHANGED <<Image, BlockSize, NChunks, Current, Blocks, BlockData(Current)>> /\ (Here' <=> Here)
  BY BlockFrame DEF Here
<1>2. TypeOK'
  BY <1>1 DEF IInv, TypeOK
<1>3. StreamOK'
  BY <1>0, <1>1 DEF StreamOK, Requests
<1>4. Kept
  BY StreamStill DEF Kept, Only
<1>5. \A p : ~Acknowledged(p)'
  BY DEF Acknowledged
<1>6. StreamInv'
  <2>1. QuietInv'
    BY <1>4, <1>5 DEF IInv, StreamInv, QuietInv, Kept
  <2>2. FirstTryInv'
    BY <1>4, <1>5 DEF IInv, StreamInv, FirstTryInv, Kept, Started, Writing
  <2>3. SecondTryInv'
    BY <1>4, <1>5 DEF IInv, StreamInv, SecondTryInv, Kept, Started, Writing
  <2>4. ThirdTryInv'
    BY <1>4, <1>5 DEF IInv, StreamInv, ThirdTryInv, Kept, Started, Writing
  <2>5. ProgramInv'
    BY <1>4, <1>5 DEF IInv, StreamInv, ProgramInv, Kept, Started, Writing
  <2> QED BY <2>1, <2>2, <2>3, <2>4, <2>5 DEF StreamInv
<1>7. /\ RequestInv' /\ AnswerInv' /\ ProgramReady' /\ OnlyImageData' /\ PassedIsProgrammed'
      /\ (Late => Late') /\ (Mixed => Mixed')
  BY NodeFrame DEF IInv
<1>8. LateInv' /\ MixedInv'
  BY <1>5, <1>7 DEF IInv, LateInv, MixedInv, Writing
<1>9. ReadyInv'
  BY <1>1, <1>5 DEF IInv, ReadyInv, Started, Confirmed, Writing
<1> QED BY <1>2, <1>3, <1>6, <1>7, <1>8, <1>9 DEF IInv
-----------------------------------------------------------------------------
(* Steps of the host that neither send nor receive.                          *)

\* The kinds of messages.
LEMMA Kinds ==
  /\ Start \subseteq Answers /\ Program \subseteq Answers /\ Others \subseteq Answers
  /\ Program \subseteq Answers \ Start /\ Others = Answers \ Start /\ Program \subseteq Others
  /\ "START" \in Start /\ "PROGRAM" \in Program /\ {"CHUNK", "DATA"} \subseteq Others
BY DEF Start, Program, Others, Answers

\* Nothing follows a START_BLOCK.
LEMMA NothingLate ==
  ASSUME StreamOK, Only(Start) \/ NoneOf(Start) \/ Never(Start, Others)
  PROVE  Late
<1>1. Never(Start, Others)
  BY StreamFacts, Kinds DEF Only
<1> QED BY <1>1, Kinds DEF Never, Late

\* A try fails: what it leaves is what the next one may find.
LEMMA TryFailsIInv ==
  ASSUME IInv, NEW e \in {"NACK", "TIMEOUT", "ERROR", "INVALID_FRAME", "SIZE", "SUCCESS"}, TryFails(e), await = None,
         pc \in {"start", "started", "data", "program", "programmed"},
         UNCHANGED <<device, await, ex, toNode, toHost, node, restarts>>
  PROVE  IInv'
<1> USE DEF TryFails
<1>0. StreamOK /\ trycnt \in 1 .. 3
  BY DEF IInv, StreamOK, TypeOK
<1>1. UNCHANGED <<Image, BlockSize, NChunks, Current, Blocks, BlockData(Current)>> /\ (Here' <=> Here)
  BY BlockFrame DEF Here
<1>2. pc' = "end" \/ (pc' = "start" /\ trycnt > 1)
  BY <1>0
<1>3. trycnt' = trycnt - 1 /\ trycnt' \in 0 .. 2
  BY <1>0
<1>4. TypeOK'
  BY <1>1, <1>2, <1>3 DEF IInv, TypeOK
<1>5. StreamOK'
  BY <1>0, <1>1, <1>2, <1>3 DEF StreamOK, Requests
<1>6. ~Started' /\ ~Confirmed' /\ ~Writing' /\ \A p : pc' # p => ~Acknowledged(p)'
  BY <1>2 DEF Started, Confirmed, Writing, Acknowledged, At
<1>7. Kept
  BY StreamStill DEF Kept, Only
<1>8. ASSUME trycnt = 3, pc' = "start"
      PROVE  Only(Start)' \/ NoneOf(Start)'
  <2>1. Only(Start) \/ NoneOf(Start)
    BY <1>0, <1>8, StreamFacts DEF IInv, StreamInv, FirstTryInv, Started, Writing
  <2> QED BY <1>7, <2>1 DEF Kept
<1>9. ASSUME trycnt = 2, pc' = "start"
      PROVE  Never(Start, Program)' /\ Late'
  <2>1. Never(Start, Program) /\ Late
    <3>1. CASE Only(Start) \/ NoneOf(Start)
      BY <1>0, <3>1, StreamFacts, NothingLate, Smaller, Kinds DEF Only
    <3>2. CASE pc = "started"
      BY <1>0, <1>9, <3>2, NothingLate, Smaller, Kinds DEF IInv, StreamInv, SecondTryInv
    <3>3. CASE pc = "data"
      BY <1>0, <1>9, <3>3, StreamFacts DEF IInv, StreamInv, ProgramInv, LateInv, Writing, Started
    <3> QED BY <1>9, <3>1, <3>2, <3>3 DEF IInv, StreamInv, SecondTryInv
  <2> QED BY <1>7, <2>1, NodeFrame DEF Kept
<1>10. StreamInv'
  <2>1. QuietInv'
    BY <1>2, <1>6 DEF QuietInv
  <2>2. FirstTryInv'
    BY <1>3 DEF FirstTryInv
  <2>3. SecondTryInv'
    BY <1>0, <1>2, <1>3, <1>6, <1>8 DEF SecondTryInv
  <2>4. ThirdTryInv'
    BY <1>0, <1>2, <1>3, <1>6, <1>9 DEF ThirdTryInv
  <2>5. ProgramInv'
    BY <1>2, <1>6 DEF ProgramInv
  <2> QED BY <2>1, <2>2, <2>3, <2>4, <2>5 DEF StreamInv
<1>11. RequestInv' /\ AnswerInv' /\ ProgramReady' /\ OnlyImageData' /\ PassedIsProgrammed'
  BY NodeFrame DEF IInv
<1>12. LateInv' /\ MixedInv'
  BY <1>0, <1>2, <1>3, <1>6, <1>9 DEF LateInv, MixedInv
<1>13. ReadyInv'
  BY <1>2, <1>6 DEF ReadyInv
<1> QED BY <1>4, <1>5, <1>10, <1>11, <1>12, <1>13 DEF IInv

\* deviceInit or deviceLoad returns.
LEMMA EndsIInv ==
  ASSUME IInv, pc' = "end", rv' \in {"NACK", "TIMEOUT", "ERROR", "INVALID_FRAME", "SIZE", "SUCCESS"},
         await = None, UNCHANGED <<device, load, await, ex, toNode, toHost, node, restarts>>
  PROVE  IInv'
<1>1. UNCHANGED <<Image, BlockSize, NChunks, Current, Blocks, BlockData(Current)>>
  BY BlockFrame
<1>2. TypeOK' /\ StreamOK'
  BY <1>1 DEF IInv, TypeOK, StreamOK, Requests
<1>3. ~Started' /\ ~Confirmed' /\ ~Writing' /\ \A p : p # "end" => ~Acknowledged(p)'
  BY DEF Started, Confirmed, Writing, Acknowledged, At
<1>4. StreamInv'
  BY <1>3 DEF StreamInv, QuietInv, FirstTryInv, SecondTryInv, ThirdTryInv, ProgramInv
<1>5. RequestInv' /\ AnswerInv' /\ ProgramReady' /\ OnlyImageData' /\ PassedIsProgrammed'
  BY NodeFrame DEF IInv
<1>6. LateInv' /\ MixedInv' /\ ReadyInv'
  BY <1>3 DEF LateInv, MixedInv, ReadyInv
<1> QED BY <1>2, <1>4, <1>5, <1>6 DEF IInv

\* deviceInit refuses the node.
LEMMA DeviceInitRefusesIInv == ASSUME IInv, DeviceInitRefuses PROVE IInv'
BY EndsIInv DEF DeviceInitRefuses, At

\* A request cannot be sent.
LEMMA SendFailsIInv == ASSUME IInv, SendFails PROVE IInv'
<1>1. CASE At("idle") /\ pc' = "end" /\ rv' = "ERROR" /\ UNCHANGED load
  BY <1>1, EndsIInv DEF SendFails, At
<1>2. CASE (At("start") \/ At("program")) /\ TryFails("ERROR")
  BY <1>2, TryFailsIInv DEF SendFails, At
<1> QED BY <1>1, <1>2 DEF SendFails

\* deviceInit has its answer, or none.
LEMMA DeviceInitEndsIInv == ASSUME IInv, DeviceInitEnds PROVE IInv'
<1> USE DEF DeviceInitEnds
<1>1. CASE pc' = "end"
  BY <1>1, EndsIInv DEF IInv, TypeOK, At
<1>2. CASE pc' = "memtype"
  <2>0. StreamOK /\ Acknowledged("init") /\ UNCHANGED rv
    BY <1>2 DEF IInv, Acknowledged
  <2>1. UNCHANGED <<Image, BlockSize, NChunks, Current, Blocks, BlockData(Current)>>
    BY BlockFrame
  <2>2. TypeOK' /\ StreamOK'
    BY <1>2, <2>0, <2>1 DEF IInv, TypeOK, StreamOK, Requests, At
  <2>3. ~Started' /\ ~Confirmed' /\ ~Writing' /\ \A p : p # "memtype" => ~Acknowledged(p)'
    BY <1>2 DEF Started, Confirmed, Writing, Acknowledged, At
  <2>4. Quiet'
    BY <2>0, StreamStill DEF IInv, StreamInv, QuietInv
  <2>5. StreamInv'
    BY <1>2, <2>3, <2>4 DEF StreamInv, QuietInv, FirstTryInv, SecondTryInv, ThirdTryInv, ProgramInv
  <2>6. RequestInv' /\ AnswerInv' /\ ProgramReady' /\ OnlyImageData' /\ PassedIsProgrammed'
    BY NodeFrame DEF IInv
  <2>7. LateInv' /\ MixedInv' /\ ReadyInv'
    BY <1>2, <2>3 DEF LateInv, MixedInv, ReadyInv
  <2> QED BY <2>2, <2>5, <2>6, <2>7 DEF IInv
<1> QED BY <1>1, <1>2

\* writeBlockStart has its answer, or none.
LEMMA WriteBlockStartEndsIInv == ASSUME IInv, WriteBlockStartEnds PROVE IInv'
<1> USE DEF WriteBlockStartEnds
<1>1. CASE rv # "SUCCESS"
  BY <1>1, TryFailsIInv DEF IInv, TypeOK, At
<1>2. CASE rv = "SUCCESS"
  <2>0. StreamOK /\ Acknowledged("started") /\ Started /\ pc' = "chunk" /\ chunk' = 0
        /\ UNCHANGED <<memtype, block, trycnt, rv>>
    BY <1>2 DEF IInv, Acknowledged, Started, At
  <2>1. /\ UNCHANGED <<Image, BlockSize, NChunks, Current, Blocks, BlockData(Current)>> /\ (Here' <=> Here)
        /\ NChunks \in Nat /\ NChunks >= 1
    BY <2>0, BlockFrame, BlockChunks DEF StreamOK, Here
  <2>2. TypeOK'
    BY <2>0, <2>1 DEF IInv, TypeOK
  <2>3. StreamOK'
    BY <2>0, <2>1 DEF StreamOK, Requests, At
  <2>4. Started' /\ ~Confirmed' /\ Writing' /\ \A p : p # "chunk" => ~Acknowledged(p)'
    BY <2>0 DEF Started, Confirmed, Writing, Acknowledged, At
  <2>5. Kept
    BY StreamStill DEF Kept, Only
  <2>6. NoneOf(Program)'
    BY <2>0, <2>5 DEF IInv, StreamInv, ProgramInv, Kept, Acknowledged, At
  <2>7. trycnt = 3 => NoneOf(Start)'
    BY <2>0, <2>5 DEF IInv, StreamInv, FirstTryInv, Kept
  <2>8. trycnt = 2 => Only(Start)' /\ Never(Others, Start)' /\ Late'
    <3> SUFFICES ASSUME trycnt = 2 PROVE Only(Start)' /\ Never(Others, Start)' /\ Late'
      OBVIOUS
    <3>1. Only(Start)
      BY <2>0 DEF IInv, StreamInv, SecondTryInv
    <3>2. Never(Others, Start) /\ Late
      BY <2>0, <3>1, StreamFacts, NothingLate, Kinds DEF Only
    <3> QED BY <2>0, <2>5, <3>1, <3>2, NodeFrame DEF Kept
  <2>9. StreamInv'
    <3>1. QuietInv'
      BY <2>0, <2>4 DEF QuietInv
    <3>2. FirstTryInv'
      BY <2>0, <2>7 DEF FirstTryInv
    <3>3. SecondTryInv'
      BY <2>0, <2>4, <2>8 DEF SecondTryInv
    <3>4. ThirdTryInv'
      BY <2>0 DEF ThirdTryInv
    <3>5. ProgramInv'
      BY <2>0, <2>6 DEF ProgramInv
    <3> QED BY <3>1, <3>2, <3>3, <3>4, <3>5 DEF StreamInv
  <2>10. RequestInv' /\ AnswerInv' /\ ProgramReady' /\ OnlyImageData' /\ PassedIsProgrammed'
    BY <2>0, NodeFrame DEF IInv
  <2>11. LateInv'
    BY <2>0, <2>4, <2>8 DEF IInv, LateInv
  <2>12. MixedInv'
    BY <2>0, <2>4, NodeFrame DEF IInv, MixedInv
  <2>13. ReadyInv'
    BY <2>0, <2>1, <2>4 DEF IInv, ReadyInv
  <2> QED BY <2>2, <2>3, <2>9, <2>10, <2>11, <2>12, <2>13 DEF IInv
<1> QED BY <1>1, <1>2

\* writeChunk has its answer, or none.
LEMMA WriteChunkEndsIInv == ASSUME IInv, WriteChunkEnds PROVE IInv'
<1> USE DEF WriteChunkEnds, Wait
<1>0. /\ StreamOK /\ Writing /\ Started /\ await = None /\ pc \in {"chunk", "chunked"}
      /\ chunk \in Nat /\ UNCHANGED <<device, memtype, block, trycnt, rv, toNode, toHost, node, restarts>>
  BY DEF IInv, TypeOK, Started, Writing, At
<1>a. /\ pc' \in {"chunk", "data"}
      /\ chunk' = chunk \/ (chunk' = chunk + 1 /\ Acknowledged("chunked"))
      /\ pc' = "chunk" => chunk' = chunk + 1 /\ chunk' < NChunks /\ await' = None
      /\ pc' = "data" => await' = "DATA"
  BY DEF Acknowledged, At
<1>1. /\ UNCHANGED <<Image, BlockSize, NChunks, Current, Blocks, BlockData(Current)>> /\ (Here' <=> Here)
      /\ NChunks \in Nat /\ NChunks >= 1
  BY <1>0, BlockFrame, BlockChunks DEF StreamOK, Here
<1>2. TypeOK'
  <2>1. chunk' \in 0 .. NChunks /\ await' \in Answers \cup {None}
    BY <1>0, <1>a, <1>1 DEF StreamOK, Answers
  <2> QED BY <1>0, <1>a, <1>1, <2>1 DEF IInv, TypeOK
<1>3. StreamOK'
  BY <1>0, <1>a, <1>1 DEF StreamOK, Requests, None
<1>4. Started' /\ ~Confirmed' /\ Writing' /\ \A p : p # "chunk" => ~Acknowledged(p)'
  BY <1>a DEF Started, Confirmed, Writing, Acknowledged, At, None
<1>5. Kept
  BY <1>0, StreamStill DEF Kept, Only
<1>6. StreamInv'
  <2>1. QuietInv'
    BY <1>a, <1>4 DEF QuietInv
  <2>2. FirstTryInv'
    BY <1>0, <1>a, <1>5 DEF IInv, StreamInv, FirstTryInv, Kept
  <2>3. SecondTryInv'
    <3> SUFFICES ASSUME trycnt = 2
                 PROVE  Never(Others, Start)' /\ (chunk' > 0 => NoneOf(Start)')
      BY <1>0, <1>a, <1>4 DEF SecondTryInv
    <3>1. Never(Others, Start) /\ (chunk' > 0 => NoneOf(Start))
      BY <1>0, <1>a DEF IInv, StreamInv, SecondTryInv
    <3> QED BY <1>5, <3>1 DEF Kept
  <2>4. ThirdTryInv'
    BY <1>a DEF ThirdTryInv
  <2>5. ProgramInv'
    BY <1>0, <1>a, <1>5 DEF IInv, StreamInv, ProgramInv, Kept
  <2> QED BY <2>1, <2>2, <2>3, <2>4, <2>5 DEF StreamInv
<1>7. /\ RequestInv' /\ AnswerInv' /\ ProgramReady' /\ OnlyImageData' /\ PassedIsProgrammed'
      /\ (Late => Late') /\ (Mixed => Mixed')
  BY <1>0, NodeFrame DEF IInv
<1>8. LateInv'
  BY <1>0, <1>a, <1>4, <1>7 DEF IInv, LateInv
<1>9. MixedInv'
  BY <1>0, <1>4, <1>7 DEF IInv, MixedInv
<1>10. ReadyInv'
  BY <1>0, <1>a, <1>1, <1>4 DEF IInv, ReadyInv
<1> QED BY <1>2, <1>3, <1>6, <1>7, <1>8, <1>9, <1>10 DEF IInv

\* writeBlock has the answer to the block, or none.
LEMMA WriteBlockEndsIInv == ASSUME IInv, WriteBlockEnds PROVE IInv'
<1> USE DEF WriteBlockEnds
<1>1. CASE ~(rv = "SUCCESS" /\ BlockConfirmed)
  BY <1>1, TryFailsIInv DEF IInv, TypeOK, At
<1>2. CASE rv = "SUCCESS" /\ BlockConfirmed
  <2>0. StreamOK /\ Acknowledged("data") /\ Started /\ Writing /\ Confirmed /\ pc' = "program"
        /\ UNCHANGED <<load, rv>>
    BY <1>2 DEF IInv, Acknowledged, Started, Confirmed, Writing, At
  <2>1. UNCHANGED <<Image, BlockSize, NChunks, Current, Blocks, BlockData(Current)>> /\ (Here' <=> Here)
    BY <2>0, BlockFrame DEF Here
  <2>2. TypeOK'
    BY <2>0, <2>1 DEF IInv, TypeOK
  <2>3. StreamOK'
    BY <2>0, <2>1 DEF StreamOK, Requests, At, Acknowledged
  <2>4. Started' /\ Confirmed' /\ ~Writing' /\ \A p : p # "program" => ~Acknowledged(p)'
    BY <2>0 DEF Started, Confirmed, Writing, Acknowledged, At
  <2>5. Kept
    BY StreamStill DEF Kept, Only
  <2>6. StreamInv'
    <3>1. QuietInv'
      BY <2>0, <2>4 DEF QuietInv
    <3>2. FirstTryInv'
      BY <2>0, <2>5 DEF IInv, StreamInv, FirstTryInv, Kept
    <3>3. SecondTryInv'
      BY <2>0, <2>4, <2>5 DEF IInv, StreamInv, SecondTryInv, Kept
    <3>4. ThirdTryInv'
      BY <2>0 DEF ThirdTryInv
    <3>5. ProgramInv'
      BY <2>0, <2>5 DEF IInv, StreamInv, ProgramInv, Kept, Acknowledged, At
    <3> QED BY <3>1, <3>2, <3>3, <3>4, <3>5 DEF StreamInv
  <2>7. RequestInv' /\ AnswerInv' /\ ProgramReady' /\ OnlyImageData' /\ PassedIsProgrammed'
    BY <2>0, NodeFrame DEF IInv
  <2>8. LateInv' /\ MixedInv'
    BY <2>0, <2>4 DEF LateInv, MixedInv
  <2>9. ReadyInv'
    BY <2>0, <2>1, <2>4 DEF IInv, ReadyInv
  <2> QED BY <2>2, <2>3, <2>6, <2>7, <2>8, <2>9 DEF IInv
<1> QED BY <1>1, <1>2

\* The host goes on to a block or a memory type with nothing on its way.
LEMMA AdvanceIInv ==
  ASSUME IInv, Quiet, await = None, UNCHANGED <<device, await, ex, toNode, toHost, node, restarts, chunk>>,
         pc' \in {"start", "memtype"}, rv' = "SUCCESS", memtype' \in 1 .. Len(Image) + 1, block' \in Nat,
         pc' = "start" => <<memtype', block'>> \in Blocks /\ trycnt' = 3,
         pc' = "memtype" => block' = 0 /\ trycnt' \in 0 .. 3,
         at = NoBlock \/ Passed(at)' \/ (at = Current /\ Current' = Current),
         \A x \in Blocks : Passed(x)' => flash[x] = BlockData(x),
         \A x \in Blocks : Ahead(x)' => Ahead(x)
  PROVE  IInv'
<1>0. StreamOK
  BY DEF IInv
<1>1. UNCHANGED <<Image, BlockSize, NChunks, Blocks>> /\ \A x : BlockData(x)' = BlockData(x)
  BY DEF Image, NChunks, BlockSize, BlockData, Blocks
<1>2. TypeOK'
  BY <1>1 DEF IInv, TypeOK
<1>3. StreamOK'
  BY <1>0, <1>1 DEF StreamOK, Requests, Current
<1>4. ~Started' /\ ~Confirmed' /\ ~Writing' /\ \A p : p # pc' => ~Acknowledged(p)'
  BY DEF Started, Confirmed, Writing, Acknowledged, At
<1>5. Quiet'
  BY StreamStill
<1>6. StreamInv'
  BY <1>4, <1>5 DEF StreamInv, QuietInv, FirstTryInv, SecondTryInv, ThirdTryInv, ProgramInv
<1>7. RequestInv'
  <2>1. at = NoBlock \/ Passed(at)' => at # Current'
    BY DEF NoBlock, Passed, Current
  <2>2. CASE at = Current /\ Current' = Current
    BY <1>1, <1>5, <2>2 DEF RequestInv, Quiet, IInv
  <2>3. CASE at = NoBlock \/ Passed(at)'
    BY <1>5, <2>1, <2>3 DEF RequestInv, Quiet
  <2> QED BY <2>2, <2>3
<1>8. AnswerInv' /\ ProgramReady'
  BY <1>5 DEF AnswerInv, ProgramReady, Quiet
<1>9. LateInv' /\ MixedInv' /\ ReadyInv'
  BY <1>4 DEF LateInv, MixedInv, ReadyInv
<1>10. OnlyImageData' /\ PassedIsProgrammed'
  BY <1>1 DEF IInv, OnlyImageData, PassedIsProgrammed
<1> QED BY <1>2, <1>3, <1>6, <1>7, <1>8, <1>9, <1>10 DEF IInv

\* The parts of a block in numbers, and the block the node is at.
LEMMA AtParts ==
  ASSUME IInv
  PROVE  /\ memtype \in Nat /\ memtype >= 1 /\ block \in Nat /\ Image \in Seq(Seq(Seq(Nat)))
         /\ Len(Image) \in Nat /\ NoBlock \notin Blocks
         /\ at = NoBlock \/ at \in Blocks
         /\ \A x \in Blocks : /\ x = <<x[1], x[2]>> /\ x[1] \in Nat /\ x[2] \in Nat
                              /\ x[1] \in 1 .. Len(Image) /\ x[2] \in 0 .. Len(Image[x[1]]) - 1
<1>1. device \in Loads /\ Image \in Seq(Seq(Seq(Nat))) /\ Len(Image) \in Nat /\ NoBlock \notin Blocks
  BY BlockChunks DEF IInv, StreamOK
<1>2. memtype \in Nat /\ memtype >= 1 /\ block \in Nat /\ (at = NoBlock \/ at \in Blocks)
  BY <1>1 DEF IInv, TypeOK
<1>3. ASSUME NEW x \in Blocks
      PROVE  /\ x = <<x[1], x[2]>> /\ x[1] \in Nat /\ x[2] \in Nat
             /\ x[1] \in 1 .. Len(Image) /\ x[2] \in 0 .. Len(Image[x[1]]) - 1
  <2>1. x = <<x[1], x[2]>> /\ x[1] \in 1 .. Len(Image) /\ x[2] \in 0 .. Len(Image[x[1]]) - 1
    BY <1>1, BlockParts
  <2> QED BY <1>1, <2>1
<1> QED BY <1>1, <1>2, <1>3

\* deviceLoad enters a memory type, skips it or is done.
LEMMA NextMemtypeIInv == ASSUME IInv, NextMemtype PROVE IInv'
<1> USE DEF NextMemtype
<1>0. /\ StreamOK /\ Quiet /\ await = None /\ block = 0 /\ device \in Loads
      /\ memtype \in 1 .. Len(Image) + 1
  BY DEF IInv, TypeOK, StreamOK, StreamInv, QuietInv, At
<1>1. CASE memtype > Len(Image)
  BY <1>0, <1>1, EndsIInv DEF IInv, TypeOK, At
<1>2. CASE memtype <= Len(Image) /\ Image[memtype] = <<>>
  <2>0. ~(memtype > Len(Image))
    BY <1>2, AtParts
  <2>1. memtype' = memtype + 1 /\ rv' = "SUCCESS" /\ UNCHANGED <<pc, block, trycnt, chunk>> /\ pc = "memtype"
    BY <1>2, <2>0 DEF At
  <2>2. memtype' \in 1 .. Len(Image) + 1 /\ block' \in Nat /\ trycnt' \in 0 .. 3 /\ pc' = "memtype" /\ block' = 0
    <3>1. trycnt \in 0 .. 3
      BY DEF IInv, TypeOK
    <3>2. memtype + 1 \in 1 .. Len(Image) + 1
      BY <1>0, <1>2, AtParts
    <3> QED BY <1>0, <2>1, <3>1, <3>2
  <2>a. \A x \in Blocks : x[1] \in Nat /\ x[2] \in Nat /\ memtype \in Nat
    BY AtParts
  <2>3. \A x \in Blocks : x[1] # memtype
    BY <1>2, AtParts
  <2>4. \A x \in Blocks : (Passed(x)' <=> x[1] < memtype + 1) /\ (Passed(x) <=> x[1] < memtype)
    BY <1>0, <2>1, <2>a DEF Passed
  <2>5. \A x \in Blocks : Passed(x)' => Passed(x)
    BY <2>3, <2>4, <2>a
  <2>6. \A x \in Blocks : Ahead(x)' => Ahead(x)
    BY <1>0, <2>1, <2>a DEF Ahead
  <2>7. at = NoBlock \/ Passed(at)'
    <3>1. CASE at \in Blocks
      <4>1. Passed(at)
        BY <2>3, <3>1, AtParts DEF IInv, RequestInv, Current
      <4>2. at[1] < memtype + 1 /\ at' = at
        BY <2>4, <2>a, <3>1, <4>1
      <4> QED BY <2>1, <4>2 DEF Passed
    <3> QED BY <3>1, AtParts
  <2>8. \A x \in Blocks : Passed(x)' => flash[x] = BlockData(x)
    BY <2>5 DEF IInv, PassedIsProgrammed
  <2> QED BY <1>0, <2>1, <2>2, <2>6, <2>7, <2>8, AdvanceIInv
<1>3. CASE memtype <= Len(Image) /\ Image[memtype] # <<>>
  <2>0. ~(memtype > Len(Image))
    BY <1>3, AtParts
  <2>1. pc' = "start" /\ rv' = "SUCCESS" /\ trycnt' = 3 /\ UNCHANGED <<memtype, block, chunk>>
    BY <1>3, <2>0
  <2>2. <<memtype, block>> \in Blocks
    <3>1. memtype \in 1 .. Len(Image) /\ 0 \in 0 .. Len(Image[memtype]) - 1
      BY <1>0, <1>3, AtParts
    <3> QED BY <1>0, <3>1, BlockParts
  <2>3. UNCHANGED Current /\ \A x : (Passed(x)' <=> Passed(x)) /\ (Ahead(x)' <=> Ahead(x))
    BY <2>1, BlockFrame
  <2>4. at = NoBlock \/ Passed(at)' \/ (at = Current /\ Current' = Current)
    BY <2>1, <2>3 DEF IInv, RequestInv, Passed
  <2>5. \A x \in Blocks : Passed(x)' => flash[x] = BlockData(x)
    BY <2>3 DEF IInv, PassedIsProgrammed
  <2> QED BY <1>0, <2>1, <2>2, <2>3, <2>4, <2>5, AdvanceIInv, AtParts
<1> QED BY <1>1, <1>2, <1>3, AtParts

\* programBlock has its answer, or none.
LEMMA ProgramBlockEndsIInv == ASSUME IInv, ProgramBlockEnds PROVE IInv'
<1> USE DEF ProgramBlockEnds
<1>1. CASE rv # "SUCCESS"
  BY <1>1, TryFailsIInv DEF IInv, TypeOK, At
<1>2. CASE rv = "SUCCESS"
  <2>0. /\ NextBlock /\ await = None /\ Started /\ Acknowledged("programmed") /\ device \in Loads
        /\ pc = "programmed" /\ UNCHANGED device
    BY <1>2 DEF IInv, StreamOK, At, Started, Acknowledged
  <2>1. /\ StreamOK /\ Quiet /\ Here /\ flash[Current] = BlockData(Current) /\ Current \in Blocks
    BY <2>0 DEF IInv, StreamOK, StreamInv, QuietInv, ReadyInv
  <2>2. memtype \in 1 .. Len(Image) /\ block \in 0 .. Len(Image[memtype]) - 1
    BY <2>1, AtParts DEF Current
  <2>3. trycnt' = 3 /\ UNCHANGED <<chunk, rv>> /\ rv' = "SUCCESS"
    BY <1>2, <2>0 DEF NextBlock
  <2>4. /\ memtype' \in 1 .. Len(Image) + 1 /\ block' \in Nat /\ pc' \in {"start", "memtype"}
        /\ pc' = "start" => <<memtype', block'>> \in Blocks
        /\ pc' = "memtype" => block' = 0
        /\ \A x \in Blocks : Passed(x)' => Passed(x) \/ x = Current
        /\ \A x \in Blocks : Ahead(x)' => Ahead(x)
        /\ \A x \in Blocks : x = Current => Passed(x)'
    <3>0. \A x \in Blocks : /\ x = <<x[1], x[2]>> /\ x[1] \in Nat /\ x[2] \in Nat /\ memtype \in Nat
                            /\ block \in Nat /\ x[2] < Len(Image[x[1]])
      BY AtParts
    <3>1. CASE block + 1 < Len(Image[memtype])
      <4>1. pc' = "start" /\ block' = block + 1 /\ memtype' = memtype
        BY <2>0, <3>1 DEF NextBlock
      <4>2. <<memtype', block'>> \in Blocks
        BY <2>0, <2>2, <3>1, <4>1, BlockParts
      <4>3. ASSUME NEW x \in Blocks
            PROVE  /\ Passed(x)' => Passed(x) \/ x = Current
                   /\ Ahead(x)' => Ahead(x)
                   /\ x = Current => Passed(x)'
        <5>1. /\ x[1] \in Nat /\ x[2] \in Nat /\ memtype \in Nat /\ block \in Nat
              /\ x = Current <=> x[1] = memtype /\ x[2] = block
          BY <3>0 DEF Current
        <5> QED BY <4>1, <5>1 DEF Passed, Ahead
      <4>4. memtype' \in 1 .. Len(Image) + 1 /\ block' \in Nat
        <5>1. Len(Image) \in Nat /\ memtype \in Nat /\ block \in Nat
          BY AtParts
        <5> QED BY <2>2, <4>1, <5>1
      <4> QED BY <4>1, <4>2, <4>3, <4>4
    <3>2. CASE ~(block + 1 < Len(Image[memtype]))
      <4>1. pc' = "memtype" /\ block' = 0 /\ memtype' = memtype + 1
        BY <2>0, <3>2 DEF NextBlock
      <4>2. Len(Image[memtype]) = block + 1
        BY <2>2, <3>2, AtParts
      <4>3. ASSUME NEW x \in Blocks
            PROVE  /\ Passed(x)' => Passed(x) \/ x = Current
                   /\ Ahead(x)' => Ahead(x)
                   /\ x = Current => Passed(x)'
        <5>1. /\ x[1] \in Nat /\ x[2] \in Nat /\ memtype \in Nat /\ block \in Nat
              /\ x = Current <=> x[1] = memtype /\ x[2] = block
              /\ x[1] = memtype => x[2] < block + 1
          BY <3>0, <4>2 DEF Current
        <5> QED BY <4>1, <5>1 DEF Passed, Ahead
      <4>4. memtype' \in 1 .. Len(Image) + 1 /\ block' \in Nat
        BY <2>2, <4>1, AtParts
      <4> QED BY <4>1, <4>3, <4>4
    <3> QED BY <3>1, <3>2
  <2>5. at = NoBlock \/ Passed(at)'
    <3>1. PICK x : x = at
      OBVIOUS
    <3>2. x = NoBlock \/ Passed(x)'
      BY <2>1, <2>4, <3>1 DEF Here
    <3> QED BY <3>1, <3>2 DEF Passed
  <2>6. \A x \in Blocks : Passed(x)' => flash[x] = BlockData(x)
    BY <2>1, <2>4 DEF IInv, PassedIsProgrammed
  <2> QED BY <2>0, <2>1, <2>3, <2>4, <2>5, <2>6, AdvanceIInv
<1> QED BY <1>1, <1>2
-----------------------------------------------------------------------------
(* Requests.                                                                 *)

\* A request is added.
LEMMA AddedFrame ==
  ASSUME StreamOK, NEW m \in Requests, toNode' = Append(toNode, m),
         UNCHANGED <<device, memtype, block, toHost, node>>
  PROVE  /\ Len(toNode) \in Nat /\ toNode' \in Seq(Requests)
         /\ \A i \in 1 .. Len(toNode') : \/ i \in 1 .. Len(toNode) /\ toNode'[i] = toNode[i]
                                         \/ i = Len(toNode) + 1 /\ toNode'[i] = m
         /\ AnswerInv => AnswerInv'
         /\ /\ RequestInv
            /\ m.to = "START" => m.at = Current
            /\ m.to = "CHUNK" => \E k \in 1 .. NChunks : m.data = <<BlockData(Current)[k]>>
            => RequestInv'
         /\ m.to = "START" /\ Late => Late'
         /\ m.to = "CHUNK" /\ Mixed => Mixed'
         /\ m.to # "PROGRAM" /\ ProgramReady => ProgramReady'
<1>1. /\ Len(toNode) \in Nat /\ Len(toNode') = Len(toNode) + 1 /\ toNode' \in Seq(Requests)
      /\ \A i \in 1 .. Len(toNode) : toNode'[i] = toNode[i]
      /\ toNode'[Len(toNode) + 1] = m
  BY Appended DEF StreamOK
<1>2. \A i \in 1 .. Len(toNode') : \/ i \in 1 .. Len(toNode) /\ toNode'[i] = toNode[i]
                                   \/ i = Len(toNode) + 1 /\ toNode'[i] = m
  BY <1>1
<1>3. AnswerInv => AnswerInv'
  BY DEF AnswerInv, Current, Here, Image, NChunks, BlockSize, BlockData
<1>4. /\ UNCHANGED <<Image, BlockSize, NChunks, Current, Blocks, BlockData(Current), Passed(at)>>
      /\ Here' <=> Here
  BY BlockFrame DEF Here, Passed
<1>5. /\ RequestInv
      /\ m.to = "START" => m.at = Current
      /\ m.to = "CHUNK" => \E k \in 1 .. NChunks : m.data = <<BlockData(Current)[k]>>
      => RequestInv'
  BY <1>2, <1>4 DEF RequestInv
<1>6. m.to = "START" /\ Late => Late'
  <2> SUFFICES ASSUME m.to = "START", Late, NEW j \in 1 .. Len(toNode'), toNode'[j].to = "CHUNK",
                      \/ \E i \in 1 .. Len(toHost) : toHost[i].to = "START"
                      \/ \E i \in 1 .. j - 1 : toNode'[i].to = "START"
               PROVE  /\ at = NoBlock \/ buffer = <<>>
                      /\ \A k \in 1 .. Len(toNode') : toNode'[k].to = "CHUNK" => k = j
    BY <1>4 DEF Late
  <2>1. j \in 1 .. Len(toNode) /\ toNode[j].to = "CHUNK"
    BY <1>2
  <2>2. \A i \in 1 .. j - 1 : toNode'[i] = toNode[i]
    BY <1>1, <2>1
  <2>3. /\ at = NoBlock \/ buffer = <<>>
        /\ \A k \in 1 .. Len(toNode) : toNode[k].to = "CHUNK" => k = j
    BY <2>1, <2>2 DEF Late
  <2> QED BY <1>2, <2>3
<1>7. m.to = "CHUNK" /\ Mixed => Mixed'
  <2> SUFFICES ASSUME m.to = "CHUNK", Mixed PROVE Mixed'
    OBVIOUS
  <2>1. \A i \in 1 .. Len(toHost), j \in 1 .. Len(toNode') : toHost[i].to = "DATA" /\ toNode'[j].to = "START" => NChunks = 1
    BY <1>2 DEF Mixed
  <2>2. ASSUME NEW i \in 1 .. Len(toNode'), NEW j \in 1 .. Len(toNode'),
               i < j, toNode'[i].to = "CHUNK", toNode'[j].to = "START"
        PROVE  /\ at = NoBlock \/ buffer = <<>>
               /\ \A k \in 1 .. Len(toNode') : toNode'[k].to = "CHUNK" => k = i \/ k > j
    <3>1. j \in 1 .. Len(toNode) /\ toNode[j].to = "START"
      BY <1>2, <2>2
    <3>2. i \in 1 .. Len(toNode) /\ toNode[i].to = "CHUNK"
      BY <1>1, <2>2, <3>1
    <3>3. /\ at = NoBlock \/ buffer = <<>>
          /\ \A k \in 1 .. Len(toNode) : toNode[k].to = "CHUNK" => k = i \/ k > j
      BY <2>2, <3>1, <3>2 DEF Mixed
    <3>4. Len(toNode) + 1 > j
      BY <1>1, <3>1
    <3> QED BY <1>2, <3>3, <3>4
  <2> QED BY <1>4, <2>1, <2>2 DEF Mixed
<1>8. m.to # "PROGRAM" /\ ProgramReady => ProgramReady'
  <2> SUFFICES ASSUME m.to # "PROGRAM", ProgramReady, NEW i \in 1 .. Len(toNode'), toNode'[i].to = "PROGRAM"
               PROVE  /\ Here
                      /\ \/ NChunks = 1
                         \/ /\ \A j \in 1 .. i - 1 : toNode'[j].to # "START"
                            /\ at = NoBlock \/ buffer = BlockData(Current)
    BY <1>4 DEF ProgramReady
  <2>1. i \in 1 .. Len(toNode) /\ toNode[i].to = "PROGRAM"
    BY <1>2
  <2>2. \A j \in 1 .. i - 1 : toNode'[j] = toNode[j]
    BY <1>1, <2>1
  <2> QED BY <2>1, <2>2 DEF ProgramReady
<1> QED BY <1>1, <1>2, <1>3, <1>5, <1>6, <1>7, <1>8

\* deviceInit asks for the boot mode.
LEMMA DeviceInitIInv == ASSUME IInv, DeviceInit PROVE IInv'
<1> USE DEF DeviceInit, Send, Wait
<1>0. /\ StreamOK /\ Quiet /\ pc = "idle" /\ await = None /\ UNCHANGED <<device, load, rv, toHost, node, restarts>>
      /\ pc' = "init" /\ await' = "ENTER"
  BY DEF IInv, StreamInv, QuietInv, At
<1> DEFINE m == [to |-> "ENTER", at |-> NoBlock, data |-> <<>>]
<1>1. m \in Requests /\ toNode' = Append(toNode, m) /\ m.to = "ENTER"
  BY DEF Requests, Answers
<1> HIDE DEF m
<1>2. UNCHANGED <<Image, BlockSize, NChunks, Current, Blocks, BlockData(Current)>>
  BY <1>0, BlockFrame
<1>3. TypeOK'
  BY <1>0, <1>2 DEF IInv, TypeOK, Answers
<1>4. StreamOK'
  BY <1>0, <1>1, <1>2, AddedFrame DEF StreamOK, Requests, None
<1>5. ~Started' /\ ~Confirmed' /\ ~Writing' /\ \A p : ~Acknowledged(p)'
  BY <1>0 DEF Started, Confirmed, Writing, Acknowledged, At, None
<1>6. Only({"ENTER"})' /\ Never({"ENTER"}, {"ENTER"})'
  BY <1>0, <1>1, RequestAdded, StreamFacts DEF Only
<1>7. StreamInv'
  BY <1>0, <1>5, <1>6 DEF StreamInv, QuietInv, FirstTryInv, SecondTryInv, ThirdTryInv, ProgramInv
<1>8. RequestInv' /\ AnswerInv' /\ ProgramReady'
  BY <1>0, <1>1, AddedFrame DEF IInv
<1>9. LateInv' /\ MixedInv' /\ ReadyInv'
  BY <1>0, <1>5 DEF LateInv, MixedInv, ReadyInv
<1>10. OnlyImageData' /\ PassedIsProgrammed'
  BY <1>0, FlashFrame DEF IInv
<1> QED BY <1>3, <1>4, <1>7, <1>8, <1>9, <1>10 DEF IInv

\* writeBlockStart sends START_BLOCK.
LEMMA WriteBlockStartIInv == ASSUME IInv, WriteBlockStart PROVE IInv'
<1> USE DEF WriteBlockStart, Send, Wait
<1>0. /\ StreamOK /\ pc = "start" /\ await = None /\ UNCHANGED <<device, load, rv, toHost, node, restarts>>
      /\ pc' = "started" /\ await' = "START" /\ Current \in Blocks
  BY DEF IInv, StreamOK, At
<1> DEFINE m == [to |-> "START", at |-> <<memtype, block>>, data |-> <<>>]
<1>1. m \in Requests /\ toNode' = Append(toNode, m) /\ m.to = "START" /\ m.at = Current
  BY <1>0 DEF Requests, Answers, Current
<1> HIDE DEF m
<1>2. UNCHANGED <<Image, BlockSize, NChunks, Current, Blocks, BlockData(Current)>>
  BY <1>0, BlockFrame
<1>3. TypeOK'
  BY <1>0, <1>2 DEF IInv, TypeOK, Answers
<1>4. StreamOK'
  BY <1>0, <1>1, <1>2, AddedFrame DEF StreamOK, Requests, None
<1>5. ~Started' /\ ~Confirmed' /\ ~Writing' /\ \A p : ~Acknowledged(p)'
  BY <1>0 DEF Started, Confirmed, Writing, Acknowledged, At, None
<1>6. trycnt = 3 => Only(Start)' /\ Never(Start, Start)'
  <2> SUFFICES ASSUME trycnt = 3 PROVE Only(Start)' /\ Never(Start, Start)'
    OBVIOUS
  <2>1. NoneOf(Answers \ Start) /\ NoneOf(Start)
    BY <1>0, StreamFacts DEF IInv, StreamInv, FirstTryInv
  <2> QED BY <1>0, <1>1, <2>1, RequestAdded, Kinds DEF Only
<1>7. trycnt = 2 => Never(Start, Others)'
  <2> SUFFICES ASSUME trycnt = 2 PROVE Never(Start, Others)'
    OBVIOUS
  <2>1. NoneOf(Others) \/ NoneOf(Start)
    BY <1>0, Kinds DEF IInv, StreamInv, SecondTryInv, Only
  <2>2. Never(Start, Others)
    BY <1>0, <2>1, StreamFacts
  <2> QED BY <1>0, <1>1, <2>2, RequestAdded DEF Others, Start
<1>8. trycnt = 1 => Never(Start, Program)' /\ Late'
  <2> SUFFICES ASSUME trycnt = 1 PROVE Never(Start, Program)' /\ Late'
    OBVIOUS
  <2>1. Never(Start, Program) /\ Late
    BY <1>0 DEF IInv, StreamInv, ThirdTryInv, LateInv
  <2> QED BY <1>0, <1>1, <2>1, RequestAdded, AddedFrame DEF Program
<1>9. StreamInv'
  BY <1>0, <1>5, <1>6, <1>7, <1>8 DEF StreamInv, QuietInv, FirstTryInv, SecondTryInv, ThirdTryInv, ProgramInv
<1>10. RequestInv' /\ AnswerInv' /\ ProgramReady'
  BY <1>0, <1>1, AddedFrame DEF IInv
<1>11. LateInv' /\ MixedInv' /\ ReadyInv'
  BY <1>0, <1>5, <1>8 DEF LateInv, MixedInv, ReadyInv
<1>12. OnlyImageData' /\ PassedIsProgrammed'
  BY <1>0, FlashFrame DEF IInv
<1> QED BY <1>3, <1>4, <1>9, <1>10, <1>11, <1>12 DEF IInv

\* writeChunk sends a chunk.
LEMMA WriteChunkIInv == ASSUME IInv, WriteChunk PROVE IInv'
<1> USE DEF WriteChunk, Send, Wait
<1>0. /\ StreamOK /\ pc = "chunk" /\ await = None /\ UNCHANGED <<device, load, rv, toHost, node, restarts>>
      /\ pc' = "chunked" /\ await' = "CHUNK" /\ Current \in Blocks /\ chunk < NChunks /\ chunk \in Nat
      /\ Started /\ Writing
  BY DEF IInv, TypeOK, StreamOK, At, Started, Writing
<1> DEFINE m == [to |-> "CHUNK", at |-> NoBlock, data |-> <<BlockData(<<memtype, block>>)[chunk + 1]>>]
<1>a. BlockData(Current) \in Seq(Nat) /\ Len(BlockData(Current)) = NChunks /\ NChunks \in Nat
  BY <1>0, BlockChunks DEF StreamOK
<1>b. chunk + 1 \in 1 .. NChunks /\ BlockData(Current)[chunk + 1] \in Nat
  BY <1>0, <1>a
<1>1. m \in Requests /\ toNode' = Append(toNode, m) /\ m.to = "CHUNK" /\ m.data = <<BlockData(Current)[chunk + 1]>>
  BY <1>b DEF Requests, Answers, Current
<1> HIDE DEF m
<1>2. UNCHANGED <<Image, BlockSize, NChunks, Current, Blocks, BlockData(Current)>> /\ (Here' <=> Here)
  BY <1>0, BlockFrame DEF Here
<1>3. TypeOK'
  BY <1>0, <1>2 DEF IInv, TypeOK, Answers
<1>4. StreamOK'
  BY <1>0, <1>1, <1>2, AddedFrame DEF StreamOK, Requests, None
<1>5. Started' /\ ~Confirmed' /\ Writing' /\ \A p : ~Acknowledged(p)'
  BY <1>0 DEF Started, Confirmed, Writing, Acknowledged, At, None
<1>6. NoneOf(Program)' /\ (NoneOf(Start) => NoneOf(Start)') /\ (Never(Others, Start) => Never(Others, Start)')
  <2>1. NoneOf(Program)
    BY <1>0 DEF IInv, StreamInv, ProgramInv
  <2> QED BY <1>0, <1>1, <2>1, RequestAdded DEF Program, Start
<1>7. StreamInv'
  <2>1. QuietInv'
    BY <1>0, <1>5 DEF QuietInv
  <2>2. FirstTryInv'
    BY <1>0, <1>6 DEF IInv, StreamInv, FirstTryInv
  <2>3. SecondTryInv'
    BY <1>0, <1>5, <1>6 DEF IInv, StreamInv, SecondTryInv
  <2>4. ThirdTryInv' /\ ProgramInv'
    BY <1>0, <1>6 DEF ThirdTryInv, ProgramInv
  <2> QED BY <2>1, <2>2, <2>3, <2>4 DEF StreamInv
<1>8. RequestInv' /\ AnswerInv' /\ ProgramReady' /\ (Mixed => Mixed')
  BY <1>0, <1>1, <1>b, AddedFrame DEF IInv
<1>9. trycnt = 2 => Late'
  <2> SUFFICES ASSUME trycnt = 2 PROVE Late'
    OBVIOUS
  <2>1. CASE chunk > 0
    <3>1. NoneOf(Start)'
      BY <1>0, <1>6, <2>1 DEF IInv, StreamInv, SecondTryInv
    <3> QED BY <3>1, Kinds DEF NoneOf, Late
  <2>2. CASE chunk = 0
    <3>1. NoneOf(Others) /\ (at = NoBlock \/ buffer = <<>>)
      BY <1>0, <2>2, Kinds DEF IInv, StreamInv, SecondTryInv, LateInv, Only
    <3>2. (\A i \in 1 .. Len(toHost) : toHost[i].to # "DATA") /\ (\A i \in 1 .. Len(toNode) : toNode[i].to # "CHUNK")
      BY <3>1, Kinds DEF NoneOf
    <3>3. \A i \in 1 .. Len(toNode') : toNode'[i].to = "CHUNK" => i = Len(toNode) + 1
      BY <1>0, <1>1, <3>2, AddedFrame
    <3> QED BY <1>0, <3>1, <3>2, <3>3 DEF Late
  <2> QED BY <1>0, <2>1, <2>2
<1>10. LateInv'
  BY <1>0, <1>5, <1>9 DEF LateInv
<1>11. MixedInv'
  BY <1>0, <1>8 DEF IInv, MixedInv
<1>12. ReadyInv'
  BY <1>0, <1>2, <1>5 DEF IInv, ReadyInv
<1>13. OnlyImageData' /\ PassedIsProgrammed'
  BY <1>0, FlashFrame DEF IInv
<1> QED BY <1>3, <1>4, <1>7, <1>8, <1>10, <1>11, <1>12, <1>13 DEF IInv

\* programBlock asks for the block to be programmed.
LEMMA ProgramBlockIInv == ASSUME IInv, ProgramBlock PROVE IInv'
<1> USE DEF ProgramBlock, Send, Wait
<1>0. /\ StreamOK /\ pc = "program" /\ await = None /\ UNCHANGED <<device, load, rv, toHost, node, restarts>>
      /\ pc' = "programmed" /\ await' = "PROGRAM" /\ Current \in Blocks /\ trycnt \in 1 .. 3
      /\ Started /\ Confirmed
  BY DEF IInv, TypeOK, StreamOK, At, Started, Confirmed
<1> DEFINE m == [to |-> "PROGRAM", at |-> <<memtype, block>>, data |-> <<>>]
<1>1. m \in Requests /\ toNode' = Append(toNode, m) /\ m.to = "PROGRAM"
  BY <1>0 DEF Requests, Answers, Current
<1> HIDE DEF m
<1>2. UNCHANGED <<Image, BlockSize, NChunks, Current, Blocks, BlockData(Current)>> /\ (Here' <=> Here)
  BY <1>0, BlockFrame DEF Here
<1>3. TypeOK'
  BY <1>0, <1>2 DEF IInv, TypeOK, Answers
<1>4. StreamOK'
  BY <1>0, <1>1, <1>2, AddedFrame DEF StreamOK, Requests, None
<1>5. Started' /\ ~Confirmed' /\ ~Writing' /\ \A p : ~Acknowledged(p)'
  BY <1>0 DEF Started, Confirmed, Writing, Acknowledged, At, None
<1>6. Never(Program, Answers)' /\ (NoneOf(Start) => NoneOf(Start)')
  <2>1. NoneOf(Program)
    BY <1>0 DEF IInv, StreamInv, ProgramInv
  <2> QED BY <1>0, <1>1, <2>1, RequestAdded DEF Start
<1>7. StreamInv'
  <2>1. QuietInv'
    BY <1>0, <1>5 DEF QuietInv
  <2>2. FirstTryInv'
    BY <1>0, <1>6 DEF IInv, StreamInv, FirstTryInv
  <2>3. SecondTryInv'
    BY <1>0, <1>5, <1>6 DEF IInv, StreamInv, SecondTryInv
  <2>4. ThirdTryInv' /\ ProgramInv'
    BY <1>0, <1>6 DEF ThirdTryInv, ProgramInv
  <2> QED BY <2>1, <2>2, <2>3, <2>4 DEF StreamInv
<1>8. RequestInv' /\ AnswerInv'
  BY <1>0, <1>1, AddedFrame DEF IInv
<1>9. ProgramReady'
  <2>1. Here /\ (\/ NChunks = 1
                 \/ /\ \A j \in 1 .. Len(toNode) : toNode[j].to # "START"
                    /\ at = NoBlock \/ buffer = BlockData(Current))
    BY <1>0 DEF IInv, ReadyInv
  <2>2. /\ Len(toNode) \in Nat
        /\ \A i \in 1 .. Len(toNode') : \/ i \in 1 .. Len(toNode) /\ toNode'[i] = toNode[i]
                                        \/ i = Len(toNode) + 1 /\ toNode'[i] = m
    BY <1>0, <1>1, AddedFrame
  <2>3. NChunks # 1 => \A j \in 1 .. Len(toNode') : toNode'[j].to # "START"
    BY <1>1, <2>1, <2>2
  <2>4. \A i \in 1 .. Len(toNode') : \A j \in 1 .. i - 1 : j \in 1 .. Len(toNode')
    BY <2>2
  <2> QED BY <1>0, <1>2, <2>1, <2>3, <2>4 DEF ProgramReady
<1>10. LateInv' /\ MixedInv'
  BY <1>0, <1>5 DEF LateInv, MixedInv
<1>11. ReadyInv'
  BY <1>0, <1>2, <1>5 DEF IInv, ReadyInv
<1>12. OnlyImageData' /\ PassedIsProgrammed'
  BY <1>0, FlashFrame DEF IInv
<1> QED BY <1>3, <1>4, <1>7, <1>8, <1>9, <1>10, <1>11, <1>12 DEF IInv
-----------------------------------------------------------------------------
(* The host receives an answer.                                              *)

\* A stream without a message is empty, after a step.
LEMMA QuietAfter == ASSUME StreamOK', NoneOf(Answers)' PROVE Quiet'
<1>1. toHost' \in Seq(Events) /\ toNode' \in Seq(Requests)'
  BY DEF StreamOK
<1>2. ASSUME toHost' # <<>> PROVE FALSE
  <2>1. 1 \in 1 .. Len(toHost') /\ toHost'[1] \in Events
    BY <1>1, <1>2
  <2> QED BY <2>1 DEF NoneOf, Events
<1>3. ASSUME toNode' # <<>> PROVE FALSE
  <2>1. 1 \in 1 .. Len(toNode') /\ toNode'[1] \in Requests'
    BY <1>1, <1>3
  <2> QED BY <2>1 DEF NoneOf, Requests
<1> QED BY <1>2, <1>3 DEF Quiet

\* The answer to an earlier START_BLOCK is taken for the one to the last.
LEMMA LateTaken ==
  ASSUME StreamOK, toHost # <<>>, toHost' = Tail(toHost), Head(toHost).to = "START",
         UNCHANGED <<device, memtype, block, toNode, node>>, Late
  PROVE  Mixed'
<1>1. UNCHANGED NChunks
  BY BlockFrame
<1>2. /\ Len(toHost) \in Nat /\ 1 \in 1 .. Len(toHost) /\ toHost[1].to = "START"
      /\ \A i \in 1 .. Len(toHost') : i + 1 \in 1 .. Len(toHost) /\ toHost'[i] = toHost[i + 1] /\ 1 < i + 1
  BY Popped DEF StreamOK
<1>3. \A i \in 1 .. Len(toHost') : toHost'[i].to = "DATA" => NChunks = 1
  BY <1>2 DEF Late
<1>4. \A i \in 1 .. Len(toNode) : toNode[i].to = "CHUNK" =>
        /\ at = NoBlock \/ buffer = <<>>
        /\ \A k \in 1 .. Len(toNode) : toNode[k].to = "CHUNK" => k = i
  BY <1>2 DEF Late
<1> QED BY <1>1, <1>3, <1>4 DEF Mixed

\* What the oldest answer says about the node, once it is taken.
LEMMA AnswerSays ==
  ASSUME IInv, toHost # <<>>
  PROVE  /\ Head(toHost).to = "START" /\ Head(toHost).ack =>
              /\ Here
              /\ Never(Start, Others) => at = NoBlock \/ buffer = <<>>
         /\ Head(toHost).to = "DATA" /\ (\A j \in 2 .. Len(toHost) : toHost[j].to # "START") =>
              at = NoBlock \/ buffer = Head(toHost).data
         /\ Head(toHost).to = "PROGRAM" /\ Head(toHost).ack /\ Never(Program, Answers) =>
              flash[Current] = BlockData(Current)
<1>1. /\ Len(toHost) \in Nat /\ 1 \in 1 .. Len(toHost) /\ Head(toHost) = toHost[1] /\ AnswerInv
      /\ \A i \in 1 .. Len(toHost) : toHost[i] \in Events
  BY Popped DEF IInv, StreamOK
<1>a. \A j \in 2 .. Len(toHost) : j \in 1 .. Len(toHost) /\ 1 < j
  BY <1>1
<1>b. 1 + 1 = 2
  OBVIOUS
<1>2. ASSUME Head(toHost).to = "START", Head(toHost).ack
      PROVE  Here /\ (Never(Start, Others) => at = NoBlock \/ buffer = <<>>)
  <2>1. Here /\ ((\A j \in 2 .. Len(toHost) : toHost[j].to # "CHUNK") => at = NoBlock \/ buffer = <<>>)
    BY <1>1, <1>2, <1>b DEF AnswerInv
  <2>2. Never(Start, Others) => \A j \in 2 .. Len(toHost) : toHost[j].to # "CHUNK"
    BY <1>1, <1>2, <1>a, Kinds DEF Never
  <2> QED BY <2>1, <2>2
<1>3. Head(toHost).to = "DATA" /\ (\A j \in 2 .. Len(toHost) : toHost[j].to # "START") =>
        at = NoBlock \/ buffer = Head(toHost).data
  BY <1>1, <1>b DEF AnswerInv
<1>4. ASSUME Head(toHost).to = "PROGRAM", Head(toHost).ack, Never(Program, Answers)
      PROVE  flash[Current] = BlockData(Current)
  <2>1. \A j \in 2 .. Len(toHost) : toHost[j].to # "PROGRAM"
    BY <1>1, <1>4, <1>a, Kinds DEF Never
  <2> QED BY <1>1, <1>4, <1>b, <2>1 DEF AnswerInv
<1> QED BY <1>2, <1>3, <1>4

\* An answer that is not awaited changes nothing but the stream.
LEMMA AnswerDroppedIInv == ASSUME IInv, CheckResponse, Head(toHost).to # await PROVE IInv'
<1> USE DEF CheckResponse
<1>0. StreamOK /\ await # None /\ UNCHANGED <<device, pc, load, await, rv, toNode, node, restarts>>
  BY DEF IInv
<1>1. UNCHANGED <<Image, BlockSize, NChunks, Current, Blocks, BlockData(Current)>> /\ (Here' <=> Here)
  BY <1>0, BlockFrame DEF Here
<1>2. TypeOK'
  BY <1>0, <1>1 DEF IInv, TypeOK
<1>3. StreamOK'
  <2>1. toHost' \in Seq(Events)
    BY <1>0, Popped DEF StreamOK
  <2> QED BY <1>0, <1>1, <2>1 DEF StreamOK, Requests
<1>4. Kept
  BY <1>0, AnswerTaken DEF Kept, Only, Quiet
<1>5. StreamInv'
  BY <1>0, <1>4, StreamFrame DEF IInv
<1>6. RequestInv' /\ AnswerInv' /\ ProgramReady' /\ (Late => Late') /\ (Mixed => Mixed')
  BY <1>0, TakenFrame DEF IInv
<1>7. /\ ~Confirmed' /\ (\A p : ~Acknowledged(p) /\ ~Acknowledged(p)') /\ (Started' <=> Started)
      /\ (Writing' <=> Writing)
  BY <1>0 DEF Confirmed, Acknowledged, At, Started, Writing, StreamOK, None
<1>8. LateInv' /\ MixedInv' /\ ReadyInv'
  BY <1>0, <1>1, <1>6, <1>7 DEF IInv, LateInv, MixedInv, ReadyInv
<1>9. OnlyImageData' /\ PassedIsProgrammed'
  BY <1>0, FlashFrame DEF IInv
<1> QED BY <1>2, <1>3, <1>5, <1>6, <1>8, <1>9 DEF IInv

\* The awaited answer ends the wait.  What is older than it is gone.
LEMMA AnswerAwaitedIInv == ASSUME FullLevel2, IInv, CheckResponse, Head(toHost).to = await PROVE IInv'
<1> USE DEF CheckResponse
<1>0. /\ StreamOK /\ await # None /\ await' = None /\ ex' = Head(toHost)
      /\ UNCHANGED <<device, pc, load, toNode, node, restarts>>
      /\ rv' = IF Head(toHost).ack THEN "SUCCESS" ELSE "NACK"
      /\ toHost # <<>> /\ toHost' = Tail(toHost)
  BY DEF IInv
<1>a. <<pc, await>> \in {<<"init", "ENTER">>, <<"started", "START">>, <<"chunked", "CHUNK">>,
                         <<"data", "DATA">>, <<"programmed", "PROGRAM">>}
  BY <1>0 DEF StreamOK
<1> HIDE DEF CheckResponse
<1>b. /\ pc = "init" <=> Head(toHost).to = "ENTER"
      /\ pc = "started" <=> Head(toHost).to = "START"
      /\ pc = "chunked" <=> Head(toHost).to = "CHUNK"
      /\ pc = "data" <=> Head(toHost).to = "DATA"
      /\ pc = "programmed" <=> Head(toHost).to = "PROGRAM"
      /\ pc \in {"init", "started", "chunked", "data", "programmed"}
  BY <1>0, <1>a
<1>c. (\A p : ~Acknowledged(p)) /\ \A p : Acknowledged(p)' => pc = p /\ Head(toHost).ack
  BY <1>0 DEF Acknowledged, At
<1>1. UNCHANGED <<Image, BlockSize, NChunks, Current, Blocks, BlockData(Current)>> /\ (Here' <=> Here)
  BY <1>0, BlockFrame DEF Here
<1>2. TypeOK'
  BY <1>0, <1>1 DEF IInv, TypeOK
<1>3. StreamOK'
  <2>1. toHost' \in Seq(Events)
    BY <1>0, Popped DEF StreamOK
  <2> QED BY <1>0, <1>1, <2>1 DEF StreamOK, Requests
<1>4. Kept
  BY <1>0, AnswerTaken DEF Kept, Only, Quiet
<1>5. ASSUME NEW K, NEW L, Head(toHost).to \in K, Never(K, L) PROVE NoneOf(L)'
  BY <1>0, <1>5, AnswerTaken
<1>6. /\ Writing' <=> Writing
      /\ Started' <=> Started \/ Acknowledged("started")'
      /\ Confirmed' => pc = "data" /\ Head(toHost).data = BlockData(Current)
  BY <1>0, <1>1, <1>b, <1>c DEF Writing, Started, Confirmed, Acknowledged, At, BlockConfirmed, Current
<1>7. Acknowledged("init")' => Quiet'
  <2> SUFFICES ASSUME Acknowledged("init")' PROVE NoneOf(Answers)'
    BY <1>3, QuietAfter
  <2>1. NoneOf(Answers \ {"ENTER"})' /\ NoneOf({"ENTER"})'
    BY <1>b, <1>c, <1>4, <1>5 DEF IInv, StreamInv, QuietInv, Kept, Only
  <2> QED BY <2>1 DEF NoneOf
<1>8. Acknowledged("programmed")' => Quiet'
  BY <1>b, <1>c, <1>3, <1>5, QuietAfter DEF IInv, StreamInv, ProgramInv, Program
<1>9. Acknowledged("started")' =>
        /\ trycnt = 3 => NoneOf(Start)' /\ Only(Start)'
        /\ trycnt = 2 => Only(Start)'
        /\ NoneOf(Program)'
  <2> SUFFICES ASSUME pc = "started", Head(toHost).to = "START"
               PROVE  /\ trycnt = 3 => NoneOf(Start)' /\ Only(Start)'
                      /\ trycnt = 2 => Only(Start)'
                      /\ NoneOf(Program)'
    BY <1>b, <1>c
  <2>1. trycnt = 3 => NoneOf(Start)' /\ Only(Start)'
    BY <1>4, <1>5, Kinds DEF IInv, StreamInv, FirstTryInv, Kept
  <2>2. trycnt = 2 => Only(Start)'
    BY <1>5, Kinds DEF IInv, StreamInv, SecondTryInv, Only
  <2>3. trycnt = 1 => NoneOf(Program)'
    BY <1>5, Kinds DEF IInv, StreamInv, ThirdTryInv
  <2>4. Only(Start)' => NoneOf(Program)'
    BY Kinds DEF Only, NoneOf
  <2>5. trycnt \in 1 .. 3
    BY DEF IInv, TypeOK, StreamOK
  <2> QED BY <2>1, <2>2, <2>3, <2>4, <2>5
<1>10. trycnt = 2 /\ pc \in {"chunked", "data"} => NoneOf(Start)'
  <2> SUFFICES ASSUME trycnt = 2, pc \in {"chunked", "data"} PROVE NoneOf(Start)'
    OBVIOUS
  <2>1. Never(Others, Start)
    BY DEF IInv, StreamInv, SecondTryInv, Writing
  <2>2. Head(toHost).to \in Others
    BY <1>b, Kinds
  <2> QED BY <1>5, <2>1, <2>2
<1>11. StreamInv'
  <2>1. QuietInv'
    BY <1>0, <1>b, <1>4, <1>7, <1>8 DEF IInv, StreamInv, QuietInv, Kept
  <2>2. FirstTryInv'
    BY <1>0, <1>4, <1>6, <1>9 DEF IInv, StreamInv, FirstTryInv, Kept
  <2>3. SecondTryInv'
    <3>1. trycnt = 2 /\ (Acknowledged("chunked")' \/ Acknowledged("data")') => NoneOf(Start)'
      BY <1>c, <1>10
    <3> QED BY <1>0, <1>b, <1>4, <1>6, <1>9, <3>1 DEF IInv, StreamInv, SecondTryInv, Kept
  <2>4. ThirdTryInv' /\ ProgramInv'
    BY <1>0, <1>4, <1>6, <1>9 DEF IInv, StreamInv, ThirdTryInv, ProgramInv, Kept
  <2> QED BY <2>1, <2>2, <2>3, <2>4 DEF StreamInv
<1>12. RequestInv' /\ AnswerInv' /\ ProgramReady' /\ (Late => Late') /\ (Mixed => Mixed')
  BY <1>0, TakenFrame DEF IInv
<1>13. LateInv'
  <2>1. trycnt = 2 /\ Acknowledged("started")' => at = NoBlock \/ buffer = <<>>
    BY <1>0, <1>b, <1>c, AnswerSays DEF IInv, StreamInv, SecondTryInv
  <2> QED BY <1>0, <1>6, <1>12, <2>1 DEF IInv, LateInv
<1>14. MixedInv'
  <2>1. trycnt = 1 /\ Acknowledged("started")' => Mixed'
    BY <1>0, <1>b, <1>c, LateTaken DEF IInv, LateInv
  <2> QED BY <1>0, <1>6, <1>12, <2>1 DEF IInv, MixedInv
<1>15. Confirmed' => \/ NChunks = 1
                     \/ /\ \A j \in 1 .. Len(toNode) : toNode[j].to # "START"
                        /\ at = NoBlock \/ buffer = BlockData(Current)
  <2> SUFFICES ASSUME pc = "data", Head(toHost).to = "DATA", Head(toHost).data = BlockData(Current), NChunks # 1
               PROVE  /\ \A j \in 1 .. Len(toNode) : toNode[j].to # "START"
                      /\ at = NoBlock \/ buffer = BlockData(Current)
    BY <1>b, <1>6
  <2>1. /\ Len(toHost) \in Nat /\ Len(toHost) >= 1 /\ Len(toHost') = Len(toHost) - 1 /\ Head(toHost) = toHost[1]
        /\ \A i \in 1 .. Len(toHost) - 1 : toHost'[i] = toHost[i + 1]
    BY <1>0, Popped DEF StreamOK
  <2>2. \A j \in 2 .. Len(toHost) : /\ j \in 1 .. Len(toHost) /\ 1 < j
                                    /\ j - 1 \in 1 .. Len(toHost') /\ toHost'[j - 1] = toHost[j]
    <3> SUFFICES ASSUME NEW j \in 2 .. Len(toHost)
                 PROVE  /\ j \in 1 .. Len(toHost) /\ 1 < j
                        /\ j - 1 \in 1 .. Len(toHost') /\ toHost'[j - 1] = toHost[j]
      OBVIOUS
    <3>1. j \in 1 .. Len(toHost) /\ 1 < j /\ j - 1 \in 1 .. Len(toHost) - 1 /\ (j - 1) + 1 = j
      BY <2>1
    <3> QED BY <2>1, <3>1
  <2>3. NoneOf(Start)' => /\ \A j \in 2 .. Len(toHost) : toHost[j].to # "START"
                          /\ \A j \in 1 .. Len(toNode) : toNode[j].to # "START"
    BY <1>0, <2>2, Kinds DEF NoneOf
  <2>4. trycnt = 3 => NoneOf(Start)'
    BY <1>4 DEF IInv, StreamInv, FirstTryInv, Started, Writing, Kept
  <2>5. trycnt = 1 => /\ \A j \in 2 .. Len(toHost) : toHost[j].to # "START"
                      /\ \A j \in 1 .. Len(toNode) : toNode[j].to # "START"
    <3>1. 1 \in 1 .. Len(toHost) /\ toHost[1].to = "DATA"
      BY <2>1
    <3>2. trycnt = 1 => Mixed
      BY DEF IInv, MixedInv, Writing
    <3> QED BY <2>2, <3>1, <3>2 DEF Mixed
  <2>6. trycnt \in 1 .. 3
    BY DEF IInv, TypeOK, StreamOK
  <2>7. /\ \A j \in 2 .. Len(toHost) : toHost[j].to # "START"
        /\ \A j \in 1 .. Len(toNode) : toNode[j].to # "START"
    BY <1>10, <2>3, <2>4, <2>5, <2>6
  <2> QED BY <1>0, <2>7, AnswerSays
<1>16. ReadyInv'
  <2>1. Acknowledged("started")' => Here
    BY <1>0, <1>b, <1>c, AnswerSays
  <2>2. Acknowledged("programmed")' => flash[Current] = BlockData(Current)
    BY <1>0, <1>b, <1>c, AnswerSays DEF IInv, StreamInv, ProgramInv
  <2> QED BY <1>0, <1>1, <1>6, <1>15, <2>1, <2>2 DEF IInv, ReadyInv
<1>17. OnlyImageData' /\ PassedIsProgrammed'
  BY <1>0, FlashFrame DEF IInv
<1> QED BY <1>2, <1>3, <1>11, <1>12, <1>13, <1>14, <1>16, <1>17 DEF IInv

\* checkResponse receives an event.
LEMMA CheckResponseIInv == ASSUME FullLevel2, IInv, CheckResponse PROVE IInv'
BY AnswerDroppedIInv, AnswerAwaitedIInv
-----------------------------------------------------------------------------
(* The node takes a request and answers it.                                  *)

\* The request leaves one end of the stream's middle and its answer enters the other.
LEMMA Replied ==
  ASSUME StreamOK, toNode # <<>>, toNode' = Tail(toNode), NEW a \in Events, a.to = Head(toNode).to,
         NEW d \in Events, d.to = "DATA",
         toHost' = toHost \o <<a>> \/ (Head(toNode).to = "CHUNK" /\ toHost' = toHost \o <<a, d>>)
  PROVE  /\ toNode' \in Seq(Requests) /\ toHost' \in Seq(Events)
         /\ Len(toHost) \in Nat /\ Len(toNode) \in Nat /\ 1 \in 1 .. Len(toNode)
         /\ toNode[1] = Head(toNode) /\ Head(toNode) \in Requests
         /\ \A i \in 1 .. Len(toNode') : i + 1 \in 1 .. Len(toNode) /\ toNode'[i] = toNode[i + 1]
         /\ Len(toHost) + 1 \in 1 .. Len(toHost') /\ toHost'[Len(toHost) + 1] = a
         /\ \A i \in 1 .. Len(toHost) : i \in 1 .. Len(toHost') /\ toHost'[i] = toHost[i]
         /\ \A i \in 1 .. Len(toHost') :
              \/ i \in 1 .. Len(toHost)
              \/ i = Len(toHost) + 1 /\ toHost'[i] = a
              \/ i = Len(toHost) + 2 /\ toHost'[i] = d /\ toHost' = toHost \o <<a, d>> /\ Head(toNode).to = "CHUNK"
         /\ Kept
<1>1. /\ toNode' \in Seq(Requests) /\ Len(toNode) \in Nat /\ 1 \in 1 .. Len(toNode)
      /\ toNode[1] = Head(toNode) /\ Head(toNode) \in Requests
      /\ \A i \in 1 .. Len(toNode') : i + 1 \in 1 .. Len(toNode) /\ toNode'[i] = toNode[i + 1]
  BY Popped DEF StreamOK
<1>2. Only({"ENTER"}) = NoneOf(Answers \ {"ENTER"}) /\ Only(Start) = NoneOf(Answers \ Start)
  BY DEF Only
<1>3. ~Quiet
  BY DEF Quiet
<1>4. CASE toHost' = toHost \o <<a>>
  <2>1. /\ toHost' \in Seq(Events) /\ Len(toHost) \in Nat /\ Len(toHost') = Len(toHost) + 1
        /\ \A i \in 1 .. Len(toHost) : toHost'[i] = toHost[i]
        /\ toHost'[Len(toHost) + 1] = a
    BY <1>4, Appended DEF StreamOK
  <2>2. Kept
    BY <1>3, <1>4, AnsweredOnce DEF Kept, Only
  <2> QED BY <1>1, <2>1, <2>2
<1>5. CASE Head(toNode).to = "CHUNK" /\ toHost' = toHost \o <<a, d>>
  <2>1. /\ toHost' \in Seq(Events) /\ Len(toHost) \in Nat /\ Len(toHost') = Len(toHost) + 2
        /\ \A i \in 1 .. Len(toHost) : toHost'[i] = toHost[i]
        /\ toHost'[Len(toHost) + 1] = a /\ toHost'[Len(toHost) + 2] = d
    BY <1>5, AppendedTwo DEF StreamOK
  <2>2. ASSUME NEW K, NEW L, "DATA" \in K => "CHUNK" \in K, "DATA" \in L => "CHUNK" \in L,
               ~("CHUNK" \in K /\ "DATA" \in L)
        PROVE  (NoneOf(K) => NoneOf(K)') /\ (Never(K, L) => Never(K, L)')
    BY <1>5, <2>2, AnsweredTwice
  <2>3. Kept
    <3>1. (Only({"ENTER"}) => Only({"ENTER"})') /\ (Only(Start) => Only(Start)')
      <4>1. ASSUME NEW K, K = Answers \ {"ENTER"} \/ K = Answers \ Start PROVE NoneOf(K) => NoneOf(K)'
        BY <4>1, <2>2 DEF Answers, Start
      <4> QED BY <4>1 DEF Only
    <3>2. (NoneOf(Start) => NoneOf(Start)') /\ (NoneOf(Program) => NoneOf(Program)')
      BY <2>2 DEF Start, Program
    <3>3. (Never({"ENTER"}, {"ENTER"}) => Never({"ENTER"}, {"ENTER"})') /\ (Never(Start, Start) => Never(Start, Start)')
      BY <2>2 DEF Start
    <3>4. (Never(Start, Others) => Never(Start, Others)') /\ (Never(Others, Start) => Never(Others, Start)')
      BY <2>2 DEF Start, Others, Answers
    <3>5. (Never(Start, Program) => Never(Start, Program)') /\ (Never(Program, Answers) => Never(Program, Answers)')
      BY <2>2 DEF Start, Program, Answers
    <3> QED BY <1>3, <3>1, <3>2, <3>3, <3>4, <3>5 DEF Kept
  <2> QED BY <1>1, <1>5, <2>1, <2>3
<1> QED BY <1>4, <1>5

\* An answer to a request other than the last chunk of a block, by a node that collects no more
\* than before.
LEMMA ReplyFrame ==
  ASSUME StreamOK, toNode # <<>>, toNode' = Tail(toNode), NEW a \in Events, a.to = Head(toNode).to, a.to # "DATA",
         toHost' = toHost \o <<a>>, UNCHANGED <<device, memtype, block>>,
         at = NoBlock \/ buffer = <<>> => at' = NoBlock \/ buffer' = <<>>
  PROVE  (Late => Late') /\ (Mixed => Mixed')
<1> DEFINE d == [a EXCEPT !.to = "DATA"]
<1>1. d \in Events /\ d.to = "DATA"
  BY DEF Events, Answers
<1> HIDE DEF d
<1>2. /\ Len(toHost) \in Nat /\ Len(toNode) \in Nat /\ 1 \in 1 .. Len(toNode) /\ toNode[1].to = a.to
      /\ \A i \in 1 .. Len(toNode') : i + 1 \in 1 .. Len(toNode) /\ toNode'[i] = toNode[i + 1]
      /\ \A i \in 1 .. Len(toHost') : \/ i \in 1 .. Len(toHost) /\ toHost'[i] = toHost[i]
                                      \/ i = Len(toHost) + 1 /\ toHost'[i] = a
  <2>1. toHost' # toHost \o <<a, d>>
    BY <1>1 DEF StreamOK
  <2> QED BY <1>1, <2>1, Replied
<1>3. UNCHANGED NChunks
  BY BlockFrame
<1>4. ASSUME Late PROVE Late'
  <2>1. \A i, j \in 1 .. Len(toHost') : i < j /\ toHost'[i].to = "START" /\ toHost'[j].to = "DATA" => NChunks = 1
    <3> SUFFICES ASSUME NEW i \in 1 .. Len(toHost'), NEW j \in 1 .. Len(toHost'), i < j,
                        toHost'[i].to = "START", toHost'[j].to = "DATA"
                 PROVE  NChunks = 1
      OBVIOUS
    <3>1. j \in 1 .. Len(toHost) /\ toHost'[j] = toHost[j]
      BY <1>2
    <3>2. i \in 1 .. Len(toHost) /\ toHost'[i] = toHost[i]
      BY <1>2, <3>1
    <3> QED BY <1>4, <3>1, <3>2 DEF Late
  <2>2. ASSUME NEW j \in 1 .. Len(toNode'), toNode'[j].to = "CHUNK",
               \/ \E i \in 1 .. Len(toHost') : toHost'[i].to = "START"
               \/ \E i \in 1 .. j - 1 : toNode'[i].to = "START"
        PROVE  /\ at' = NoBlock \/ buffer' = <<>>
               /\ \A k \in 1 .. Len(toNode') : toNode'[k].to = "CHUNK" => k = j
    <3>1. j + 1 \in 1 .. Len(toNode) /\ toNode[j + 1].to = "CHUNK" /\ 1 \in 1 .. (j + 1) - 1
      BY <1>2, <2>2
    <3>2. \/ \E i \in 1 .. Len(toHost) : toHost[i].to = "START"
          \/ \E i \in 1 .. (j + 1) - 1 : toNode[i].to = "START"
      <4>1. ASSUME NEW i \in 1 .. Len(toHost'), toHost'[i].to = "START"
            PROVE  (\E k \in 1 .. Len(toHost) : toHost[k].to = "START") \/ toNode[1].to = "START"
        BY <1>2, <4>1
      <4>2. ASSUME NEW i \in 1 .. j - 1, toNode'[i].to = "START"
            PROVE  i + 1 \in 1 .. (j + 1) - 1 /\ toNode[i + 1].to = "START"
        <5>1. i \in 1 .. Len(toNode') /\ i + 1 \in 1 .. (j + 1) - 1
          BY <1>2
        <5> QED BY <1>2, <4>2, <5>1
      <4> QED BY <2>2, <3>1, <4>1, <4>2
    <3>3. /\ at = NoBlock \/ buffer = <<>>
          /\ \A k \in 1 .. Len(toNode) : toNode[k].to = "CHUNK" => k = j + 1
      BY <1>4, <3>1, <3>2 DEF Late
    <3>4. ASSUME NEW k \in 1 .. Len(toNode'), toNode'[k].to = "CHUNK" PROVE k = j
      <4>1. k + 1 = j + 1
        BY <1>2, <3>3, <3>4
      <4> QED BY <4>1
    <3> QED BY <3>3, <3>4
  <2> QED BY <1>3, <2>1, <2>2 DEF Late
<1>5. ASSUME Mixed PROVE Mixed'
  <2>1. \A i, j \in 1 .. Len(toHost') : i < j /\ toHost'[i].to = "DATA" /\ toHost'[j].to = "START" => NChunks = 1
    <3> SUFFICES ASSUME NEW i \in 1 .. Len(toHost'), NEW j \in 1 .. Len(toHost'), i < j,
                        toHost'[i].to = "DATA", toHost'[j].to = "START"
                 PROVE  NChunks = 1
      OBVIOUS
    <3>1. i \in 1 .. Len(toHost) /\ toHost'[i] = toHost[i]
      BY <1>2
    <3>2. \/ j \in 1 .. Len(toHost) /\ toHost'[j] = toHost[j]
          \/ toNode[1].to = "START"
      BY <1>2
    <3> QED BY <1>2, <1>5, <3>1, <3>2 DEF Mixed
  <2>2. \A i \in 1 .. Len(toHost'), j \in 1 .. Len(toNode') :
          toHost'[i].to = "DATA" /\ toNode'[j].to = "START" => NChunks = 1
    BY <1>2, <1>5 DEF Mixed
  <2>3. ASSUME NEW i \in 1 .. Len(toNode'), NEW j \in 1 .. Len(toNode'), i < j,
               toNode'[i].to = "CHUNK", toNode'[j].to = "START"
        PROVE  /\ at' = NoBlock \/ buffer' = <<>>
               /\ \A k \in 1 .. Len(toNode') : toNode'[k].to = "CHUNK" => k = i \/ k > j
    <3>1. /\ i + 1 \in 1 .. Len(toNode) /\ j + 1 \in 1 .. Len(toNode) /\ i + 1 < j + 1
          /\ toNode[i + 1].to = "CHUNK" /\ toNode[j + 1].to = "START"
      BY <1>2, <2>3
    <3>2. /\ at = NoBlock \/ buffer = <<>>
          /\ \A k \in 1 .. Len(toNode) : toNode[k].to = "CHUNK" => k = i + 1 \/ k > j + 1
      BY <1>5, <3>1 DEF Mixed
    <3>3. ASSUME NEW k \in 1 .. Len(toNode'), toNode'[k].to = "CHUNK" PROVE k = i \/ k > j
      <4>1. k + 1 = i + 1 \/ k + 1 > j + 1
        BY <1>2, <3>2, <3>3
      <4> QED BY <4>1
    <3> QED BY <3>2, <3>3
  <2> QED BY <1>3, <2>1, <2>2, <2>3 DEF Mixed
<1> QED BY <1>4, <1>5

\* The answer to a request, once it is known what it says and what it does to the node.
LEMMA ReplyIInv ==
  ASSUME IInv, toNode # <<>>, toNode' = Tail(toNode), NEW a \in Events, a.to = Head(toNode).to,
         NEW d \in Events, d.to = "DATA",
         toHost' = toHost \o <<a>> \/ (Head(toNode).to = "CHUNK" /\ toHost' = toHost \o <<a, d>>),
         UNCHANGED <<host, await, ex, restarts>>,
         mode' \in {"application", "boot"}, at' \in Blocks \cup {NoBlock}, buffer' \in Seq(Nat),
         Len(buffer') <= NChunks, DOMAIN flash' = Blocks,
         NChunks = 1 /\ at' = Current => buffer' = <<>> \/ buffer' = BlockData(Current),
         \/ UNCHANGED <<at, buffer>>
         \/ at' = NoBlock
         \/ at' = Current /\ Head(toNode).to = "START"
         \/ at' = at /\ at # NoBlock /\ (Current \in Blocks => buffer # BlockData(Current)),
         Head(toNode).to = "CHUNK" \/ (at = NoBlock \/ buffer = <<>> => at' = NoBlock \/ buffer' = <<>>),
         AnswerInv', Late => Late', Mixed => Mixed', OnlyImageData', PassedIsProgrammed'
  PROVE  IInv'
<1>0. StreamOK
  BY DEF IInv
<1>1. /\ UNCHANGED <<Image, BlockSize, NChunks, Current, Blocks, BlockData(Current)>>
      /\ \A x : Passed(x)' <=> Passed(x)
  BY BlockFrame
<1>2. /\ toNode' \in Seq(Requests) /\ toHost' \in Seq(Events)
      /\ Len(toNode) \in Nat /\ 1 \in 1 .. Len(toNode) /\ toNode[1] = Head(toNode)
      /\ \A i \in 1 .. Len(toNode') : i + 1 \in 1 .. Len(toNode) /\ toNode'[i] = toNode[i + 1]
      /\ Kept
  BY <1>0, Replied
<1>3. TypeOK'
  BY <1>1 DEF IInv, TypeOK
<1>4. StreamOK'
  BY <1>0, <1>1, <1>2 DEF StreamOK, Requests
<1>5. StreamInv'
  BY <1>2, StreamFrame DEF IInv
<1>6. RequestInv'
  <2>1. at' = NoBlock \/ at' = Current \/ Passed(at')
    BY DEF IInv, RequestInv
  <2>2. \A i \in 1 .. Len(toNode') :
         /\ toNode'[i].to = "START" => toNode'[i].at = Current
         /\ toNode'[i].to = "CHUNK" => \E k \in 1 .. NChunks : toNode'[i].data = <<BlockData(Current)[k]>>
    <3>1. \A i \in 1 .. Len(toNode) :
           /\ toNode[i].to = "START" => toNode[i].at = Current
           /\ toNode[i].to = "CHUNK" => \E k \in 1 .. NChunks : toNode[i].data = <<BlockData(Current)[k]>>
      BY DEF IInv, RequestInv
    <3> SUFFICES ASSUME NEW i \in 1 .. Len(toNode')
                 PROVE  /\ toNode'[i].to = "START" => toNode'[i].at = Current
                        /\ toNode'[i].to = "CHUNK" => \E k \in 1 .. NChunks : toNode'[i].data = <<BlockData(Current)[k]>>
      OBVIOUS
    <3>2. i + 1 \in 1 .. Len(toNode) /\ toNode'[i] = toNode[i + 1]
      BY <1>2
    <3>3. /\ toNode[i + 1].to = "START" => toNode[i + 1].at = Current
          /\ toNode[i + 1].to = "CHUNK" => \E k \in 1 .. NChunks : toNode[i + 1].data = <<BlockData(Current)[k]>>
      BY <3>1, <3>2
    <3> QED BY <3>2, <3>3
  <2>3. Passed(at)' <=> Passed(at')
    BY DEF Passed
  <2> QED BY <1>1, <2>1, <2>2, <2>3 DEF RequestInv
<1>7. ProgramReady'
  <2> SUFFICES ASSUME NEW i \in 1 .. Len(toNode'), toNode'[i].to = "PROGRAM"
               PROVE  /\ Here'
                      /\ \/ NChunks = 1
                         \/ /\ \A j \in 1 .. i - 1 : toNode'[j].to # "START"
                            /\ at' = NoBlock \/ buffer' = BlockData(Current)
    BY <1>1 DEF ProgramReady
  <2>a. 1 \in 1 .. (i + 1) - 1
    OBVIOUS
  <2>b. i + 1 \in 1 .. Len(toNode) /\ toNode'[i] = toNode[i + 1]
    BY <1>2
  <2>1. i + 1 \in 1 .. Len(toNode) /\ toNode[i + 1].to = "PROGRAM" /\ 1 \in 1 .. (i + 1) - 1
    BY <2>a, <2>b
  <2>2. /\ Here
        /\ \/ NChunks = 1
           \/ /\ \A j \in 1 .. (i + 1) - 1 : toNode[j].to # "START"
              /\ at = NoBlock \/ buffer = BlockData(Current)
    BY <2>1 DEF IInv, ProgramReady
  <2>3. Here'
    BY <1>1, <2>2 DEF Here
  <2>4. \A j \in 1 .. i - 1 : j + 1 \in 1 .. (i + 1) - 1 /\ toNode'[j] = toNode[j + 1]
    <3> SUFFICES ASSUME NEW j \in 1 .. i - 1 PROVE j + 1 \in 1 .. (i + 1) - 1 /\ toNode'[j] = toNode[j + 1]
      OBVIOUS
    <3>1. j \in 1 .. Len(toNode') /\ j + 1 \in 1 .. (i + 1) - 1
      BY <1>2
    <3> QED BY <1>2, <3>1
  <2>5. at # NoBlock => Current \in Blocks
    BY <2>2 DEF IInv, TypeOK, Here
  <2> QED BY <1>2, <2>1, <2>2, <2>3, <2>4, <2>5
<1>8. LateInv' /\ MixedInv'
  <2>1. Only(Start) => Head(toNode).to # "CHUNK"
    BY <1>2, Kinds DEF Only, NoneOf, Answers, Start
  <2>2. trycnt = 2 /\ (Acknowledged("started") \/ (pc = "chunk" /\ chunk = 0)) => Only(Start)
    BY DEF IInv, StreamInv, SecondTryInv
  <2>3. trycnt = 2 /\ (Acknowledged("started") \/ (pc = "chunk" /\ chunk = 0)) => at' = NoBlock \/ buffer' = <<>>
    BY <2>1, <2>2 DEF IInv, LateInv
  <2> QED BY <2>3, HostPlace DEF IInv, LateInv, MixedInv
<1>9. ReadyInv'
  <2>1. Started => Here'
    BY <1>1 DEF IInv, ReadyInv, Here
  <2>2. ~Acknowledged("programmed")
    BY DEF IInv, StreamInv, QuietInv, Quiet
  <2>3. Confirmed => \/ NChunks = 1
                     \/ /\ \A j \in 1 .. Len(toNode') : toNode'[j].to # "START"
                        /\ at' = NoBlock \/ buffer' = BlockData(Current)
    <3>1. Confirmed => Current \in Blocks
      BY <1>0 DEF StreamOK, Confirmed, Acknowledged, At
    <3> QED BY <1>2, <3>1 DEF IInv, ReadyInv
  <2> QED BY <1>1, <2>1, <2>2, <2>3, HostPlace DEF ReadyInv
<1> QED BY <1>3, <1>4, <1>5, <1>6, <1>7, <1>8, <1>9 DEF IInv

\* The node refuses a request.
LEMMA NodeRefusesIInv == ASSUME IInv, NodeRefuses PROVE IInv'
<1>0. StreamOK /\ BlockSize \in Nat
  BY BlockChunks DEF IInv, StreamOK
<1>1. PICK r \in {"ENTER", "START", "CHUNK", "PROGRAM"}, size \in {0, BlockSize} :
        Requested(r) /\ Reply(<<Answer(r, FALSE, 0, <<size>>)>>)
  BY DEF NodeRefuses
<1> DEFINE a == Answer(r, FALSE, 0, <<size>>)
           d == Answer("DATA", FALSE, 0, <<>>)
<1>2. a \in Events /\ d \in Events /\ d.to = "DATA" /\ a.to = r /\ a.ack = FALSE /\ a.to # "DATA"
  BY <1>0 DEF Answer, Events, Answers
<1>3. /\ toNode # <<>> /\ a.to = Head(toNode).to /\ toNode' = Tail(toNode) /\ toHost' = toHost \o <<a>>
      /\ UNCHANGED <<host, await, ex, restarts, mode, at, buffer, flash>>
  BY <1>1, <1>2 DEF Requested, Reply, NodeRefuses
<1> HIDE DEF a, d
<1>4. UNCHANGED <<NChunks, Current, BlockData(Current)>> /\ (Here' <=> Here)
  BY <1>3, BlockFrame DEF Here
<1>5. AnswerInv'
  <2>1. /\ Len(toHost) \in Nat /\ Len(toHost') = Len(toHost) + 1
        /\ \A i \in 1 .. Len(toHost) : toHost'[i] = toHost[i]
        /\ toHost'[Len(toHost) + 1] = a
    BY <1>0, <1>2, <1>3, Appended DEF StreamOK
  <2> SUFFICES ASSUME NEW i \in 1 .. Len(toHost')
               PROVE  /\ toHost'[i].to = "START" /\ toHost'[i].ack =>
                           /\ Here
                           /\ (\A j \in i + 1 .. Len(toHost') : toHost'[j].to # "CHUNK") => at = NoBlock \/ buffer = <<>>
                      /\ toHost'[i].to = "DATA" /\ (\A j \in i + 1 .. Len(toHost') : toHost'[j].to # "START") =>
                           at = NoBlock \/ (Len(buffer) = NChunks /\ buffer = toHost'[i].data)
                      /\ toHost'[i].to = "PROGRAM" /\ toHost'[i].ack
                         /\ (\A j \in i + 1 .. Len(toHost') : toHost'[j].to # "PROGRAM") =>
                           flash[Current] = BlockData(Current)
    BY <1>3, <1>4 DEF AnswerInv
  <2>2. CASE i = Len(toHost) + 1
    BY <1>2, <2>1, <2>2
  <2>3. CASE i \in 1 .. Len(toHost)
    <3>1. \A j \in i + 1 .. Len(toHost) : j \in i + 1 .. Len(toHost') /\ toHost'[j] = toHost[j]
      BY <2>1, <2>3
    <3> QED BY <2>1, <2>3, <3>1 DEF IInv, AnswerInv
  <2> QED BY <2>1, <2>2, <2>3
<1>6. OnlyImageData' /\ PassedIsProgrammed'
  BY <1>3, FlashFrame DEF IInv
<1>7. (Late => Late') /\ (Mixed => Mixed')
  BY <1>0, <1>2, <1>3, ReplyFrame
<1> QED BY <1>2, <1>3, <1>5, <1>6, <1>7, ReplyIInv DEF IInv, TypeOK, StreamOK, RequestInv

\* The node enters boot mode.
LEMMA NodeEntersIInv == ASSUME IInv, NodeEnters PROVE IInv'
<1>0. StreamOK /\ BlockSize \in Nat /\ NChunks \in Nat
  BY BlockChunks DEF IInv, StreamOK
<1> DEFINE a == Answer("ENTER", TRUE, 0, <<BlockSize>>)
           d == Answer("DATA", FALSE, 0, <<>>)
<1>2. a \in Events /\ d \in Events /\ d.to = "DATA" /\ a.to = "ENTER"
  BY <1>0 DEF Answer, Events, Answers
<1>3. /\ toNode # <<>> /\ a.to = Head(toNode).to /\ toNode' = Tail(toNode) /\ toHost' = toHost \o <<a>>
      /\ UNCHANGED <<host, await, ex, restarts, flash>> /\ at' = NoBlock /\ buffer' = <<>> /\ mode' = "boot"
  BY <1>2 DEF Requested, Reply, NodeEnters
<1> HIDE DEF a, d
<1>4. UNCHANGED <<NChunks, Current, BlockData(Current)>> /\ Here'
  BY <1>3, BlockFrame DEF Here
<1>5. AnswerInv'
  <2>1. /\ Len(toHost) \in Nat /\ Len(toHost') = Len(toHost) + 1
        /\ \A i \in 1 .. Len(toHost) : toHost'[i] = toHost[i]
        /\ toHost'[Len(toHost) + 1] = a
    BY <1>0, <1>2, <1>3, Appended DEF StreamOK
  <2> SUFFICES ASSUME NEW i \in 1 .. Len(toHost'), toHost'[i].to = "PROGRAM", toHost'[i].ack,
                      \A j \in i + 1 .. Len(toHost') : toHost'[j].to # "PROGRAM"
               PROVE  flash[Current] = BlockData(Current)
    BY <1>3, <1>4 DEF AnswerInv
  <2>2. i \in 1 .. Len(toHost)
    BY <1>2, <2>1
  <2>3. \A j \in i + 1 .. Len(toHost) : j \in i + 1 .. Len(toHost') /\ toHost'[j] = toHost[j]
    BY <2>1, <2>2
  <2> QED BY <2>1, <2>2, <2>3 DEF IInv, AnswerInv
<1>6. OnlyImageData' /\ PassedIsProgrammed'
  BY <1>3, FlashFrame DEF IInv
<1>7. (Late => Late') /\ (Mixed => Mixed')
  BY <1>0, <1>2, <1>3, ReplyFrame
<1>8. /\ DOMAIN flash' = Blocks /\ mode' \in {"application", "boot"}
      /\ at' \in Blocks \cup {NoBlock} /\ buffer' \in Seq(Nat) /\ Len(buffer') <= NChunks
  BY <1>0, <1>3 DEF IInv, TypeOK
<1> QED BY <1>2, <1>3, <1>5, <1>6, <1>7, <1>8, ReplyIInv

\* The node starts a block: it is the one the host loads, because between two blocks nothing
\* was on its way.
LEMMA NodeStartsIInv == ASSUME IInv, NodeStarts PROVE IInv'
<1>0. StreamOK /\ NChunks \in Nat
  BY BlockChunks DEF IInv, StreamOK
<1> DEFINE a == Answer("START", TRUE, 0, <<>>)
           d == Answer("DATA", FALSE, 0, <<>>)
<1>2. a \in Events /\ d \in Events /\ d.to = "DATA" /\ a.to = "START"
  BY DEF Answer, Events, Answers
<1>3. /\ toNode # <<>> /\ a.to = Head(toNode).to /\ toNode' = Tail(toNode) /\ toHost' = toHost \o <<a>>
      /\ UNCHANGED <<host, await, ex, restarts, flash, mode>> /\ at' = Head(toNode).at /\ buffer' = <<>>
  BY <1>2 DEF Requested, Reply, NodeStarts
<1> HIDE DEF a, d
<1>a. at' = Current /\ at' \in Blocks \cup {NoBlock}
  <2>1. 1 \in 1 .. Len(toNode) /\ Head(toNode) = toNode[1] /\ Head(toNode) \in Requests
    BY <1>0, <1>3, Popped DEF StreamOK
  <2> QED BY <1>2, <1>3, <2>1 DEF IInv, RequestInv, Requests
<1>4. UNCHANGED <<NChunks, Current, BlockData(Current)>> /\ Here'
  BY <1>3, <1>a, BlockFrame DEF Here
<1>5. AnswerInv'
  <2>1. /\ Len(toHost) \in Nat /\ Len(toHost') = Len(toHost) + 1
        /\ \A i \in 1 .. Len(toHost) : toHost'[i] = toHost[i]
        /\ toHost'[Len(toHost) + 1] = a
    BY <1>0, <1>2, <1>3, Appended DEF StreamOK
  <2>2. ASSUME NEW i \in 1 .. Len(toHost'), toHost'[i].to = "PROGRAM", toHost'[i].ack,
               \A j \in i + 1 .. Len(toHost') : toHost'[j].to # "PROGRAM"
        PROVE  flash[Current] = BlockData(Current)
    <3>2. i \in 1 .. Len(toHost)
      BY <1>2, <2>1, <2>2
    <3>3. \A j \in i + 1 .. Len(toHost) : j \in i + 1 .. Len(toHost') /\ toHost'[j] = toHost[j]
      BY <2>1, <3>2
    <3> QED BY <2>1, <2>2, <3>2, <3>3 DEF IInv, AnswerInv
  <2>3. ASSUME NEW i \in 1 .. Len(toHost'), toHost'[i].to = "DATA",
               \A j \in i + 1 .. Len(toHost') : toHost'[j].to # "START"
        PROVE  FALSE
    <3>1. i \in 1 .. Len(toHost)
      BY <1>2, <2>1, <2>3
    <3>2. Len(toHost) + 1 \in i + 1 .. Len(toHost')
      BY <2>1, <3>1
    <3> QED BY <1>2, <2>1, <2>3, <3>2
  <2> QED BY <1>3, <1>4, <2>2, <2>3 DEF AnswerInv
<1>6. OnlyImageData' /\ PassedIsProgrammed'
  BY <1>3, FlashFrame DEF IInv
<1>7. (Late => Late') /\ (Mixed => Mixed')
  BY <1>0, <1>2, <1>3, ReplyFrame
<1>8. /\ DOMAIN flash' = Blocks /\ mode' \in {"application", "boot"}
      /\ buffer' \in Seq(Nat) /\ Len(buffer') <= NChunks
  BY <1>0, <1>3 DEF IInv, TypeOK
<1>9. Head(toNode).to = "START" /\ buffer' = <<>>
  BY <1>2, <1>3
<1> QED BY <1>2, <1>3, <1>a, <1>5, <1>6, <1>7, <1>8, <1>9, ReplyIInv

\* A chunk whose START_BLOCK is still answered late is alone, and the first of the node's buffer:
\* it completes the block only if it is the whole block.
LEMMA CollectFrame ==
  ASSUME StreamOK, toNode # <<>>, toNode' = Tail(toNode), Head(toNode).to = "CHUNK", at # NoBlock,
         NEW a \in Events, a.to = "CHUNK", NEW d \in Events, d.to = "DATA",
         toHost' = toHost \o <<a>> \/ (toHost' = toHost \o <<a, d>> /\ (buffer = <<>> => NChunks = 1)),
         UNCHANGED <<device, memtype, block>>
  PROVE  (Late => Late') /\ (Mixed => Mixed')
<1>2. /\ Len(toHost) \in Nat /\ Len(toNode) \in Nat /\ 1 \in 1 .. Len(toNode) /\ toNode[1].to = "CHUNK"
      /\ \A i \in 1 .. Len(toNode') : i + 1 \in 1 .. Len(toNode) /\ toNode'[i] = toNode[i + 1]
      /\ \A i \in 1 .. Len(toHost) : toHost'[i] = toHost[i]
      /\ \A i \in 1 .. Len(toHost') :
           \/ i \in 1 .. Len(toHost)
           \/ i = Len(toHost) + 1 /\ toHost'[i] = a
           \/ i = Len(toHost) + 2 /\ toHost'[i] = d /\ toHost' = toHost \o <<a, d>>
  <2>1. a.to = Head(toNode).to /\ (toHost' = toHost \o <<a>> \/ (Head(toNode).to = "CHUNK" /\ toHost' = toHost \o <<a, d>>))
    OBVIOUS
  <2> QED BY <2>1, Replied, ZenonT(30)
<1>a. ASSUME toHost' = toHost \o <<a, d>>, buffer = <<>> PROVE NChunks = 1
  <2>1. toHost' # toHost \o <<a>>
    BY <1>a DEF StreamOK
  <2> QED BY <1>a, <2>1
<1>3. UNCHANGED NChunks
  BY BlockFrame
<1>4. ASSUME Late PROVE Late'
  <2>0. ASSUME NEW i \in 1 .. Len(toHost), toHost[i].to = "START"
        PROVE  buffer = <<>> /\ \A k \in 1 .. Len(toNode) : toNode[k].to = "CHUNK" => k = 1
    BY <1>2, <1>4, <2>0 DEF Late
  <2>1. \A i, j \in 1 .. Len(toHost') : i < j /\ toHost'[i].to = "START" /\ toHost'[j].to = "DATA" => NChunks = 1
    <3> SUFFICES ASSUME NEW i \in 1 .. Len(toHost'), NEW j \in 1 .. Len(toHost'), i < j,
                        toHost'[i].to = "START", toHost'[j].to = "DATA"
                 PROVE  NChunks = 1
      OBVIOUS
    <3>1. i \in 1 .. Len(toHost) /\ toHost[i].to = "START"
      BY <1>2
    <3>2. CASE j \in 1 .. Len(toHost)
      BY <1>2, <1>4, <3>1, <3>2 DEF Late
    <3>3. CASE toHost' = toHost \o <<a, d>>
      BY <1>a, <2>0, <3>1, <3>3
    <3> QED BY <1>2, <3>2, <3>3
  <2>2. ASSUME NEW j \in 1 .. Len(toNode'), toNode'[j].to = "CHUNK",
               \/ \E i \in 1 .. Len(toHost') : toHost'[i].to = "START"
               \/ \E i \in 1 .. j - 1 : toNode'[i].to = "START"
        PROVE  FALSE
    <3>1. j + 1 \in 1 .. Len(toNode) /\ toNode[j + 1].to = "CHUNK" /\ j + 1 # 1
      BY <1>2, <2>2
    <3>2. ASSUME NEW i \in 1 .. Len(toHost'), toHost'[i].to = "START" PROVE FALSE
      <4>1. i \in 1 .. Len(toHost) /\ toHost[i].to = "START"
        BY <1>2, <3>2
      <4> QED BY <2>0, <3>1, <4>1
    <3>3. ASSUME NEW i \in 1 .. j - 1, toNode'[i].to = "START" PROVE FALSE
      <4>1. i \in 1 .. Len(toNode') /\ i + 1 \in 1 .. (j + 1) - 1
        BY <1>2
      <4>2. toNode[i + 1].to = "START"
        BY <1>2, <3>3, <4>1
      <4>3. \A k \in 1 .. Len(toNode) : toNode[k].to = "CHUNK" => k = j + 1
        BY <1>4, <3>1, <4>1, <4>2 DEF Late
      <4> QED BY <1>2, <3>1, <4>3
    <3> QED BY <2>2, <3>2, <3>3
  <2> QED BY <1>3, <2>1, <2>2 DEF Late
<1>5. ASSUME Mixed PROVE Mixed'
  <2>0. ASSUME NEW j \in 2 .. Len(toNode), toNode[j].to = "START"
        PROVE  buffer = <<>> /\ \A k \in 1 .. Len(toNode) : toNode[k].to = "CHUNK" => k = 1 \/ k > j
    <3>1. j \in 1 .. Len(toNode) /\ 1 < j
      BY <1>2
    <3> QED BY <1>2, <1>5, <2>0, <3>1 DEF Mixed
  <2>a. \A j \in 1 .. Len(toNode') : j + 1 \in 2 .. Len(toNode) /\ toNode'[j] = toNode[j + 1]
    BY <1>2
  <2>1. \A i, j \in 1 .. Len(toHost') : i < j /\ toHost'[i].to = "DATA" /\ toHost'[j].to = "START" => NChunks = 1
    <3> SUFFICES ASSUME NEW i \in 1 .. Len(toHost'), NEW j \in 1 .. Len(toHost'), i < j,
                        toHost'[i].to = "DATA", toHost'[j].to = "START"
                 PROVE  NChunks = 1
      OBVIOUS
    <3>1. j \in 1 .. Len(toHost)
      BY <1>2
    <3>2. i \in 1 .. Len(toHost)
      BY <1>2, <3>1
    <3> QED BY <1>2, <1>5, <3>1, <3>2 DEF Mixed
  <2>2. ASSUME NEW i \in 1 .. Len(toHost'), NEW j \in 1 .. Len(toNode'),
               toHost'[i].to = "DATA", toNode'[j].to = "START"
        PROVE  NChunks = 1
    <3>1. CASE i \in 1 .. Len(toHost)
      BY <1>2, <1>5, <2>2, <3>1 DEF Mixed
    <3>2. CASE toHost' = toHost \o <<a, d>>
      BY <1>a, <2>0, <2>a, <2>2, <3>2
    <3> QED BY <1>2, <2>2, <3>1, <3>2
  <2>3. ASSUME NEW i \in 1 .. Len(toNode'), NEW j \in 1 .. Len(toNode'), i < j,
               toNode'[i].to = "CHUNK", toNode'[j].to = "START"
        PROVE  FALSE
    <3>1. /\ i + 1 \in 1 .. Len(toNode) /\ j + 1 \in 1 .. Len(toNode) /\ i + 1 < j + 1 /\ 1 < i + 1
          /\ toNode[i + 1].to = "CHUNK" /\ toNode[j + 1].to = "START"
      BY <1>2, <2>3
    <3>2. \A k \in 1 .. Len(toNode) : toNode[k].to = "CHUNK" => k = i + 1 \/ k > j + 1
      BY <1>5, <3>1 DEF Mixed
    <3>3. 1 = i + 1 \/ 1 > j + 1
      BY <1>2, <3>2
    <3> QED BY <3>1, <3>3
  <2> QED BY <1>3, <2>1, <2>2, <2>3 DEF Mixed
<1> QED BY <1>4, <1>5

\* The node collects a chunk.
LEMMA NodeCollectsIInv == ASSUME IInv, NodeCollects PROVE IInv'
<1>0. StreamOK /\ NChunks \in Nat /\ buffer \in Seq(Nat) /\ at \in Blocks
  BY BlockChunks DEF IInv, StreamOK, TypeOK, NodeCollects
<1>1. PICK good \in BOOLEAN :
        Reply(IF Len(buffer') = NChunks
                THEN <<Answer("CHUNK", TRUE, 0, <<>>), Answer("DATA", good, at[2], buffer')>>
                ELSE <<Answer("CHUNK", TRUE, 0, <<>>)>>)
  BY DEF NodeCollects
<1> DEFINE a == Answer("CHUNK", TRUE, 0, <<>>)
           d == Answer("DATA", good, at[2], buffer')
<1>2. /\ toNode # <<>> /\ Head(toNode).to = "CHUNK" /\ toNode' = Tail(toNode) /\ at # NoBlock
      /\ Len(buffer) < NChunks /\ buffer' = buffer \o Head(toNode).data
      /\ toHost' = toHost \o (IF Len(buffer') = NChunks THEN <<a, d>> ELSE <<a>>)
      /\ UNCHANGED <<host, await, ex, restarts, mode, at, flash>>
  BY <1>1 DEF Requested, Reply, NodeCollects
<1>3. 1 \in 1 .. Len(toNode) /\ Head(toNode) = toNode[1] /\ Head(toNode) \in Requests /\ Len(toHost) \in Nat
  BY <1>0, <1>2, Popped DEF StreamOK
<1>4. PICK k \in 1 .. NChunks : Head(toNode).data = <<BlockData(Current)[k]>>
  BY <1>2, <1>3 DEF IInv, RequestInv
<1> DEFINE c == BlockData(Current)[k]
<1>5. Head(toNode).data = <<c>> /\ Head(toNode).data \in Seq(Nat)
  BY <1>3, <1>4 DEF Requests
<1>6. c \in Nat
  <2> HIDE DEF c
  <2> QED BY <1>5, TheElement
<1>7. /\ buffer' \in Seq(Nat) /\ Len(buffer') = Len(buffer) + 1 /\ Len(buffer) \in Nat /\ Len(buffer') <= NChunks
      /\ buffer' = buffer \o <<c>>
  <2>1. buffer' = buffer \o <<c>>
    BY <1>2, <1>5
  <2> HIDE DEF c
  <2>2. buffer' \in Seq(Nat) /\ Len(buffer') = Len(buffer) + 1 /\ Len(buffer) \in Nat
    BY <1>0, <1>6, <2>1, Appended
  <2> QED BY <1>0, <1>2, <2>1, <2>2
<1>8. a \in Events /\ a.to = "CHUNK" /\ d \in Events /\ d.to = "DATA" /\ d.data = buffer'
  <2>1. at[2] \in Nat
    BY <1>0, AtParts
  <2> QED BY <1>7, <2>1 DEF Answer, Events, Answers
<1> HIDE DEF a, d
<1>9. UNCHANGED <<NChunks, Current, BlockData(Current)>> /\ (Here' <=> Here)
  BY <1>2, BlockFrame DEF Here
<1>10. toHost' = toHost \o <<a>> \/ (toHost' = toHost \o <<a, d>> /\ Len(buffer') = NChunks)
  BY <1>2
<1>11. (Late => Late') /\ (Mixed => Mixed')
  <2>1. Len(buffer') = NChunks /\ buffer = <<>> => NChunks = 1
    BY <1>7
  <2> QED BY <1>0, <1>2, <1>8, <1>10, <2>1, CollectFrame
<1>12. NChunks = 1 /\ at' = Current => buffer' = BlockData(Current)
  <2> SUFFICES ASSUME NChunks = 1, at = Current PROVE buffer' = BlockData(Current)
    BY <1>2
  <2>1. BlockData(Current) \in Seq(Nat) /\ Len(BlockData(Current)) = 1
    BY <1>0, BlockChunks DEF StreamOK
  <2>2. buffer = <<>> /\ k = 1
    BY <1>0, <1>2
  <2>3. BlockData(Current) = <<c>>
    BY <2>1, <2>2
  <2> QED BY <1>7, <2>2, <2>3
<1>13. buffer # BlockData(Current) \/ Current \notin Blocks
  BY <1>0, <1>2, BlockChunks DEF StreamOK
<1>14. AnswerInv'
  <2>1. /\ \A i \in 1 .. Len(toHost) : i \in 1 .. Len(toHost') /\ toHost'[i] = toHost[i]
        /\ Len(toHost) + 1 \in 1 .. Len(toHost') /\ toHost'[Len(toHost) + 1] = a
        /\ \A i \in 1 .. Len(toHost') :
             \/ i \in 1 .. Len(toHost)
             \/ i = Len(toHost) + 1 /\ toHost'[i] = a
             \/ i = Len(toHost) + 2 /\ toHost'[i] = d /\ toHost' = toHost \o <<a, d>>
    BY <1>0, <1>2, <1>8, <1>10, Replied, ZenonT(30)
  <2>a. toHost' = toHost \o <<a, d>> => Len(buffer') = NChunks
    <3>1. toHost' = toHost \o <<a, d>> => toHost' # toHost \o <<a>>
      BY <1>0, <1>8 DEF StreamOK
    <3> QED BY <1>10, <3>1
  <2> SUFFICES ASSUME NEW i \in 1 .. Len(toHost')
               PROVE  /\ toHost'[i].to = "START" /\ toHost'[i].ack =>
                           /\ Here
                           /\ (\A j \in i + 1 .. Len(toHost') : toHost'[j].to # "CHUNK") => at = NoBlock \/ buffer' = <<>>
                      /\ toHost'[i].to = "DATA" /\ (\A j \in i + 1 .. Len(toHost') : toHost'[j].to # "START") =>
                           at = NoBlock \/ (Len(buffer') = NChunks /\ buffer' = toHost'[i].data)
                      /\ toHost'[i].to = "PROGRAM" /\ toHost'[i].ack
                         /\ (\A j \in i + 1 .. Len(toHost') : toHost'[j].to # "PROGRAM") =>
                           flash[Current] = BlockData(Current)
    BY <1>2, <1>9 DEF AnswerInv
  <2>2. CASE i \in 1 .. Len(toHost)
    <3>1. /\ \A j \in i + 1 .. Len(toHost) : j \in i + 1 .. Len(toHost') /\ toHost'[j] = toHost[j]
          /\ Len(toHost) + 1 \in i + 1 .. Len(toHost')
      BY <1>3, <2>1, <2>2
    <3>2. toHost'[i] = toHost[i]
      BY <2>1, <2>2
    <3>3. ~\A j \in i + 1 .. Len(toHost') : toHost'[j].to # "CHUNK"
      BY <1>8, <2>1, <3>1
    <3>4. toHost[i].to = "START" /\ toHost[i].ack => Here
      BY <2>2 DEF IInv, AnswerInv
    <3>5. toHost[i].to = "DATA" => ~\A j \in i + 1 .. Len(toHost) : toHost[j].to # "START"
      <4>1. toHost[i].to = "DATA" /\ (\A j \in i + 1 .. Len(toHost) : toHost[j].to # "START") =>
              at = NoBlock \/ Len(buffer) = NChunks
        BY <2>2 DEF IInv, AnswerInv
      <4> QED BY <1>0, <1>2, <1>7, <4>1
    <3>6. toHost[i].to = "PROGRAM" /\ toHost[i].ack /\ (\A j \in i + 1 .. Len(toHost) : toHost[j].to # "PROGRAM") =>
            flash[Current] = BlockData(Current)
      BY <2>2 DEF IInv, AnswerInv
    <3>7. (\A j \in i + 1 .. Len(toHost') : toHost'[j].to # "PROGRAM") =>
            \A j \in i + 1 .. Len(toHost) : toHost[j].to # "PROGRAM"
      BY <3>1
    <3>8. (\A j \in i + 1 .. Len(toHost') : toHost'[j].to # "START") =>
            \A j \in i + 1 .. Len(toHost) : toHost[j].to # "START"
      BY <3>1
    <3> QED BY <3>2, <3>3, <3>4, <3>5, <3>6, <3>7, <3>8
  <2>3. CASE toHost'[i] = a
    BY <1>8, <2>3
  <2>4. CASE toHost'[i] = d /\ toHost' = toHost \o <<a, d>>
    BY <1>8, <2>4, <2>a
  <2> QED BY <2>1, <2>2, <2>3, <2>4
<1>15. OnlyImageData' /\ PassedIsProgrammed'
  BY <1>2, FlashFrame DEF IInv
<1>16. DOMAIN flash' = Blocks /\ mode' \in {"application", "boot"} /\ at' \in Blocks \cup {NoBlock}
  BY <1>0, <1>2 DEF IInv, TypeOK
<1> HIDE DEF c
<1>17. \/ at' = NoBlock
       \/ at' = at /\ at # NoBlock /\ (Current \in Blocks => buffer # BlockData(Current))
  BY <1>2, <1>13
<1> QED BY <1>2, <1>7, <1>8, <1>10, <1>11, <1>12, <1>14, <1>15, <1>16, <1>17, ReplyIInv

\* The node programs the block it has collected: it is the one the host loads, and it is whole,
\* because the host only asks for it after the node has confirmed it.
LEMMA NodeProgramsIInv == ASSUME IInv, NodePrograms PROVE IInv'
<1>0. StreamOK /\ NChunks \in Nat /\ buffer \in Seq(Nat)
  BY BlockChunks DEF IInv, StreamOK
<1>1. PICK good \in BOOLEAN :
        /\ Reply(<<Answer("PROGRAM", good, 0, <<>>)>>)
        /\ flash' = [flash EXCEPT ![at] = IF good THEN buffer ELSE <<>>]
  BY DEF NodePrograms
<1> DEFINE a == Answer("PROGRAM", good, 0, <<>>)
           d == Answer("DATA", FALSE, 0, <<>>)
<1>2. a \in Events /\ d \in Events /\ d.to = "DATA" /\ a.to = "PROGRAM" /\ a.ack = good
  BY DEF Answer, Events, Answers
<1>3. /\ toNode # <<>> /\ a.to = Head(toNode).to /\ toNode' = Tail(toNode) /\ toHost' = toHost \o <<a>>
      /\ UNCHANGED <<host, await, ex, restarts, mode, at, buffer>> /\ at # NoBlock /\ Len(buffer) = NChunks
  BY <1>1, <1>2 DEF Requested, Reply, NodePrograms
<1> HIDE DEF a, d
<1>4. UNCHANGED <<NChunks, Current, BlockData(Current)>> /\ (Here' <=> Here)
  BY <1>3, BlockFrame DEF Here
<1>5. 1 \in 1 .. Len(toNode) /\ Head(toNode) = toNode[1]
  BY <1>0, <1>3, Popped DEF StreamOK
<1>6. /\ Here
      /\ NChunks = 1 \/ at = NoBlock \/ buffer = BlockData(Current)
  BY <1>2, <1>3, <1>5 DEF IInv, ProgramReady
<1>7. at = Current /\ Current \in Blocks
  BY <1>3, <1>6 DEF Here, IInv, TypeOK
<1>8. buffer = BlockData(Current)
  <2>1. NChunks = 1 => buffer = <<>> \/ buffer = BlockData(Current)
    BY <1>7 DEF IInv, RequestInv
  <2>2. NChunks = 1 => buffer # <<>>
    <3>1. buffer = <<>> => Len(buffer) = 0
      OBVIOUS
    <3> QED BY <1>3, <3>1
  <2> QED BY <1>3, <1>6, <2>1, <2>2
<1>9. /\ DOMAIN flash' = Blocks /\ DOMAIN flash = Blocks
      /\ flash'[Current] = IF good THEN BlockData(Current) ELSE <<>>
      /\ \A x \in Blocks : x # Current => flash'[x] = flash[x]
  <2>1. DOMAIN flash = Blocks
    BY DEF IInv, TypeOK
  <2> QED BY <1>1, <1>7, <1>8, <2>1
<1>10. AnswerInv'
  <2>1. /\ Len(toHost) \in Nat /\ Len(toHost') = Len(toHost) + 1
        /\ \A i \in 1 .. Len(toHost) : toHost'[i] = toHost[i]
        /\ toHost'[Len(toHost) + 1] = a
    BY <1>0, <1>2, <1>3, Appended DEF StreamOK
  <2> SUFFICES ASSUME NEW i \in 1 .. Len(toHost')
               PROVE  /\ toHost'[i].to = "START" /\ toHost'[i].ack =>
                           /\ Here
                           /\ (\A j \in i + 1 .. Len(toHost') : toHost'[j].to # "CHUNK") => at = NoBlock \/ buffer = <<>>
                      /\ toHost'[i].to = "DATA" /\ (\A j \in i + 1 .. Len(toHost') : toHost'[j].to # "START") =>
                           at = NoBlock \/ (Len(buffer) = NChunks /\ buffer = toHost'[i].data)
                      /\ toHost'[i].to = "PROGRAM" /\ toHost'[i].ack
                         /\ (\A j \in i + 1 .. Len(toHost') : toHost'[j].to # "PROGRAM") =>
                           flash'[Current] = BlockData(Current)
    BY <1>3, <1>4 DEF AnswerInv
  <2>2. CASE i = Len(toHost) + 1
    BY <1>2, <1>9, <2>1, <2>2
  <2>3. CASE i \in 1 .. Len(toHost)
    <3>1. /\ \A j \in i + 1 .. Len(toHost) : j \in i + 1 .. Len(toHost') /\ toHost'[j] = toHost[j]
          /\ Len(toHost) + 1 \in i + 1 .. Len(toHost')
      BY <2>1, <2>3
    <3>2. ~\A j \in i + 1 .. Len(toHost') : toHost'[j].to # "PROGRAM"
      BY <1>2, <2>1, <3>1
    <3> QED BY <2>1, <2>3, <3>1, <3>2 DEF IInv, AnswerInv
  <2> QED BY <2>1, <2>2, <2>3
<1>11. OnlyImageData' /\ PassedIsProgrammed'
  <2>1. /\ UNCHANGED Blocks
        /\ \A x : (BlockData(x)' = BlockData(x)) /\ (Passed(x)' <=> Passed(x)) /\ (Ahead(x)' <=> Ahead(x))
    BY <1>3, BlockFrame
  <2>2. ~Ahead(Current) /\ ~Passed(Current)
    BY AtParts DEF Ahead, Passed, Current
  <2>3. OnlyImageData'
    BY <1>9, <2>1, <2>2 DEF IInv, OnlyImageData
  <2>4. PassedIsProgrammed'
    BY <1>9, <2>1, <2>2 DEF IInv, PassedIsProgrammed
  <2> QED BY <2>3, <2>4
<1>12. (Late => Late') /\ (Mixed => Mixed')
  BY <1>0, <1>2, <1>3, ReplyFrame
<1>13. /\ mode' \in {"application", "boot"} /\ at' \in Blocks \cup {NoBlock} /\ buffer' \in Seq(Nat)
       /\ Len(buffer') <= NChunks
  BY <1>0, <1>3, <1>7 DEF IInv, TypeOK
<1>14. NChunks = 1 /\ at' = Current => buffer' = <<>> \/ buffer' = BlockData(Current)
  BY <1>3, <1>8
<1> QED BY <1>2, <1>3, <1>9, <1>10, <1>11, <1>12, <1>13, <1>14, ReplyIInv
-----------------------------------------------------------------------------
(* The invariant and what it shows.                                          *)

\* The invariant holds before the load.
LEMMA InitIInv == Init => IInv
<1> SUFFICES ASSUME Init PROVE IInv
  OBVIOUS
<1> USE DEF Init
<1>1. /\ device \in Loads /\ Image \in Seq(Seq(Seq(Nat))) /\ Len(Image) \in Nat /\ NChunks \in Nat
      /\ NoBlock \notin Blocks
  BY BlockChunks
<1>2. TypeOK
  BY <1>1 DEF TypeOK
<1>3. StreamOK
  BY <1>1 DEF StreamOK
<1>4. Quiet /\ \A K, L : NoneOf(K) /\ Never(K, L)
  BY DEF Quiet, NoneOf, Never
<1>5. ~Started /\ ~Confirmed /\ ~Writing /\ \A p : p # "idle" => ~Acknowledged(p)
  BY DEF Started, Confirmed, Writing, Acknowledged, At
<1>6. StreamInv
  BY <1>4, <1>5 DEF StreamInv, QuietInv, FirstTryInv, SecondTryInv, ThirdTryInv, ProgramInv
<1>7. RequestInv
  BY DEF RequestInv
<1>8. LateInv /\ MixedInv /\ ReadyInv
  BY <1>5 DEF LateInv, MixedInv, ReadyInv
<1>9. AnswerInv /\ ProgramReady
  BY DEF AnswerInv, ProgramReady
<1>10. OnlyImageData /\ PassedIsProgrammed
  <2>1. \A x \in Blocks : x[1] \in 1 .. Len(Image) /\ x[2] \in 0 .. Len(Image[x[1]]) - 1
    BY <1>1, BlockParts
  <2>2. \A x \in Blocks : ~Passed(x)
    BY <1>1, <2>1 DEF Passed
  <2> QED BY <2>2 DEF OnlyImageData, PassedIsProgrammed
<1> QED BY <1>2, <1>3, <1>6, <1>7, <1>8, <1>9, <1>10 DEF IInv

\* Nothing changes.
LEMMA StutterIInv == ASSUME IInv, UNCHANGED vars PROVE IInv'
<1> USE DEF vars
<1>1. UNCHANGED <<Image, BlockSize, NChunks, Current, Blocks, BlockData(Current)>>
  BY BlockFrame
<1>2. TypeOK' /\ StreamOK'
  BY <1>1 DEF IInv, TypeOK, StreamOK, Requests
<1>3. StreamInv'
  <2>1. Kept
    BY StreamStill DEF Kept, Only
  <2> QED BY <2>1, StreamFrame DEF IInv
<1>4. /\ RequestInv' /\ AnswerInv' /\ ProgramReady' /\ OnlyImageData' /\ PassedIsProgrammed'
      /\ (Late => Late') /\ (Mixed => Mixed')
  BY NodeFrame DEF IInv
<1>5. LateInv' /\ MixedInv' /\ ReadyInv'
  BY <1>4, StillFrame DEF IInv
<1> QED BY <1>2, <1>3, <1>4, <1>5 DEF IInv

\* Every step keeps the invariant, with a client that tells a NACK.
LEMMA NextIInv == ASSUME FullLevel2, IInv, [Next]_vars PROVE IInv'
<1>1. CASE Waiting
  BY <1>1, CheckResponseIInv, CheckResponseTimeoutIInv DEF Waiting
<1>2. CASE HostStep
  BY <1>2, DeviceInitIInv, DeviceInitRefusesIInv, DeviceInitEndsIInv, NextMemtypeIInv,
     WriteBlockStartIInv, WriteBlockStartEndsIInv, WriteChunkIInv, WriteChunkEndsIInv,
     WriteBlockEndsIInv, ProgramBlockIInv, ProgramBlockEndsIInv, SendFailsIInv DEF HostStep
<1>3. CASE NodeStep
  BY <1>3, NodeEntersIInv, NodeStartsIInv, NodeCollectsIInv, NodeProgramsIInv, NodeRefusesIInv,
     NodeRestartsIInv DEF NodeStep
<1>4. CASE RequestLost \/ AnswerLost
  BY <1>4, RequestLostIInv, AnswerLostIInv
<1>5. CASE UNCHANGED vars
  BY <1>5, StutterIInv
<1> QED BY <1>1, <1>2, <1>3, <1>4, <1>5 DEF Next

\* The inductive invariant holds for every image, chunk size and number of restarts.
THEOREM BootInvariant == ASSUME FullLevel2 PROVE Spec => []IInv
<1>1. IInv /\ [Next]_vars => IInv'
  BY NextIInv
<1> QED BY InitIInv, <1>1, PTL DEF Spec

\* A block that deviceLoad has passed is in the node's memory and stays there: the answers that
\* checkResponse takes for those to a later request never put the host ahead of the node, for
\* every image, whatever is lost, late or refused and however often the node restarts.
THEOREM BootPassedIsProgrammed == ASSUME FullLevel2 PROVE Spec => []PassedIsProgrammed
<1>1. IInv => PassedIsProgrammed
  BY DEF IInv
<1> QED BY <1>1, BootInvariant, PTL

\* The node programs nothing but the image's data, and no block that the host has not reached,
\* for every image, whatever is lost, late or refused and however often the node restarts.
THEOREM BootOnlyImageData == ASSUME FullLevel2 PROVE Spec => []OnlyImageData
<1>1. IInv => OnlyImageData
  BY DEF IInv
<1> QED BY <1>1, BootInvariant, PTL

\* The variables keep their types: the host stays inside the image and its tries, the node's
\* buffer never holds more than a block.
THEOREM BootTypes == ASSUME FullLevel2 PROVE Spec => []TypeOK
<1>1. IInv => TypeOK
  BY DEF IInv
<1> QED BY <1>1, BootInvariant, PTL
=============================================================================

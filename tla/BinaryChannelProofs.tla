------------------------ MODULE BinaryChannelProofs ------------------------
(***************************************************************************)
(* The binary mode keeps its types, its order of events and the promises   *)
(* of clear and disconnect for any number of application threads, calls,   *)
(* events, polls and faults.  Each lemma shows that a step preserves IInv, *)
(* one part of the invariant at a time.                                    *)
(***************************************************************************)
EXTENDS BinaryChannel, TLAPS

USE BinaryAssumption
USE DEF netVars, rawVars, pollVars, controlVars, workerVars, lockVars, threadVars, historyVars,
        config, serverKeeps, callKeeps, workerKeeps, ownerKeeps, Threads

\* What Append does to a sequence.
LEMMA Appended ==
  ASSUME NEW S, NEW s \in Seq(S), NEW e \in S, NEW r, r = Append(s, e)
  PROVE  /\ r \in Seq(S) /\ Len(s) \in Nat /\ Len(r) = Len(s) + 1
         /\ \A i \in 1 .. Len(s) : r[i] = s[i]
         /\ r[Len(s) + 1] = e
OBVIOUS

\* What the delivery of one frame does to a sequence.
LEMMA JoinedOne ==
  ASSUME NEW S, NEW s \in Seq(S), NEW e \in S, NEW r, r = s \o <<e>>
  PROVE  /\ r \in Seq(S) /\ Len(s) \in Nat /\ Len(r) = Len(s) + 1
         /\ \A i \in 1 .. Len(s) : r[i] = s[i]
         /\ r[Len(s) + 1] = e
<1>1. <<e>> \in Seq(S) /\ Len(<<e>>) = 1 /\ <<e>>[1] = e
  OBVIOUS
<1>2. s \o <<e>> \in Seq(S) /\ Len(s \o <<e>>) = Len(s) + 1 /\ Len(s) \in Nat
  BY <1>1
<1>3. \A i \in 1 .. Len(s) : (s \o <<e>>)[i] = s[i]
  BY <1>1
<1>4. (s \o <<e>>)[Len(s) + 1] = <<e>>[1]
  BY <1>1, <1>2
<1> QED BY <1>1, <1>2, <1>3, <1>4

\* What the delivery of two frames does to a sequence.
LEMMA JoinedTwo ==
  ASSUME NEW S, NEW s \in Seq(S), NEW e \in S, NEW f \in S, NEW r, r = s \o <<e, f>>
  PROVE  /\ r \in Seq(S) /\ Len(s) \in Nat /\ Len(r) = Len(s) + 2
         /\ \A i \in 1 .. Len(s) : r[i] = s[i]
         /\ r[Len(s) + 1] = e /\ r[Len(s) + 2] = f
<1>1. <<e, f>> \in Seq(S) /\ Len(<<e, f>>) = 2 /\ <<e, f>>[1] = e /\ <<e, f>>[2] = f
  OBVIOUS
<1>2. s \o <<e, f>> \in Seq(S) /\ Len(s \o <<e, f>>) = Len(s) + 2 /\ Len(s) \in Nat
  BY <1>1
<1>3. \A i \in 1 .. Len(s) : (s \o <<e, f>>)[i] = s[i]
  BY <1>1
<1>4. (s \o <<e, f>>)[Len(s) + 1] = <<e, f>>[1] /\ (s \o <<e, f>>)[Len(s) + 2] = <<e, f>>[2]
  BY <1>1, <1>2
<1> QED BY <1>1, <1>2, <1>3, <1>4

\* What taking the head does to a sequence.
LEMMA Popped ==
  ASSUME NEW S, NEW s \in Seq(S), s # <<>>, NEW r, r = Tail(s)
  PROVE  /\ r \in Seq(S) /\ Len(s) \in Nat /\ Len(s) >= 1 /\ Len(r) = Len(s) - 1
         /\ \A i \in 1 .. Len(s) - 1 : r[i] = s[i + 1]
         /\ Head(s) = s[1] /\ Head(s) \in S
OBVIOUS

\* An event the server sends is a frame that brings it.
LEMMA EventIsFrame ==
  ASSUME NEW n \in Nat, n > 0, NEW ok \in {"ok", "bad"}
  PROVE  Event(n, ok) \in FrameSet /\ EventIn(Event(n, ok)) = n /\ Event(n, ok).ev = n
BY DEF Event, FrameSet, EventIn, Codes

\* A reply is a frame, and brings an event only if it says so.
LEMMA ReplyIsFrame ==
  ASSUME NEW r \in RequestSet, NEW ev \in Nat, NEW ok \in {"ok", "error", "bad", "empty", "event"},
         ok = "event" => r.by = "poll" /\ ev > 0
  PROVE  /\ Reply(r, ev, ok) \in FrameSet /\ Reply(r, ev, ok).ev = ev
         /\ EventIn(Reply(r, ev, ok)) > 0 => ok = "event"
BY DEF Reply, FrameSet, RequestSet, EventIn, Codes

\* A frame a worker holds brings the event it says it brings.
LEMMA HeldBrings ==
  ASSUME NEW f \in FrameSet \cup {NoFrame}, f.kind = "event" \/ f.ok = "event"
  PROVE  EventIn(f) > 0 /\ f.ev \in Nat
BY DEF FrameSet, NoFrame

\* A write adds a request to the connection, or closes it.
LEMMA WriteFrame ==
  ASSUME NetOK, NEW c \in Chan, NEW r \in RequestSet, Write(c, r) \/ WriteFails(c)
  PROVE  /\ NetOK' /\ sent' = sent
         /\ \A d \in Chan : transport[d] = "none" => transport'[d] = "none"
         /\ \A d \in Chan : net'[d] = net[d] \/ net'[d] = <<>>
<1>1. CASE Write(c, r)
  <2>1. Append(todo[c], r) \in Seq(RequestSet)
    BY Appended DEF NetOK
  <2> QED BY <1>1, <2>1 DEF Write, NetOK
<1>2. CASE WriteFails(c)
  BY <1>2 DEF WriteFails, NetOK
<1> QED BY <1>1, <1>2

\* The channel events are received on is fixed by the mode.
LEMMA NormalIsChan == ASSUME NEW c \in Chan PROVE Normal(c) \in Chan
BY DEF Normal, Chan

\* What is left of the frames on their way, and of those that are kept, is
\* their end; a worker that takes a frame takes the one before it.
LEMMA OrderFrame ==
  ASSUME TypeOK, OrderInv, FreshInv, UNCHANGED <<mode, sent>>,
         \A d \in Chan : \E k \in Nat : \A i \in 1 .. Len(net'[d]) :
           i + k \in 1 .. Len(net[d]) /\ net'[d][i] = net[d][i + k],
         \E k \in Nat : \A i \in 1 .. Len(buffered') :
           i + k \in 1 .. Len(buffered) /\ buffered'[i] = buffered[i + k],
         \A d \in Chan :
           \/ hand'[d] = hand[d]
           \/ /\ hand'[d].ev <= sent[d]
              /\ \A i \in 1 .. Len(net'[d]) : Before(hand'[d], net'[d][i])
              /\ d = Normal("receive") =>
                   /\ After(hand'[d])
                   /\ \A i \in 1 .. Len(buffered') : Before(hand'[d], buffered'[i])
  PROVE  OrderInv' /\ (barrier' = barrier => FreshInv')
<1> DEFINE R == Normal("receive")
<1>1. R \in Chan /\ Normal("receive")' = R
  BY NormalIsChan DEF Normal, Chan
<1>2. \A d \in Chan : Len(net[d]) \in Nat
  BY DEF TypeOK, NetOK
<1>3. Len(buffered) \in Nat
  BY DEF TypeOK, WorkersOK
<1>4. \A d \in Chan : \A i \in 1 .. Len(net'[d]) :
        /\ net'[d][i].ev <= sent'[d]
        /\ Before(hand'[d], net'[d][i])
        /\ \A j \in 1 .. i - 1 : Before(net'[d][j], net'[d][i])
  <2> SUFFICES ASSUME NEW d \in Chan, NEW i \in 1 .. Len(net'[d])
               PROVE  /\ net'[d][i].ev <= sent'[d]
                      /\ Before(hand'[d], net'[d][i])
                      /\ \A j \in 1 .. i - 1 : Before(net'[d][j], net'[d][i])
    OBVIOUS
  <2>1. PICK k \in Nat : \A m \in 1 .. Len(net'[d]) :
          m + k \in 1 .. Len(net[d]) /\ net'[d][m] = net[d][m + k]
    OBVIOUS
  <2>2. /\ net[d][i + k].ev <= sent[d] /\ Before(hand[d], net[d][i + k])
        /\ \A j \in 1 .. i + k - 1 : Before(net[d][j], net[d][i + k])
    BY <2>1 DEF OrderInv
  <2>3. \A j \in 1 .. i - 1 : j \in 1 .. Len(net'[d]) /\ j + k \in 1 .. i + k - 1
    BY <1>2, <2>1
  <2> QED BY <2>1, <2>2, <2>3
<1>5. \A i \in 1 .. Len(buffered') :
        /\ buffered'[i].ev <= sent'[R]
        /\ Before(hand'[R], buffered'[i])
        /\ \A j \in 1 .. i - 1 : Before(buffered'[j], buffered'[i])
        /\ \A j \in 1 .. Len(net'[R]) : Before(buffered'[i], net'[R][j])
  <2> SUFFICES ASSUME NEW i \in 1 .. Len(buffered')
               PROVE  /\ buffered'[i].ev <= sent'[R]
                      /\ Before(hand'[R], buffered'[i])
                      /\ \A j \in 1 .. i - 1 : Before(buffered'[j], buffered'[i])
                      /\ \A j \in 1 .. Len(net'[R]) : Before(buffered'[i], net'[R][j])
    OBVIOUS
  <2>1. PICK k \in Nat : \A m \in 1 .. Len(buffered') :
          m + k \in 1 .. Len(buffered) /\ buffered'[m] = buffered[m + k]
    OBVIOUS
  <2>2. PICK l \in Nat : \A m \in 1 .. Len(net'[R]) :
          m + l \in 1 .. Len(net[R]) /\ net'[R][m] = net[R][m + l]
    BY <1>1
  <2>3. /\ buffered[i + k].ev <= sent[R] /\ Before(hand[R], buffered[i + k])
        /\ \A j \in 1 .. i + k - 1 : Before(buffered[j], buffered[i + k])
        /\ \A j \in 1 .. Len(net[R]) : Before(buffered[i + k], net[R][j])
    BY <2>1 DEF OrderInv
  <2>4. \A j \in 1 .. i - 1 : j \in 1 .. Len(buffered') /\ j + k \in 1 .. i + k - 1
    BY <1>3, <2>1
  <2>5. buffered'[i] = buffered[i + k]
    BY <2>1
  <2>6. buffered'[i].ev <= sent'[R] /\ Before(hand'[R], buffered'[i])
    BY <1>1, <2>3, <2>5
  <2>7. ASSUME NEW j \in 1 .. i - 1
        PROVE  Before(buffered'[j], buffered'[i])
    <3>1. buffered'[j] = buffered[j + k] /\ j + k \in 1 .. i + k - 1
      BY <2>1, <2>4
    <3> QED BY <2>3, <2>5, <3>1
  <2>8. ASSUME NEW j \in 1 .. Len(net'[R])
        PROVE  Before(buffered'[i], net'[R][j])
    <3>1. net'[R][j] = net[R][j + l] /\ j + l \in 1 .. Len(net[R])
      BY <2>2
    <3> QED BY <2>3, <2>5, <3>1
  <2> QED BY <2>6, <2>7, <2>8
<1>6. \A d \in Chan : hand'[d].ev <= sent'[d]
  BY DEF OrderInv
<1> HIDE DEF R
<1>7. OrderInv'
  BY <1>1, <1>4, <1>5, <1>6 DEF OrderInv
<1>8. ASSUME barrier' = barrier PROVE FreshInv'
  <2>1. EventIn(hand'[R]) > 0 => hand'[R].ev > barrier'
    BY <1>1, <1>8 DEF FreshInv, After, R
  <2>2. \A i \in 1 .. Len(net'[R]) : EventIn(net'[R][i]) > 0 => net'[R][i].ev > barrier'
    BY <1>1, <1>8 DEF FreshInv, After, R
  <2>3. \A i \in 1 .. Len(buffered') : EventIn(buffered'[i]) > 0 => buffered'[i].ev > barrier'
    BY <1>8 DEF FreshInv, After
  <2>4. barrier' <= sent'[R]
    BY <1>8 DEF FreshInv, R
  <2> QED BY <1>1, <2>1, <2>2, <2>3, <2>4 DEF FreshInv, After
<1> QED BY <1>7, <1>8

\* No frame is before every event.
LEMMA NoFrameFirst ==
  ASSUME NEW f \in FrameSet
  PROVE  Before(NoFrame, f) /\ NoFrame.ev = 0 /\ After(NoFrame)
BY DEF Before, After, NoFrame, EventIn, FrameSet

\* Where nothing is put on its way, and what is there stays or goes as a
\* whole, the order is kept.
LEMMA QuietFrame ==
  ASSUME TypeOK, OrderInv, FreshInv, UNCHANGED <<mode, sent>>,
         \A d \in Chan : net'[d] = net[d] \/ net'[d] = <<>>,
         \A d \in Chan : hand'[d] = hand[d] \/ hand'[d] = NoFrame,
         buffered' = buffered \/ buffered' = <<>>
  PROVE  OrderInv' /\ (barrier' = barrier => FreshInv')
<1>1. \A d \in Chan : \A i \in 1 .. Len(net'[d]) :
        i + 0 \in 1 .. Len(net[d]) /\ net'[d][i] = net[d][i + 0] /\ net'[d][i] \in FrameSet
  BY DEF TypeOK, NetOK
<1>2. \A i \in 1 .. Len(buffered') :
        i + 0 \in 1 .. Len(buffered) /\ buffered'[i] = buffered[i + 0] /\ buffered'[i] \in FrameSet
  BY DEF TypeOK, WorkersOK
<1>3. \A d \in Chan : hand'[d] # hand[d] =>
        /\ hand'[d].ev <= sent[d] /\ After(hand'[d])
        /\ \A i \in 1 .. Len(net'[d]) : Before(hand'[d], net'[d][i])
        /\ \A i \in 1 .. Len(buffered') : Before(hand'[d], buffered'[i])
  <2> SUFFICES ASSUME NEW d \in Chan, hand'[d] # hand[d]
               PROVE  /\ hand'[d].ev <= sent[d] /\ After(hand'[d])
                      /\ \A i \in 1 .. Len(net'[d]) : Before(hand'[d], net'[d][i])
                      /\ \A i \in 1 .. Len(buffered') : Before(hand'[d], buffered'[i])
    OBVIOUS
  <2>1. hand'[d] = NoFrame /\ sent[d] \in Nat /\ NoFrame.ev = 0 /\ After(NoFrame)
    BY DEF TypeOK, NetOK, NoFrame, After, EventIn
  <2> QED BY <1>1, <1>2, <2>1, NoFrameFirst
<1>4. /\ \A d \in Chan : \E k \in Nat : \A i \in 1 .. Len(net'[d]) :
           i + k \in 1 .. Len(net[d]) /\ net'[d][i] = net[d][i + k]
      /\ \E k \in Nat : \A i \in 1 .. Len(buffered') :
           i + k \in 1 .. Len(buffered) /\ buffered'[i] = buffered[i + k]
  BY <1>1, <1>2
<1> QED BY <1>3, <1>4, OrderFrame

\* What the server puts on a connection comes after all that is on it: an
\* event in it is new, and the first of what is put there.
LEMMA Arrives ==
  ASSUME TypeOK, OrderInv, FreshInv, UNCHANGED <<mode, hand, buffered, barrier>>, NEW c \in Chan,
         \A d \in Chan \ {c} : net'[d] = net[d] /\ sent'[d] = sent[d],
         sent'[c] \in Nat, sent[c] <= sent'[c],
         Len(net'[c]) \in Nat, Len(net[c]) <= Len(net'[c]),
         \A i \in 1 .. Len(net[c]) : net'[c][i] = net[c][i],
         \A i \in 1 .. Len(net'[c]) : i > Len(net[c]) =>
           /\ net'[c][i].ev \in Nat /\ net'[c][i].ev <= sent'[c]
           /\ EventIn(net'[c][i]) > 0 => net'[c][i].ev > sent[c] /\ i = Len(net[c]) + 1
  PROVE  OrderInv' /\ FreshInv'
<1> DEFINE R == Normal("receive")
<1>1. R \in Chan /\ Normal("receive")' = R
  BY NormalIsChan DEF Normal, Chan
<1>2. \A d \in Chan : /\ Len(net[d]) \in Nat /\ sent[d] \in Nat /\ sent'[d] \in Nat
                      /\ sent[d] <= sent'[d]
                      /\ hand[d].ev \in Nat /\ hand[d].ev <= sent[d]
  BY DEF TypeOK, NetOK, WorkersOK, OrderInv, FrameSet, NoFrame
<1>3. \A d \in Chan : \A i \in 1 .. Len(net[d]) : net[d][i].ev \in Nat /\ net[d][i].ev <= sent[d]
  <2>1. \A d \in Chan : \A i \in 1 .. Len(net[d]) : net[d][i] \in FrameSet
    BY DEF TypeOK, NetOK
  <2>2. \A f \in FrameSet : f.ev \in Nat
    BY DEF FrameSet
  <2> QED BY <2>1, <2>2 DEF OrderInv
<1>4. \A i \in 1 .. Len(buffered) : buffered[i].ev \in Nat /\ buffered[i].ev <= sent[R]
  BY DEF TypeOK, WorkersOK, FrameSet, OrderInv
<1>5. barrier \in Nat /\ barrier <= sent[R]
  BY DEF TypeOK, HistoryOK, FreshInv
<1> HIDE DEF R
<1>6. \A d \in Chan \ {c} : \A i \in 1 .. Len(net'[d]) :
        /\ net'[d][i].ev <= sent'[d]
        /\ Before(hand'[d], net'[d][i])
        /\ \A j \in 1 .. i - 1 : Before(net'[d][j], net'[d][i])
  BY DEF OrderInv
<1>7. \A i \in 1 .. Len(net'[c]) :
        /\ net'[c][i].ev <= sent'[c]
        /\ Before(hand'[c], net'[c][i])
        /\ \A j \in 1 .. i - 1 : Before(net'[c][j], net'[c][i])
  <2> SUFFICES ASSUME NEW i \in 1 .. Len(net'[c])
               PROVE  /\ net'[c][i].ev <= sent'[c]
                      /\ Before(hand'[c], net'[c][i])
                      /\ \A j \in 1 .. i - 1 : Before(net'[c][j], net'[c][i])
    OBVIOUS
  <2>1. CASE i <= Len(net[c])
    <3>1. i \in 1 .. Len(net[c]) /\ net'[c][i] = net[c][i]
          /\ \A j \in 1 .. i - 1 : j \in 1 .. Len(net[c]) /\ net'[c][j] = net[c][j]
      BY <1>2, <2>1
    <3>2. /\ net[c][i].ev <= sent[c] /\ Before(hand[c], net[c][i])
          /\ \A j \in 1 .. i - 1 : Before(net[c][j], net[c][i])
      BY <3>1 DEF OrderInv
    <3>3. net[c][i].ev <= sent'[c]
      BY <1>2, <1>3, <3>1
    <3> QED BY <3>1, <3>2, <3>3
  <2>2. CASE i > Len(net[c])
    <3>1. EventIn(net'[c][i]) > 0 => \A j \in 1 .. i - 1 : net'[c][j].ev < net'[c][i].ev
      <4> SUFFICES ASSUME EventIn(net'[c][i]) > 0, NEW j \in 1 .. i - 1
                   PROVE  net'[c][j].ev < net'[c][i].ev
        OBVIOUS
      <4>1. i = Len(net[c]) + 1 /\ net'[c][i].ev > sent[c] /\ net'[c][i].ev \in Nat
        BY <2>2
      <4>2. j \in 1 .. Len(net[c]) /\ net'[c][j] = net[c][j]
        BY <1>2, <4>1
      <4> QED BY <1>2, <1>3, <4>1, <4>2, SMTT(30)
    <3>2. EventIn(net'[c][i]) > 0 => hand'[c].ev < net'[c][i].ev
      BY <1>2, <2>2
    <3> QED BY <2>2, <3>1, <3>2 DEF Before
  <2> QED BY <1>2, <2>1, <2>2
<1>8. \A i \in 1 .. Len(buffered') :
        /\ buffered'[i].ev <= sent'[R]
        /\ Before(hand'[R], buffered'[i])
        /\ \A j \in 1 .. i - 1 : Before(buffered'[j], buffered'[i])
        /\ \A j \in 1 .. Len(net'[R]) : Before(buffered'[i], net'[R][j])
  <2> SUFFICES ASSUME NEW i \in 1 .. Len(buffered)
               PROVE  /\ buffered[i].ev <= sent'[R]
                      /\ Before(hand[R], buffered[i])
                      /\ \A j \in 1 .. i - 1 : Before(buffered[j], buffered[i])
                      /\ \A j \in 1 .. Len(net'[R]) : Before(buffered[i], net'[R][j])
    OBVIOUS
  <2>1. buffered[i].ev <= sent'[R]
    BY <1>1, <1>2, <1>4, SMTT(30)
  <2>2. /\ Before(hand[R], buffered[i])
        /\ \A j \in 1 .. i - 1 : Before(buffered[j], buffered[i])
        /\ \A j \in 1 .. Len(net[R]) : Before(buffered[i], net[R][j])
    BY DEF OrderInv, R
  <2>3. \A j \in 1 .. Len(net'[R]) : Before(buffered[i], net'[R][j])
    <3> SUFFICES ASSUME NEW j \in 1 .. Len(net'[R]), EventIn(net'[R][j]) > 0
                 PROVE  buffered[i].ev < net'[R][j].ev
      BY DEF Before
    <3>1. CASE R # c
      BY <1>1, <2>2, <3>1 DEF Before
    <3>2. CASE R = c /\ j <= Len(net[c])
      <4>1. j \in 1 .. Len(net[R]) /\ net'[R][j] = net[R][j]
        BY <1>2, <3>2
      <4> QED BY <2>2, <4>1 DEF Before
    <3>3. CASE R = c /\ j > Len(net[c])
      <4>1. net'[R][j].ev > sent[R] /\ net'[R][j].ev \in Nat
        BY <3>3
      <4> QED BY <1>1, <1>2, <1>4, <4>1, SMTT(30)
    <3> QED BY <1>1, <1>2, <3>1, <3>2, <3>3
  <2> QED BY <2>1, <2>2, <2>3
<1>9. \A d \in Chan : hand'[d].ev <= sent'[d]
  BY <1>2
<1>10. \A i \in 1 .. Len(net'[R]) : EventIn(net'[R][i]) > 0 => net'[R][i].ev > barrier'
  <2> SUFFICES ASSUME NEW i \in 1 .. Len(net'[R]), EventIn(net'[R][i]) > 0
               PROVE  net'[R][i].ev > barrier
    OBVIOUS
  <2>1. CASE i \in 1 .. Len(net[R]) /\ net'[R][i] = net[R][i]
    BY <2>1 DEF FreshInv, After, R
  <2>2. CASE R = c /\ i > Len(net[c])
    <3>1. net'[R][i].ev > sent[R] /\ net'[R][i].ev \in Nat
      BY <2>2
    <3> QED BY <1>1, <1>2, <1>5, <3>1
  <2> QED BY <1>1, <1>2, <2>1, <2>2
<1>11. OrderInv'
  BY <1>1, <1>6, <1>7, <1>8, <1>9 DEF OrderInv
<1>12. FreshInv'
  <2>1. barrier' <= sent'[R]
    BY <1>1, <1>2, <1>5
  <2>2. EventIn(hand'[R]) > 0 => hand'[R].ev > barrier'
    BY DEF FreshInv, After, R
  <2>3. \A i \in 1 .. Len(buffered') : EventIn(buffered'[i]) > 0 => buffered'[i].ev > barrier'
    BY DEF FreshInv, After
  <2> QED BY <1>1, <1>10, <2>1, <2>2, <2>3 DEF FreshInv, After
<1> QED BY <1>11, <1>12

\* Events that are kept or emptied stay newer than the last clear.
LEMMA ClearFrame ==
  ASSUME ClearIsFinal, UNCHANGED <<mode, barrier>>, events' = events \/ events' = <<>>
  PROVE  ClearIsFinal'
BY DEF ClearIsFinal, Normal

\* A frame that is being dispatched stays where it is.
LEMMA DispatchFrame ==
  ASSUME DispatchInv,
         \A d \in Chan : wpc'[d] = "dispatch" => wpc[d] = "dispatch" /\ hand'[d] = hand[d]
  PROVE  DispatchInv'
BY DEF DispatchInv

\* A connection is lost.
LEMMA ConnectionLostIInv ==
  ASSUME IInv, NEW c \in Chan, ConnectionLost(c)
  PROVE  IInv'
<1>1. TypeOK'
  <2>1. NetOK'
    BY DEF IInv, TypeOK, NetOK, ConnectionLost
  <2>2. mode' \in Modes /\ load' \in Workloads /\ FlagsOK' /\ WorkersOK' /\ QueuesOK' /\ ControlOK'
    /\ LocksOK' /\ ThreadsOK' /\ HistoryOK'
    BY DEF IInv, TypeOK, FlagsOK, WorkersOK, QueuesOK, ControlOK, LocksOK, ThreadsOK, HistoryOK,
      ConnectionLost
  <2> QED BY <2>1, <2>2 DEF TypeOK
<1>2. LifeInv'
  BY DEF IInv, TypeOK, ThreadsOK, WorkersOK, LifeInv, ConnectionLost
<1>3. OrderInv' /\ FreshInv'
  BY QuietFrame DEF IInv, TypeOK, NetOK, WorkersOK, ConnectionLost
<1>4. DispatchInv'
  BY DispatchFrame DEF IInv, TypeOK, WorkersOK, ConnectionLost
<1>5. ClearIsFinal'
  BY ClearFrame DEF IInv, ConnectionLost
<1> QED BY <1>1, <1>2, <1>3, <1>4, <1>5 DEF IInv

\* A deadline passes.
LEMMA ExpireIInv ==
  ASSUME IInv, Expire
  PROVE  IInv'
<1>1. TypeOK'
  <2>1. QueuesOK'
    BY DEF IInv, TypeOK, QueuesOK, Keys, Poll, Expire
  <2>2. mode' \in Modes /\ load' \in Workloads /\ FlagsOK' /\ NetOK' /\ WorkersOK' /\ ControlOK' /\
    LocksOK' /\ ThreadsOK' /\ HistoryOK'
    BY DEF IInv, TypeOK, FlagsOK, NetOK, WorkersOK, ControlOK, LocksOK, ThreadsOK, HistoryOK, Expire
  <2> QED BY <2>1, <2>2 DEF TypeOK
<1>2. LifeInv'
  BY DEF IInv, TypeOK, ThreadsOK, WorkersOK, LifeInv, Expire
<1>3. OrderInv' /\ FreshInv'
  BY QuietFrame DEF IInv, TypeOK, NetOK, WorkersOK, Expire
<1>4. DispatchInv'
  BY DispatchFrame DEF IInv, TypeOK, WorkersOK, Expire
<1>5. ClearIsFinal'
  BY ClearFrame DEF IInv, Expire
<1> QED BY <1>1, <1>2, <1>3, <1>4, <1>5 DEF IInv

\* A worker finds that it has to end.
LEMMA WorkerTopIInv ==
  ASSUME IInv, NEW c \in Chan, WorkerTop(c)
  PROVE  IInv'
<1>1. TypeOK'
  <2>1. WorkersOK'
    BY DEF IInv, TypeOK, WorkersOK, WorkerPlaces, WorkerTop, WGoto, HoldsFrame, NoFrame
  <2>2. mode' \in Modes /\ load' \in Workloads /\ FlagsOK' /\ NetOK' /\ QueuesOK' /\ ControlOK' /\
    LocksOK' /\ ThreadsOK' /\ HistoryOK'
    BY DEF IInv, TypeOK, FlagsOK, NetOK, QueuesOK, ControlOK, LocksOK, ThreadsOK, HistoryOK,
      WorkerTop, WGoto, HoldsFrame, NoFrame
  <2> QED BY <2>1, <2>2 DEF TypeOK
<1>2. LifeInv'
  BY DEF IInv, TypeOK, ThreadsOK, WorkersOK, LifeInv, WorkerTop, WGoto, HoldsFrame, NoFrame
<1>3. OrderInv' /\ FreshInv'
  BY QuietFrame DEF IInv, TypeOK, NetOK, WorkersOK, WorkerTop, WGoto, HoldsFrame, NoFrame
<1>4. DispatchInv'
  BY DispatchFrame DEF IInv, TypeOK, WorkersOK, WorkerTop, WGoto, HoldsFrame, NoFrame
<1>5. ClearIsFinal'
  BY ClearFrame DEF IInv, WorkerTop, WGoto, HoldsFrame, NoFrame
<1> QED BY <1>1, <1>2, <1>3, <1>4, <1>5 DEF IInv

\* A worker registers a poll.
LEMMA WorkerPollsIInv ==
  ASSUME IInv, NEW c \in Chan, WorkerPolls(c)
  PROVE  IInv'
<1>1. TypeOK'
  <2>1. FlagsOK'
    BY DEF IInv, TypeOK, FlagsOK, WorkerPolls, WGoto, HoldsFrame, NoFrame
  <2>2. WorkersOK'
    BY DEF IInv, TypeOK, WorkersOK, WorkerPlaces, WorkerPolls, WGoto, HoldsFrame, NoFrame
  <2>3. ControlOK'
    BY DEF IInv, TypeOK, ControlOK, WorkerPolls, WGoto, HoldsFrame, NoFrame
  <2>4. mode' \in Modes /\ load' \in Workloads /\ NetOK' /\ QueuesOK' /\ LocksOK' /\ ThreadsOK' /\
    HistoryOK'
    BY DEF IInv, TypeOK, NetOK, QueuesOK, LocksOK, ThreadsOK, HistoryOK, WorkerPolls, WGoto,
      HoldsFrame, NoFrame
  <2> QED BY <2>1, <2>2, <2>3, <2>4 DEF TypeOK
<1>2. LifeInv'
  BY DEF IInv, TypeOK, ThreadsOK, WorkersOK, LifeInv, WorkerPolls, WGoto, HoldsFrame, NoFrame
<1>3. OrderInv' /\ FreshInv'
  BY QuietFrame DEF IInv, TypeOK, NetOK, WorkersOK, WorkerPolls, WGoto, HoldsFrame, NoFrame
<1>4. DispatchInv'
  BY DispatchFrame DEF IInv, TypeOK, WorkersOK, WorkerPolls, WGoto, HoldsFrame, NoFrame
<1>5. ClearIsFinal'
  BY ClearFrame DEF IInv, WorkerPolls, WGoto, HoldsFrame, NoFrame
<1> QED BY <1>1, <1>2, <1>3, <1>4, <1>5 DEF IInv

\* A worker writes a poll.
LEMMA WorkerWritesPollIInv ==
  ASSUME IInv, NEW c \in Chan, WorkerWritesPoll(c)
  PROVE  IInv'
<1>w. /\ NetOK' /\ sent' = sent
      /\ \A d \in Chan : transport[d] = "none" => transport'[d] = "none"
      /\ \A d \in Chan : net'[d] = net[d] \/ net'[d] = <<>>
  <2>1. Request(c, "RETR", "poll", polls) \in RequestSet
    BY DEF IInv, TypeOK, ControlOK, Request, RequestSet, Codes
  <2> QED BY <2>1, WriteFrame DEF IInv, TypeOK, WorkerWritesPoll
<1>1. TypeOK'
  <2>1. NetOK'
    BY <1>w
  <2>2. WorkersOK'
    BY DEF IInv, TypeOK, WorkersOK, WorkerPlaces, WorkerWritesPoll, WGoto, HoldsFrame, NoFrame
  <2>3. mode' \in Modes /\ load' \in Workloads /\ FlagsOK' /\ QueuesOK' /\ ControlOK' /\ LocksOK' /\
    ThreadsOK' /\ HistoryOK'
    BY DEF IInv, TypeOK, FlagsOK, QueuesOK, ControlOK, LocksOK, ThreadsOK, HistoryOK,
      WorkerWritesPoll, WGoto, HoldsFrame, NoFrame
  <2> QED BY <2>1, <2>2, <2>3 DEF TypeOK
<1>2. LifeInv'
  BY <1>w DEF IInv, TypeOK, ThreadsOK, WorkersOK, LifeInv, WorkerWritesPoll, WGoto, HoldsFrame,
    NoFrame
<1>3. OrderInv' /\ FreshInv'
  BY <1>w, QuietFrame DEF IInv, TypeOK, NetOK, WorkersOK, WorkerWritesPoll, WGoto, HoldsFrame,
    NoFrame
<1>4. DispatchInv'
  BY DispatchFrame DEF IInv, TypeOK, WorkersOK, WorkerWritesPoll, WGoto, HoldsFrame, NoFrame
<1>5. ClearIsFinal'
  BY ClearFrame DEF IInv, WorkerWritesPoll, WGoto, HoldsFrame, NoFrame
<1> QED BY <1>1, <1>2, <1>3, <1>4, <1>5 DEF IInv

\* A worker finds that the connection is lost.
LEMMA WorkerReadFailsIInv ==
  ASSUME IInv, NEW c \in Chan, WorkerReadFails(c)
  PROVE  IInv'
<1>1. TypeOK'
  <2>1. NetOK'
    BY DEF IInv, TypeOK, NetOK, WorkerReadFails, WGoto, HoldsFrame, NoFrame
  <2>2. WorkersOK'
    BY DEF IInv, TypeOK, WorkersOK, WorkerPlaces, WorkerReadFails, WGoto, HoldsFrame, NoFrame
  <2>3. mode' \in Modes /\ load' \in Workloads /\ FlagsOK' /\ QueuesOK' /\ ControlOK' /\ LocksOK' /\
    ThreadsOK' /\ HistoryOK'
    BY DEF IInv, TypeOK, FlagsOK, QueuesOK, ControlOK, LocksOK, ThreadsOK, HistoryOK,
      WorkerReadFails, WGoto, HoldsFrame, NoFrame
  <2> QED BY <2>1, <2>2, <2>3 DEF TypeOK
<1>2. LifeInv'
  BY DEF IInv, TypeOK, ThreadsOK, WorkersOK, LifeInv, WorkerReadFails, WGoto, HoldsFrame, NoFrame
<1>3. OrderInv' /\ FreshInv'
  BY QuietFrame DEF IInv, TypeOK, NetOK, WorkersOK, WorkerReadFails, WGoto, HoldsFrame, NoFrame
<1>4. DispatchInv'
  BY DispatchFrame DEF IInv, TypeOK, WorkersOK, WorkerReadFails, WGoto, HoldsFrame, NoFrame
<1>5. ClearIsFinal'
  BY ClearFrame DEF IInv, WorkerReadFails, WGoto, HoldsFrame, NoFrame
<1> QED BY <1>1, <1>2, <1>3, <1>4, <1>5 DEF IInv

\* A worker calls the application.
LEMMA CallbackBeginsIInv ==
  ASSUME IInv, NEW c \in Chan, CallbackBegins(c)
  PROVE  IInv'
<1>1. TypeOK'
  <2>1. WorkersOK'
    BY DEF IInv, TypeOK, WorkersOK, WorkerPlaces, CallbackBegins, WGoto, HoldsFrame, NoFrame
  <2>2. LocksOK'
    BY DEF IInv, TypeOK, LocksOK, CallbackBegins, WGoto, HoldsFrame, NoFrame
  <2>3. HistoryOK'
    <3>1. hand[c].ev \in Nat
      BY DEF IInv, TypeOK, WorkersOK, FrameSet, NoFrame
    <3> QED BY <3>1 DEF IInv, TypeOK, HistoryOK, CallbackBegins
  <2>4. mode' \in Modes /\ load' \in Workloads /\ FlagsOK' /\ NetOK' /\ QueuesOK' /\ ControlOK' /\
    ThreadsOK'
    BY DEF IInv, TypeOK, FlagsOK, NetOK, QueuesOK, ControlOK, ThreadsOK, CallbackBegins, WGoto,
      HoldsFrame, NoFrame
  <2> QED BY <2>1, <2>2, <2>3, <2>4 DEF TypeOK
<1>2. LifeInv'
  BY DEF IInv, TypeOK, ThreadsOK, WorkersOK, LifeInv, CallbackBegins, WGoto, HoldsFrame, NoFrame
<1>3. OrderInv' /\ FreshInv'
  BY QuietFrame DEF IInv, TypeOK, NetOK, WorkersOK, CallbackBegins, WGoto, HoldsFrame, NoFrame
<1>4. DispatchInv'
  BY DispatchFrame DEF IInv, TypeOK, WorkersOK, CallbackBegins, WGoto, HoldsFrame, NoFrame
<1>5. ClearIsFinal'
  BY ClearFrame DEF IInv, CallbackBegins, WGoto, HoldsFrame, NoFrame
<1> QED BY <1>1, <1>2, <1>3, <1>4, <1>5 DEF IInv

\* A callback returns.
LEMMA CallbackReturnsIInv ==
  ASSUME IInv, NEW c \in Chan, CallbackReturns(c)
  PROVE  IInv'
<1>1. TypeOK'
  <2>1. WorkersOK'
    BY DEF IInv, TypeOK, WorkersOK, WorkerPlaces, CallbackReturns, WGoto, HoldsFrame, NoFrame
  <2>2. LocksOK'
    BY DEF IInv, TypeOK, LocksOK, CallbackReturns, WGoto, HoldsFrame, NoFrame
  <2>3. mode' \in Modes /\ load' \in Workloads /\ FlagsOK' /\ NetOK' /\ QueuesOK' /\ ControlOK' /\
    ThreadsOK' /\ HistoryOK'
    BY DEF IInv, TypeOK, FlagsOK, NetOK, QueuesOK, ControlOK, ThreadsOK, HistoryOK, CallbackReturns,
      WGoto, HoldsFrame, NoFrame
  <2> QED BY <2>1, <2>2, <2>3 DEF TypeOK
<1>2. LifeInv'
  BY DEF IInv, TypeOK, ThreadsOK, WorkersOK, LifeInv, CallbackReturns, WGoto, HoldsFrame, NoFrame
<1>3. OrderInv' /\ FreshInv'
  BY QuietFrame DEF IInv, TypeOK, NetOK, WorkersOK, CallbackReturns, WGoto, HoldsFrame, NoFrame
<1>4. DispatchInv'
  BY DispatchFrame DEF IInv, TypeOK, WorkersOK, CallbackReturns, WGoto, HoldsFrame, NoFrame
<1>5. ClearIsFinal'
  BY ClearFrame DEF IInv, CallbackReturns, WGoto, HoldsFrame, NoFrame
<1> QED BY <1>1, <1>2, <1>3, <1>4, <1>5 DEF IInv

\* A worker stops the client.
LEMMA WorkerFailsIInv ==
  ASSUME IInv, NEW c \in Chan, WorkerFails(c)
  PROVE  IInv'
<1>1. TypeOK'
  <2>1. FlagsOK'
    BY DEF IInv, TypeOK, FlagsOK, WorkerFails, WGoto, HoldsFrame, NoFrame
  <2>2. WorkersOK'
    BY DEF IInv, TypeOK, WorkersOK, WorkerPlaces, WorkerFails, WGoto, HoldsFrame, NoFrame
  <2>3. mode' \in Modes /\ load' \in Workloads /\ NetOK' /\ QueuesOK' /\ ControlOK' /\ LocksOK' /\
    ThreadsOK' /\ HistoryOK'
    BY DEF IInv, TypeOK, NetOK, QueuesOK, ControlOK, LocksOK, ThreadsOK, HistoryOK, WorkerFails,
      WGoto, HoldsFrame, NoFrame
  <2> QED BY <2>1, <2>2, <2>3 DEF TypeOK
<1>2. LifeInv'
  BY DEF IInv, TypeOK, ThreadsOK, WorkersOK, LifeInv, WorkerFails, WGoto, HoldsFrame, NoFrame
<1>3. OrderInv' /\ FreshInv'
  BY QuietFrame DEF IInv, TypeOK, NetOK, WorkersOK, WorkerFails, WGoto, HoldsFrame, NoFrame
<1>4. DispatchInv'
  BY DispatchFrame DEF IInv, TypeOK, WorkersOK, WorkerFails, WGoto, HoldsFrame, NoFrame
<1>5. ClearIsFinal'
  BY ClearFrame DEF IInv, WorkerFails, WGoto, HoldsFrame, NoFrame
<1> QED BY <1>1, <1>2, <1>3, <1>4, <1>5 DEF IInv

\* OPEN gets no reply.
LEMMA OpenFailsIInv ==
  ASSUME IInv, OpenFails
  PROVE  IInv'
<1>1. TypeOK'
  <2>1. WorkersOK'
    BY DEF IInv, TypeOK, WorkersOK, WorkerPlaces, OpenFails, GotoWith, Goto, Idle, Chan, Codes
  <2>2. ThreadsOK'
    BY DEF IInv, TypeOK, ThreadsOK, Places, OpenFails, GotoWith, Goto, Idle, Chan, Codes
  <2>3. mode' \in Modes /\ load' \in Workloads /\ FlagsOK' /\ NetOK' /\ QueuesOK' /\ ControlOK' /\
    LocksOK' /\ HistoryOK'
    BY DEF IInv, TypeOK, FlagsOK, NetOK, QueuesOK, ControlOK, LocksOK, HistoryOK, OpenFails,
      GotoWith, Goto, Idle, Chan, Codes
  <2> QED BY <2>1, <2>2, <2>3 DEF TypeOK
<1>2. LifeInv'
  BY DEF IInv, TypeOK, ThreadsOK, WorkersOK, LifeInv, OpenFails, GotoWith, Goto, Idle, Chan, Codes
<1>3. OrderInv' /\ FreshInv'
  BY QuietFrame DEF IInv, TypeOK, NetOK, WorkersOK, OpenFails, GotoWith, Goto, Idle, Chan, Codes
<1>4. DispatchInv'
  BY DispatchFrame DEF IInv, TypeOK, WorkersOK, OpenFails, GotoWith, Goto, Idle, Chan, Codes
<1>5. ClearIsFinal'
  BY ClearFrame DEF IInv, OpenFails, GotoWith, Goto, Idle, Chan, Codes
<1> QED BY <1>1, <1>2, <1>3, <1>4, <1>5 DEF IInv

\* The workers have ended.
LEMMA JoinIInv ==
  ASSUME IInv, Join
  PROVE  IInv'
<1>1. TypeOK'
  <2>1. WorkersOK'
    BY DEF IInv, TypeOK, WorkersOK, WorkerPlaces, Join, GotoWith, Goto, Idle, Chan, Codes
  <2>2. ThreadsOK'
    BY DEF IInv, TypeOK, ThreadsOK, Places, Join, GotoWith, Goto, Idle, Chan, Codes
  <2>3. mode' \in Modes /\ load' \in Workloads /\ FlagsOK' /\ NetOK' /\ QueuesOK' /\ ControlOK' /\
    LocksOK' /\ HistoryOK'
    BY DEF IInv, TypeOK, FlagsOK, NetOK, QueuesOK, ControlOK, LocksOK, HistoryOK, Join, GotoWith,
      Goto, Idle, Chan, Codes
  <2> QED BY <2>1, <2>2, <2>3 DEF TypeOK
<1>2. LifeInv'
  BY DEF IInv, TypeOK, ThreadsOK, WorkersOK, LifeInv, Join, GotoWith, Goto, Idle, Chan, Codes
<1>3. OrderInv' /\ FreshInv'
  BY QuietFrame DEF IInv, TypeOK, NetOK, WorkersOK, Join, GotoWith, Goto, Idle, Chan, Codes
<1>4. DispatchInv'
  BY DispatchFrame DEF IInv, TypeOK, WorkersOK, Join, GotoWith, Goto, Idle, Chan, Codes
<1>5. ClearIsFinal'
  BY ClearFrame DEF IInv, Join, GotoWith, Goto, Idle, Chan, Codes
<1> QED BY <1>1, <1>2, <1>3, <1>4, <1>5 DEF IInv

\* The connections are closed.
LEMMA CloseIInv ==
  ASSUME IInv, Close
  PROVE  IInv'
<1>1. TypeOK'
  <2>1. NetOK'
    BY DEF IInv, TypeOK, NetOK, Close, GotoWith, Goto, Idle, Chan, Codes
  <2>2. WorkersOK'
    BY DEF IInv, TypeOK, WorkersOK, WorkerPlaces, Close, GotoWith, Goto, Idle, Chan, Codes
  <2>3. ThreadsOK'
    BY DEF IInv, TypeOK, ThreadsOK, Places, Close, GotoWith, Goto, Idle, Chan, Codes
  <2>4. mode' \in Modes /\ load' \in Workloads /\ FlagsOK' /\ QueuesOK' /\ ControlOK' /\ LocksOK' /\
    HistoryOK'
    BY DEF IInv, TypeOK, FlagsOK, QueuesOK, ControlOK, LocksOK, HistoryOK, Close, GotoWith, Goto,
      Idle, Chan, Codes
  <2> QED BY <2>1, <2>2, <2>3, <2>4 DEF TypeOK
<1>2. LifeInv'
  BY DEF IInv, TypeOK, ThreadsOK, WorkersOK, LifeInv, Close, GotoWith, Goto, Idle, Chan, Codes
<1>3. OrderInv' /\ FreshInv'
  BY QuietFrame DEF IInv, TypeOK, NetOK, WorkersOK, Close, GotoWith, Goto, Idle, Chan, Codes
<1>4. DispatchInv'
  BY DispatchFrame DEF IInv, TypeOK, WorkersOK, Close, GotoWith, Goto, Idle, Chan, Codes
<1>5. ClearIsFinal'
  BY ClearFrame DEF IInv, Close, GotoWith, Goto, Idle, Chan, Codes
<1> QED BY <1>1, <1>2, <1>3, <1>4, <1>5 DEF IInv

\* The receive worker is started.
LEMMA SpawnIInv ==
  ASSUME IInv, Spawn
  PROVE  IInv'
<1>r. Normal("receive") \in Chan
  BY NormalIsChan DEF Chan
<1>s. /\ UNCHANGED <<transport, hand, buffered>>
      /\ events' = <<>> /\ \A k \in Keys : rawPending'[k] = 0
      /\ \/ /\ workers' = {Normal("receive")} /\ wpc' = [wpc EXCEPT ![Normal("receive")] = "top"]
            /\ pc'[Owner] \in {"spawn2", "idle"}
         \/ UNCHANGED <<workers, wpc>> /\ running' = FALSE /\ pc'[Owner] = "closeFailed"
  BY DEF IInv, TypeOK, ThreadsOK, Spawn, ResetState, Goto, GotoWith
<1>1. TypeOK'
  <2>1. FlagsOK'
    BY DEF IInv, TypeOK, FlagsOK, Spawn, ResetState, EndControl, GotoWith, Goto, Idle, Chan, Codes
  <2>2. WorkersOK'
    BY <1>r, <1>s DEF IInv, TypeOK, WorkersOK, WorkerPlaces
  <2>3. QueuesOK'
    BY DEF IInv, TypeOK, QueuesOK, Keys, Poll, Spawn, ResetState, EndControl, GotoWith, Goto, Idle,
      Chan, Codes
  <2>4. ControlOK'
    BY DEF IInv, TypeOK, ControlOK, Spawn, ResetState, EndControl, GotoWith, Goto, Idle, Chan, Codes
  <2>5. ThreadsOK'
    BY DEF IInv, TypeOK, ThreadsOK, Places, Spawn, ResetState, EndControl, GotoWith, Goto, Idle,
      Chan, Codes
  <2>6. mode' \in Modes /\ load' \in Workloads /\ NetOK' /\ LocksOK' /\ HistoryOK'
    BY DEF IInv, TypeOK, NetOK, LocksOK, HistoryOK, Spawn, ResetState, EndControl, GotoWith, Goto,
      Idle, Chan, Codes
  <2> QED BY <2>1, <2>2, <2>3, <2>4, <2>5, <2>6 DEF TypeOK
<1>2. LifeInv'
  <2>1. workers = {}
    BY DEF IInv, LifeInv, Spawn
  <2> QED BY <1>r, <1>s, <2>1 DEF IInv, TypeOK, WorkersOK, LifeInv
<1>3. OrderInv' /\ FreshInv'
  BY QuietFrame DEF IInv, TypeOK, NetOK, WorkersOK, Spawn, ResetState, EndControl, GotoWith, Goto,
    Idle, Chan, Codes
<1>4. DispatchInv'
  BY DispatchFrame DEF IInv, TypeOK, WorkersOK, Spawn, ResetState, EndControl, GotoWith, Goto, Idle,
    Chan, Codes
<1>5. ClearIsFinal'
  BY ClearFrame DEF IInv, Spawn, ResetState, EndControl, GotoWith, Goto, Idle, Chan, Codes
<1> QED BY <1>1, <1>2, <1>3, <1>4, <1>5 DEF IInv

\* The send worker is started.
LEMMA SpawnSendIInv ==
  ASSUME IInv, SpawnSend
  PROVE  IInv'
<1>1. TypeOK'
  <2>1. FlagsOK'
    BY DEF IInv, TypeOK, FlagsOK, SpawnSend, GotoWith, Goto, Idle, Chan, Codes
  <2>2. WorkersOK'
    BY ZenonT(60) DEF IInv, TypeOK, WorkersOK, WorkerPlaces, SpawnSend, GotoWith, Goto, Idle, Chan, Codes
  <2>3. ThreadsOK'
    BY DEF IInv, TypeOK, ThreadsOK, Places, SpawnSend, GotoWith, Goto, Idle, Chan, Codes
  <2>4. mode' \in Modes /\ load' \in Workloads /\ NetOK' /\ QueuesOK' /\ ControlOK' /\ LocksOK' /\
    HistoryOK'
    BY DEF IInv, TypeOK, NetOK, QueuesOK, ControlOK, LocksOK, HistoryOK, SpawnSend, GotoWith, Goto,
      Idle, Chan, Codes
  <2> QED BY <2>1, <2>2, <2>3, <2>4 DEF TypeOK
<1>2. LifeInv'
  BY DEF IInv, TypeOK, ThreadsOK, WorkersOK, LifeInv, SpawnSend, GotoWith, Goto, Idle, Chan, Codes
<1>3. OrderInv' /\ FreshInv'
  BY QuietFrame DEF IInv, TypeOK, NetOK, WorkersOK, SpawnSend, GotoWith, Goto, Idle, Chan, Codes
<1>4. DispatchInv'
  BY DispatchFrame DEF IInv, TypeOK, WorkersOK, SpawnSend, GotoWith, Goto, Idle, Chan, Codes
<1>5. ClearIsFinal'
  BY ClearFrame DEF IInv, SpawnSend, GotoWith, Goto, Idle, Chan, Codes
<1> QED BY <1>1, <1>2, <1>3, <1>4, <1>5 DEF IInv

\* disconnect begins.
LEMMA DisconnectIInv ==
  ASSUME IInv, Disconnect
  PROVE  IInv'
<1>1. TypeOK'
  <2>1. FlagsOK'
    BY DEF IInv, TypeOK, FlagsOK, Disconnect, Call, CallWith, GotoWith, Idle, Chan, Codes
  <2>2. QueuesOK'
    BY DEF IInv, TypeOK, QueuesOK, Keys, Poll, Disconnect, Call, CallWith, GotoWith, Idle, Chan,
      Codes
  <2>3. ThreadsOK'
    BY DEF IInv, TypeOK, ThreadsOK, Places, Disconnect, Call, CallWith, GotoWith, Idle, Chan, Codes
  <2>4. mode' \in Modes /\ load' \in Workloads /\ NetOK' /\ WorkersOK' /\ ControlOK' /\ LocksOK' /\
    HistoryOK'
    BY DEF IInv, TypeOK, NetOK, WorkersOK, ControlOK, LocksOK, HistoryOK, Disconnect, Call,
      CallWith, GotoWith, Idle, Chan, Codes
  <2> QED BY <2>1, <2>2, <2>3, <2>4 DEF TypeOK
<1>2. LifeInv'
  BY DEF IInv, TypeOK, ThreadsOK, WorkersOK, LifeInv, Disconnect, Call, CallWith, GotoWith, Idle,
    Chan, Codes
<1>3. OrderInv' /\ FreshInv'
  BY QuietFrame DEF IInv, TypeOK, NetOK, WorkersOK, Disconnect, Call, CallWith, GotoWith, Idle,
    Chan, Codes
<1>4. DispatchInv'
  BY DispatchFrame DEF IInv, TypeOK, WorkersOK, Disconnect, Call, CallWith, GotoWith, Idle, Chan,
    Codes
<1>5. ClearIsFinal'
  BY ClearFrame DEF IInv, Disconnect, Call, CallWith, GotoWith, Idle, Chan, Codes
<1> QED BY <1>1, <1>2, <1>3, <1>4, <1>5 DEF IInv

\* connect opens the connections.
LEMMA ConnectIInv ==
  ASSUME IInv, Connect
  PROVE  IInv'
<1>1. TypeOK'
  <2>1. NetOK'
    <3>1. \A d \in Chan : <<Request(d, "OPEN", "open", 0)>> \in Seq(RequestSet)
      BY DEF Request, RequestSet
    <3>2. todo' \in [Chan -> Seq(RequestSet)]
      <4>1. \A d \in Chan : (IF d = Normal("receive") /\ ~Polling
                             THEN <<Request(d, "OPEN", "open", 0)>> ELSE <<>>) \in Seq(RequestSet)
        BY <3>1
      <4> QED BY <4>1 DEF Connect
    <3>3. /\ transport' \in [Chan -> {"none", "up", "lost"}] /\ net' \in [Chan -> Seq(FrameSet)]
          /\ UNCHANGED <<sent, bad>>
      BY DEF Connect
    <3> QED BY <3>2, <3>3 DEF IInv, TypeOK, NetOK
  <2>2. WorkersOK'
    BY DEF IInv, TypeOK, WorkersOK, WorkerPlaces, Connect, Call, CallWith, GotoWith, Idle, Chan,
      Codes
  <2>3. ThreadsOK'
    BY DEF IInv, TypeOK, ThreadsOK, Places, Connect, Call, CallWith, GotoWith, Idle, Chan, Codes
  <2>4. mode' \in Modes /\ load' \in Workloads /\ FlagsOK' /\ QueuesOK' /\ ControlOK' /\ LocksOK' /\
    HistoryOK'
    BY DEF IInv, TypeOK, FlagsOK, QueuesOK, ControlOK, LocksOK, HistoryOK, Connect, Call, CallWith,
      GotoWith, Idle, Chan, Codes
  <2> QED BY <2>1, <2>2, <2>3, <2>4 DEF TypeOK
<1>2. LifeInv'
  BY DEF IInv, TypeOK, ThreadsOK, WorkersOK, LifeInv, Connect, Call, CallWith, GotoWith, Idle, Chan,
    Codes
<1>3. OrderInv' /\ FreshInv'
  BY QuietFrame DEF IInv, TypeOK, NetOK, WorkersOK, Connect, Call, CallWith, GotoWith, Idle, Chan,
    Codes
<1>4. DispatchInv'
  BY DispatchFrame DEF IInv, TypeOK, WorkersOK, Connect, Call, CallWith, GotoWith, Idle, Chan, Codes
<1>5. ClearIsFinal'
  BY ClearFrame DEF IInv, Connect, Call, CallWith, GotoWith, Idle, Chan, Codes
<1> QED BY <1>1, <1>2, <1>3, <1>4, <1>5 DEF IInv

\* A raw frame is received.
LEMMA ReceiveRawIInv ==
  ASSUME IInv, NEW t \in Threads, ReceiveRaw(t)
  PROVE  IInv'
<1>1. TypeOK'
  <2>1. FlagsOK'
    BY DEF IInv, TypeOK, FlagsOK, ReceiveRaw, Call, CallWith, GotoWith, Idle, Chan, Codes
  <2>2. QueuesOK'
    BY DEF IInv, TypeOK, QueuesOK, Keys, Poll, ReceiveRaw, Call, CallWith, GotoWith, Idle, Chan,
      Codes
  <2>3. ThreadsOK'
    BY DEF IInv, TypeOK, ThreadsOK, Places, ReceiveRaw, Call, CallWith, GotoWith, Idle, Chan, Codes
  <2>4. mode' \in Modes /\ load' \in Workloads /\ NetOK' /\ WorkersOK' /\ ControlOK' /\ LocksOK' /\
    HistoryOK'
    BY DEF IInv, TypeOK, NetOK, WorkersOK, ControlOK, LocksOK, HistoryOK, ReceiveRaw, Call,
      CallWith, GotoWith, Idle, Chan, Codes
  <2> QED BY <2>1, <2>2, <2>3, <2>4 DEF TypeOK
<1>2. LifeInv'
  BY DEF IInv, TypeOK, ThreadsOK, WorkersOK, LifeInv, ReceiveRaw, Call, CallWith, GotoWith, Idle,
    Chan, Codes
<1>3. OrderInv' /\ FreshInv'
  BY QuietFrame DEF IInv, TypeOK, NetOK, WorkersOK, ReceiveRaw, Call, CallWith, GotoWith, Idle,
    Chan, Codes
<1>4. DispatchInv'
  BY DispatchFrame DEF IInv, TypeOK, WorkersOK, ReceiveRaw, Call, CallWith, GotoWith, Idle, Chan,
    Codes
<1>5. ClearIsFinal'
  BY ClearFrame DEF IInv, ReceiveRaw, Call, CallWith, GotoWith, Idle, Chan, Codes
<1> QED BY <1>1, <1>2, <1>3, <1>4, <1>5 DEF IInv

\* send begins.
LEMMA SendIInv ==
  ASSUME IInv, NEW t \in Threads, Send(t)
  PROVE  IInv'
<1>1. TypeOK'
  <2>1. ThreadsOK'
    BY DEF IInv, TypeOK, ThreadsOK, Places, Send, Call, CallWith, GotoWith, Idle, Chan, Codes
  <2>2. mode' \in Modes /\ load' \in Workloads /\ FlagsOK' /\ NetOK' /\ WorkersOK' /\ QueuesOK' /\
    ControlOK' /\ LocksOK' /\ HistoryOK'
    BY DEF IInv, TypeOK, FlagsOK, NetOK, WorkersOK, QueuesOK, ControlOK, LocksOK, HistoryOK, Send,
      Call, CallWith, GotoWith, Idle, Chan, Codes
  <2> QED BY <2>1, <2>2 DEF TypeOK
<1>2. LifeInv'
  BY DEF IInv, TypeOK, ThreadsOK, WorkersOK, LifeInv, Send, Call, CallWith, GotoWith, Idle, Chan,
    Codes
<1>3. OrderInv' /\ FreshInv'
  BY QuietFrame DEF IInv, TypeOK, NetOK, WorkersOK, Send, Call, CallWith, GotoWith, Idle, Chan,
    Codes
<1>4. DispatchInv'
  BY DispatchFrame DEF IInv, TypeOK, WorkersOK, Send, Call, CallWith, GotoWith, Idle, Chan, Codes
<1>5. ClearIsFinal'
  BY ClearFrame DEF IInv, Send, Call, CallWith, GotoWith, Idle, Chan, Codes
<1> QED BY <1>1, <1>2, <1>3, <1>4, <1>5 DEF IInv

\* send takes the command mutex.
LEMMA SendLockIInv ==
  ASSUME IInv, NEW t \in Threads, SendLock(t)
  PROVE  IInv'
<1>1. TypeOK'
  <2>1. LocksOK'
    BY DEF IInv, TypeOK, LocksOK, SendLock, GotoWith, Goto, Idle, Chan, Codes
  <2>2. ThreadsOK'
    BY DEF IInv, TypeOK, ThreadsOK, Places, SendLock, GotoWith, Goto, Idle, Chan, Codes
  <2>3. mode' \in Modes /\ load' \in Workloads /\ FlagsOK' /\ NetOK' /\ WorkersOK' /\ QueuesOK' /\
    ControlOK' /\ HistoryOK'
    BY DEF IInv, TypeOK, FlagsOK, NetOK, WorkersOK, QueuesOK, ControlOK, HistoryOK, SendLock,
      GotoWith, Goto, Idle, Chan, Codes
  <2> QED BY <2>1, <2>2, <2>3 DEF TypeOK
<1>2. LifeInv'
  BY DEF IInv, TypeOK, ThreadsOK, WorkersOK, LifeInv, SendLock, GotoWith, Goto, Idle, Chan, Codes
<1>3. OrderInv' /\ FreshInv'
  BY QuietFrame DEF IInv, TypeOK, NetOK, WorkersOK, SendLock, GotoWith, Goto, Idle, Chan, Codes
<1>4. DispatchInv'
  BY DispatchFrame DEF IInv, TypeOK, WorkersOK, SendLock, GotoWith, Goto, Idle, Chan, Codes
<1>5. ClearIsFinal'
  BY ClearFrame DEF IInv, SendLock, GotoWith, Goto, Idle, Chan, Codes
<1> QED BY <1>1, <1>2, <1>3, <1>4, <1>5 DEF IInv

\* send writes its event.
LEMMA SendWriteIInv ==
  ASSUME IInv, NEW t \in Threads, SendWrite(t)
  PROVE  IInv'
<1>w. /\ NetOK' /\ sent' = sent
      /\ \A d \in Chan : transport[d] = "none" => transport'[d] = "none"
      /\ \A d \in Chan : net'[d] = net[d] \/ net'[d] = <<>>
  <2>1. "send" \in Chan /\ Request("send", "CONFIRM", "event", 0) \in RequestSet
    BY DEF Request, RequestSet, Chan
  <2> QED BY <2>1, WriteFrame DEF IInv, TypeOK, SendWrite
<1>1. TypeOK'
  <2>1. NetOK'
    BY <1>w
  <2>2. LocksOK'
    BY DEF IInv, TypeOK, LocksOK, SendWrite, GotoWith, Goto, Idle, Chan, Codes
  <2>3. ThreadsOK'
    BY DEF IInv, TypeOK, ThreadsOK, Places, SendWrite, GotoWith, Goto, Idle, Chan, Codes
  <2>4. mode' \in Modes /\ load' \in Workloads /\ FlagsOK' /\ WorkersOK' /\ QueuesOK' /\ ControlOK'
    /\ HistoryOK'
    BY DEF IInv, TypeOK, FlagsOK, WorkersOK, QueuesOK, ControlOK, HistoryOK, SendWrite, GotoWith,
      Goto, Idle, Chan, Codes
  <2> QED BY <2>1, <2>2, <2>3, <2>4 DEF TypeOK
<1>2. LifeInv'
  BY <1>w DEF IInv, TypeOK, ThreadsOK, WorkersOK, LifeInv, SendWrite, GotoWith, Goto, Idle, Chan,
    Codes
<1>3. OrderInv' /\ FreshInv'
  BY <1>w, QuietFrame DEF IInv, TypeOK, NetOK, WorkersOK, SendWrite, GotoWith, Goto, Idle, Chan,
    Codes
<1>4. DispatchInv'
  BY DispatchFrame DEF IInv, TypeOK, WorkersOK, SendWrite, GotoWith, Goto, Idle, Chan, Codes
<1>5. ClearIsFinal'
  BY ClearFrame DEF IInv, SendWrite, GotoWith, Goto, Idle, Chan, Codes
<1> QED BY <1>1, <1>2, <1>3, <1>4, <1>5 DEF IInv

\* A call stops the client.
LEMMA CallFailsIInv ==
  ASSUME IInv, NEW t \in Threads, CallFails(t)
  PROVE  IInv'
<1>1. TypeOK'
  <2>1. FlagsOK'
    BY DEF IInv, TypeOK, FlagsOK, CallFails, ReleaseControl, GotoWith, Goto, Idle, Chan, Codes
  <2>2. LocksOK'
    BY DEF IInv, TypeOK, LocksOK, CallFails, ReleaseControl, GotoWith, Goto, Idle, Chan, Codes
  <2>3. ThreadsOK'
    BY DEF IInv, TypeOK, ThreadsOK, Places, CallFails, ReleaseControl, GotoWith, Goto, Idle, Chan,
      Codes
  <2>4. mode' \in Modes /\ load' \in Workloads /\ NetOK' /\ WorkersOK' /\ QueuesOK' /\ ControlOK' /\
    HistoryOK'
    BY DEF IInv, TypeOK, NetOK, WorkersOK, QueuesOK, ControlOK, HistoryOK, CallFails,
      ReleaseControl, GotoWith, Goto, Idle, Chan, Codes
  <2> QED BY <2>1, <2>2, <2>3, <2>4 DEF TypeOK
<1>2. LifeInv'
  BY DEF IInv, TypeOK, ThreadsOK, WorkersOK, LifeInv, CallFails, ReleaseControl, GotoWith, Goto,
    Idle, Chan, Codes
<1>3. OrderInv' /\ FreshInv'
  BY QuietFrame DEF IInv, TypeOK, NetOK, WorkersOK, CallFails, ReleaseControl, GotoWith, Goto, Idle,
    Chan, Codes
<1>4. DispatchInv'
  BY DispatchFrame DEF IInv, TypeOK, WorkersOK, CallFails, ReleaseControl, GotoWith, Goto, Idle,
    Chan, Codes
<1>5. ClearIsFinal'
  BY ClearFrame DEF IInv, CallFails, ReleaseControl, GotoWith, Goto, Idle, Chan, Codes
<1> QED BY <1>1, <1>2, <1>3, <1>4, <1>5 DEF IInv

\* A raw request begins.
LEMMA SendRawIInv ==
  ASSUME IInv, NEW t \in Threads, SendRaw(t)
  PROVE  IInv'
<1>1. TypeOK'
  <2>1. ThreadsOK'
    BY DEF IInv, TypeOK, ThreadsOK, Places, SendRaw, Channels, Call, CallWith, GotoWith, Idle, Chan,
      Codes
  <2>2. mode' \in Modes /\ load' \in Workloads /\ FlagsOK' /\ NetOK' /\ WorkersOK' /\ QueuesOK' /\
    ControlOK' /\ LocksOK' /\ HistoryOK'
    BY DEF IInv, TypeOK, FlagsOK, NetOK, WorkersOK, QueuesOK, ControlOK, LocksOK, HistoryOK,
      SendRaw, Channels, Call, CallWith, GotoWith, Idle, Chan, Codes
  <2> QED BY <2>1, <2>2 DEF TypeOK
<1>2. LifeInv'
  <2>1. running /\ pc[t] = "idle" /\ pc' = [pc EXCEPT ![t] = "rawLock"]
    BY DEF SendRaw, CallWith, GotoWith
  <2>2. UNCHANGED <<running, workers, wpc, transport, events, rawPending>>
    BY DEF SendRaw
  <2> QED BY <2>1, <2>2 DEF IInv, TypeOK, ThreadsOK, LifeInv
<1>3. OrderInv' /\ FreshInv'
  BY QuietFrame DEF IInv, TypeOK, NetOK, WorkersOK, SendRaw, Channels, Call, CallWith, GotoWith,
    Idle, Chan, Codes
<1>4. DispatchInv'
  BY DispatchFrame DEF IInv, TypeOK, WorkersOK, SendRaw, Channels, Call, CallWith, GotoWith, Idle,
    Chan, Codes
<1>5. ClearIsFinal'
  BY ClearFrame DEF IInv, SendRaw, Channels, Call, CallWith, GotoWith, Idle, Chan, Codes
<1> QED BY <1>1, <1>2, <1>3, <1>4, <1>5 DEF IInv

\* A raw request is registered, or refused.
LEMMA RawLockIInv ==
  ASSUME IInv, NEW t \in Threads, RawLock(t)
  PROVE  IInv'
<1>1. TypeOK'
  <2>1. FlagsOK'
    BY DEF IInv, TypeOK, FlagsOK, RawLock, Key, GotoWith, Goto, Idle, Chan, Codes
  <2>2. QueuesOK'
    <3>1. Key(arg[t]) \in Keys
      BY DEF IInv, TypeOK, ThreadsOK, Key, Keys
    <3>2. UNCHANGED <<events, frames, due>>
          /\ (rawPending' = rawPending \/ rawPending' = [rawPending EXCEPT ![Key(arg[t])] = @ + 1])
      BY DEF RawLock
    <3> QED BY <3>1, <3>2 DEF IInv, TypeOK, QueuesOK
  <2>3. LocksOK'
    BY DEF IInv, TypeOK, LocksOK, RawLock, Key, GotoWith, Goto, Idle, Chan, Codes
  <2>4. ThreadsOK'
    BY DEF IInv, TypeOK, ThreadsOK, Places, RawLock, Key, GotoWith, Goto, Idle, Chan, Codes
  <2>5. mode' \in Modes /\ load' \in Workloads /\ NetOK' /\ WorkersOK' /\ ControlOK' /\ HistoryOK'
    BY DEF IInv, TypeOK, NetOK, WorkersOK, ControlOK, HistoryOK, RawLock, Key, GotoWith, Goto, Idle,
      Chan, Codes
  <2> QED BY <2>1, <2>2, <2>3, <2>4, <2>5 DEF TypeOK
<1>2. LifeInv'
  BY DEF IInv, TypeOK, ThreadsOK, WorkersOK, LifeInv, RawLock, Key, GotoWith, Goto, Idle, Chan,
    Codes
<1>3. OrderInv' /\ FreshInv'
  BY QuietFrame DEF IInv, TypeOK, NetOK, WorkersOK, RawLock, Key, GotoWith, Goto, Idle, Chan, Codes
<1>4. DispatchInv'
  BY DispatchFrame DEF IInv, TypeOK, WorkersOK, RawLock, Key, GotoWith, Goto, Idle, Chan, Codes
<1>5. ClearIsFinal'
  BY ClearFrame DEF IInv, RawLock, Key, GotoWith, Goto, Idle, Chan, Codes
<1> QED BY <1>1, <1>2, <1>3, <1>4, <1>5 DEF IInv

\* A raw request is written.
LEMMA RawWriteIInv ==
  ASSUME IInv, NEW t \in Threads, RawWrite(t)
  PROVE  IInv'
<1>w. /\ NetOK' /\ sent' = sent
      /\ \A d \in Chan : transport[d] = "none" => transport'[d] = "none"
      /\ \A d \in Chan : net'[d] = net[d] \/ net'[d] = <<>>
  <2>1. arg[t].ch \in Chan /\ Request(arg[t].ch, arg[t].code, "raw", 0) \in RequestSet
    BY DEF IInv, TypeOK, ThreadsOK, Request, RequestSet
  <2> QED BY <2>1, WriteFrame DEF IInv, TypeOK, RawWrite
<1>1. TypeOK'
  <2>1. NetOK'
    BY <1>w
  <2>2. LocksOK'
    BY DEF IInv, TypeOK, LocksOK, RawWrite, GotoWith, Goto, Idle, Chan, Codes
  <2>3. ThreadsOK'
    BY DEF IInv, TypeOK, ThreadsOK, Places, RawWrite, GotoWith, Goto, Idle, Chan, Codes
  <2>4. mode' \in Modes /\ load' \in Workloads /\ FlagsOK' /\ WorkersOK' /\ QueuesOK' /\ ControlOK'
    /\ HistoryOK'
    BY DEF IInv, TypeOK, FlagsOK, WorkersOK, QueuesOK, ControlOK, HistoryOK, RawWrite, GotoWith,
      Goto, Idle, Chan, Codes
  <2> QED BY <2>1, <2>2, <2>3, <2>4 DEF TypeOK
<1>2. LifeInv'
  BY <1>w DEF IInv, TypeOK, ThreadsOK, WorkersOK, LifeInv, RawWrite, GotoWith, Goto, Idle, Chan,
    Codes
<1>3. OrderInv' /\ FreshInv'
  BY <1>w, QuietFrame DEF IInv, TypeOK, NetOK, WorkersOK, RawWrite, GotoWith, Goto, Idle, Chan,
    Codes
<1>4. DispatchInv'
  BY DispatchFrame DEF IInv, TypeOK, WorkersOK, RawWrite, GotoWith, Goto, Idle, Chan, Codes
<1>5. ClearIsFinal'
  BY ClearFrame DEF IInv, RawWrite, GotoWith, Goto, Idle, Chan, Codes
<1> QED BY <1>1, <1>2, <1>3, <1>4, <1>5 DEF IInv

\* A raw request is taken back.
LEMMA RawUnsendIInv ==
  ASSUME IInv, NEW t \in Threads, RawUnsend(t)
  PROVE  IInv'
<1>k. Key(arg[t]) \in Keys
  BY DEF IInv, TypeOK, ThreadsOK, Key, Keys
<1>u. /\ UNCHANGED <<events, frames>> /\ due' \subseteq due
      /\ \/ rawPending' = rawPending
         \/ /\ rawPending[Key(arg[t])] > 0
            /\ rawPending' = [rawPending EXCEPT ![Key(arg[t])] = @ - 1]
  BY DEF RawUnsend
<1>v. \A k \in Keys : rawPending[k] = 0 => rawPending'[k] = 0
  BY <1>k, <1>u DEF IInv, TypeOK, QueuesOK
<1>1. TypeOK'
  <2>1. QueuesOK'
    BY <1>k, <1>u DEF IInv, TypeOK, QueuesOK
  <2>2. LocksOK'
    BY DEF IInv, TypeOK, LocksOK, RawUnsend, GotoWith, Goto, Idle, Chan, Codes
  <2>3. ThreadsOK'
    BY DEF IInv, TypeOK, ThreadsOK, Places, RawUnsend, GotoWith, Goto, Idle, Chan, Codes
  <2>4. mode' \in Modes /\ load' \in Workloads /\ FlagsOK' /\ NetOK' /\ WorkersOK' /\ ControlOK' /\
    HistoryOK'
    BY DEF IInv, TypeOK, FlagsOK, NetOK, WorkersOK, ControlOK, HistoryOK, RawUnsend, GotoWith, Goto,
      Idle, Chan, Codes
  <2> QED BY <2>1, <2>2, <2>3, <2>4 DEF TypeOK
<1>2. LifeInv'
  <2>1. pc[t] = "rawUnsend" /\ pc' = [pc EXCEPT ![t] = "fail"]
    BY DEF RawUnsend, Goto, GotoWith
  <2>2. UNCHANGED <<running, workers, wpc, transport, events>>
    BY DEF RawUnsend
  <2> QED BY <1>v, <2>1, <2>2 DEF IInv, TypeOK, ThreadsOK, LifeInv
<1>3. OrderInv' /\ FreshInv'
  BY QuietFrame DEF IInv, TypeOK, NetOK, WorkersOK, RawUnsend, GotoWith, Goto, Idle, Chan, Codes
<1>4. DispatchInv'
  BY DispatchFrame DEF IInv, TypeOK, WorkersOK, RawUnsend, GotoWith, Goto, Idle, Chan, Codes
<1>5. ClearIsFinal'
  BY ClearFrame DEF IInv, RawUnsend, GotoWith, Goto, Idle, Chan, Codes
<1> QED BY <1>1, <1>2, <1>3, <1>4, <1>5 DEF IInv

\* clear begins.
LEMMA ClearIInv ==
  ASSUME IInv, NEW t \in Threads, Clear(t)
  PROVE  IInv'
<1>1. TypeOK'
  <2>1. ThreadsOK'
    BY DEF IInv, TypeOK, ThreadsOK, Places, Clear, Call, CallWith, GotoWith, Idle, Chan, Codes
  <2>2. mode' \in Modes /\ load' \in Workloads /\ FlagsOK' /\ NetOK' /\ WorkersOK' /\ QueuesOK' /\
    ControlOK' /\ LocksOK' /\ HistoryOK'
    BY DEF IInv, TypeOK, FlagsOK, NetOK, WorkersOK, QueuesOK, ControlOK, LocksOK, HistoryOK, Clear,
      Call, CallWith, GotoWith, Idle, Chan, Codes
  <2> QED BY <2>1, <2>2 DEF TypeOK
<1>2. LifeInv'
  BY DEF IInv, TypeOK, ThreadsOK, WorkersOK, LifeInv, Clear, Call, CallWith, GotoWith, Idle, Chan,
    Codes
<1>3. OrderInv' /\ FreshInv'
  BY QuietFrame DEF IInv, TypeOK, NetOK, WorkersOK, Clear, Call, CallWith, GotoWith, Idle, Chan,
    Codes
<1>4. DispatchInv'
  BY DispatchFrame DEF IInv, TypeOK, WorkersOK, Clear, Call, CallWith, GotoWith, Idle, Chan, Codes
<1>5. ClearIsFinal'
  BY ClearFrame DEF IInv, Clear, Call, CallWith, GotoWith, Idle, Chan, Codes
<1> QED BY <1>1, <1>2, <1>3, <1>4, <1>5 DEF IInv

\* clear takes the control mutex.
LEMMA ControlLockIInv ==
  ASSUME IInv, NEW t \in Threads, ControlLock(t)
  PROVE  IInv'
<1>1. TypeOK'
  <2>1. LocksOK'
    BY DEF IInv, TypeOK, LocksOK, ControlLock, GotoWith, Goto, Idle, Chan, Codes
  <2>2. ThreadsOK'
    BY DEF IInv, TypeOK, ThreadsOK, Places, ControlLock, GotoWith, Goto, Idle, Chan, Codes
  <2>3. mode' \in Modes /\ load' \in Workloads /\ FlagsOK' /\ NetOK' /\ WorkersOK' /\ QueuesOK' /\
    ControlOK' /\ HistoryOK'
    BY DEF IInv, TypeOK, FlagsOK, NetOK, WorkersOK, QueuesOK, ControlOK, HistoryOK, ControlLock,
      GotoWith, Goto, Idle, Chan, Codes
  <2> QED BY <2>1, <2>2, <2>3 DEF TypeOK
<1>2. LifeInv'
  BY DEF IInv, TypeOK, ThreadsOK, WorkersOK, LifeInv, ControlLock, GotoWith, Goto, Idle, Chan, Codes
<1>3. OrderInv' /\ FreshInv'
  BY QuietFrame DEF IInv, TypeOK, NetOK, WorkersOK, ControlLock, GotoWith, Goto, Idle, Chan, Codes
<1>4. DispatchInv'
  BY DispatchFrame DEF IInv, TypeOK, WorkersOK, ControlLock, GotoWith, Goto, Idle, Chan, Codes
<1>5. ClearIsFinal'
  BY ClearFrame DEF IInv, ControlLock, GotoWith, Goto, Idle, Chan, Codes
<1> QED BY <1>1, <1>2, <1>3, <1>4, <1>5 DEF IInv

\* clear registers its request.
LEMMA ControlBeginIInv ==
  ASSUME IInv, NEW t \in Threads, ControlBegin(t)
  PROVE  IInv'
<1>1. TypeOK'
  <2>1. ControlOK'
    BY DEF IInv, TypeOK, ControlOK, ControlBegin, GotoWith, Goto, Idle, Chan, Codes
  <2>2. LocksOK'
    BY DEF IInv, TypeOK, LocksOK, ControlBegin, GotoWith, Goto, Idle, Chan, Codes
  <2>3. ThreadsOK'
    BY DEF IInv, TypeOK, ThreadsOK, Places, ControlBegin, GotoWith, Goto, Idle, Chan, Codes
  <2>4. mode' \in Modes /\ load' \in Workloads /\ FlagsOK' /\ NetOK' /\ WorkersOK' /\ QueuesOK' /\
    HistoryOK'
    BY DEF IInv, TypeOK, FlagsOK, NetOK, WorkersOK, QueuesOK, HistoryOK, ControlBegin, GotoWith,
      Goto, Idle, Chan, Codes
  <2> QED BY <2>1, <2>2, <2>3, <2>4 DEF TypeOK
<1>2. LifeInv'
  BY DEF IInv, TypeOK, ThreadsOK, WorkersOK, LifeInv, ControlBegin, GotoWith, Goto, Idle, Chan,
    Codes
<1>3. OrderInv' /\ FreshInv'
  BY QuietFrame DEF IInv, TypeOK, NetOK, WorkersOK, ControlBegin, GotoWith, Goto, Idle, Chan, Codes
<1>4. DispatchInv'
  BY DispatchFrame DEF IInv, TypeOK, WorkersOK, ControlBegin, GotoWith, Goto, Idle, Chan, Codes
<1>5. ClearIsFinal'
  BY ClearFrame DEF IInv, ControlBegin, GotoWith, Goto, Idle, Chan, Codes
<1> QED BY <1>1, <1>2, <1>3, <1>4, <1>5 DEF IInv

\* clear writes its request.
LEMMA ControlWriteIInv ==
  ASSUME IInv, NEW t \in Threads, ControlWrite(t)
  PROVE  IInv'
<1>w. /\ NetOK' /\ sent' = sent
      /\ \A d \in Chan : transport[d] = "none" => transport'[d] = "none"
      /\ \A d \in Chan : net'[d] = net[d] \/ net'[d] = <<>>
  <2>1. Normal("receive") \in Chan
    BY NormalIsChan DEF Chan
  <2>2. Request(Normal("receive"), "CLEAR", "control", asked) \in RequestSet
    BY <2>1 DEF IInv, TypeOK, ControlOK, Request, RequestSet, Codes
  <2> QED BY <2>1, <2>2, WriteFrame DEF IInv, TypeOK, ControlWrite
<1>1. TypeOK'
  <2>1. NetOK'
    BY <1>w
  <2>2. LocksOK'
    BY DEF IInv, TypeOK, LocksOK, ControlWrite, GotoWith, Goto, Idle, Chan, Codes
  <2>3. ThreadsOK'
    BY DEF IInv, TypeOK, ThreadsOK, Places, ControlWrite, GotoWith, Goto, Idle, Chan, Codes
  <2>4. mode' \in Modes /\ load' \in Workloads /\ FlagsOK' /\ WorkersOK' /\ QueuesOK' /\ ControlOK'
    /\ HistoryOK'
    BY DEF IInv, TypeOK, FlagsOK, WorkersOK, QueuesOK, ControlOK, HistoryOK, ControlWrite, GotoWith,
      Goto, Idle, Chan, Codes
  <2> QED BY <2>1, <2>2, <2>3, <2>4 DEF TypeOK
<1>2. LifeInv'
  BY <1>w DEF IInv, TypeOK, ThreadsOK, WorkersOK, LifeInv, ControlWrite, GotoWith, Goto, Idle, Chan,
    Codes
<1>3. OrderInv' /\ FreshInv'
  BY <1>w, QuietFrame DEF IInv, TypeOK, NetOK, WorkersOK, ControlWrite, GotoWith, Goto, Idle, Chan,
    Codes
<1>4. DispatchInv'
  BY DispatchFrame DEF IInv, TypeOK, WorkersOK, ControlWrite, GotoWith, Goto, Idle, Chan, Codes
<1>5. ClearIsFinal'
  BY ClearFrame DEF IInv, ControlWrite, GotoWith, Goto, Idle, Chan, Codes
<1> QED BY <1>1, <1>2, <1>3, <1>4, <1>5 DEF IInv

\* clear takes its request back.
LEMMA ControlUnsetIInv ==
  ASSUME IInv, NEW t \in Threads, ControlUnset(t)
  PROVE  IInv'
<1>1. TypeOK'
  <2>1. ControlOK'
    BY DEF IInv, TypeOK, ControlOK, ControlUnset, EndControl, GotoWith, Goto, Idle, Chan, Codes
  <2>2. ThreadsOK'
    BY DEF IInv, TypeOK, ThreadsOK, Places, ControlUnset, EndControl, GotoWith, Goto, Idle, Chan,
      Codes
  <2>3. mode' \in Modes /\ load' \in Workloads /\ FlagsOK' /\ NetOK' /\ WorkersOK' /\ QueuesOK' /\
    LocksOK' /\ HistoryOK'
    BY DEF IInv, TypeOK, FlagsOK, NetOK, WorkersOK, QueuesOK, LocksOK, HistoryOK, ControlUnset,
      EndControl, GotoWith, Goto, Idle, Chan, Codes
  <2> QED BY <2>1, <2>2, <2>3 DEF TypeOK
<1>2. LifeInv'
  BY DEF IInv, TypeOK, ThreadsOK, WorkersOK, LifeInv, ControlUnset, EndControl, GotoWith, Goto,
    Idle, Chan, Codes
<1>3. OrderInv' /\ FreshInv'
  BY QuietFrame DEF IInv, TypeOK, NetOK, WorkersOK, ControlUnset, EndControl, GotoWith, Goto, Idle,
    Chan, Codes
<1>4. DispatchInv'
  BY DispatchFrame DEF IInv, TypeOK, WorkersOK, ControlUnset, EndControl, GotoWith, Goto, Idle,
    Chan, Codes
<1>5. ClearIsFinal'
  BY ClearFrame DEF IInv, ControlUnset, EndControl, GotoWith, Goto, Idle, Chan, Codes
<1> QED BY <1>1, <1>2, <1>3, <1>4, <1>5 DEF IInv

\* clear returns.
LEMMA ControlReturnsIInv ==
  ASSUME IInv, NEW t \in Threads, ControlReturns(t)
  PROVE  IInv'
<1>1. TypeOK'
  <2>1. ControlOK'
    BY DEF IInv, TypeOK, ControlOK, ControlReturns, EndControl, GotoWith, Goto, Idle, Chan, Codes
  <2>2. LocksOK'
    BY DEF IInv, TypeOK, LocksOK, ControlReturns, EndControl, GotoWith, Goto, Idle, Chan, Codes
  <2>3. ThreadsOK'
    BY DEF IInv, TypeOK, ThreadsOK, Places, ControlReturns, EndControl, GotoWith, Goto, Idle, Chan,
      Codes
  <2>4. mode' \in Modes /\ load' \in Workloads /\ FlagsOK' /\ NetOK' /\ WorkersOK' /\ QueuesOK' /\
    HistoryOK'
    BY DEF IInv, TypeOK, FlagsOK, NetOK, WorkersOK, QueuesOK, HistoryOK, ControlReturns, EndControl,
      GotoWith, Goto, Idle, Chan, Codes
  <2> QED BY <2>1, <2>2, <2>3, <2>4 DEF TypeOK
<1>2. LifeInv'
  BY DEF IInv, TypeOK, ThreadsOK, WorkersOK, LifeInv, ControlReturns, EndControl, GotoWith, Goto,
    Idle, Chan, Codes
<1>3. OrderInv' /\ FreshInv'
  BY QuietFrame DEF IInv, TypeOK, NetOK, WorkersOK, ControlReturns, EndControl, GotoWith, Goto,
    Idle, Chan, Codes
<1>4. DispatchInv'
  BY DispatchFrame DEF IInv, TypeOK, WorkersOK, ControlReturns, EndControl, GotoWith, Goto, Idle,
    Chan, Codes
<1>5. ClearIsFinal'
  BY ClearFrame DEF IInv, ControlReturns, EndControl, GotoWith, Goto, Idle, Chan, Codes
<1> QED BY <1>1, <1>2, <1>3, <1>4, <1>5 DEF IInv

\* clear waits no longer.
LEMMA ControlTimeoutIInv ==
  ASSUME IInv, NEW t \in Threads, ControlTimeout(t)
  PROVE  IInv'
<1>1. TypeOK'
  <2>1. ControlOK'
    BY DEF IInv, TypeOK, ControlOK, ControlTimeout, EndControl, GotoWith, Goto, Idle, Chan, Codes
  <2>2. ThreadsOK'
    BY DEF IInv, TypeOK, ThreadsOK, Places, ControlTimeout, EndControl, GotoWith, Goto, Idle, Chan,
      Codes
  <2>3. mode' \in Modes /\ load' \in Workloads /\ FlagsOK' /\ NetOK' /\ WorkersOK' /\ QueuesOK' /\
    LocksOK' /\ HistoryOK'
    BY DEF IInv, TypeOK, FlagsOK, NetOK, WorkersOK, QueuesOK, LocksOK, HistoryOK, ControlTimeout,
      EndControl, GotoWith, Goto, Idle, Chan, Codes
  <2> QED BY <2>1, <2>2, <2>3 DEF TypeOK
<1>2. LifeInv'
  BY DEF IInv, TypeOK, ThreadsOK, WorkersOK, LifeInv, ControlTimeout, EndControl, GotoWith, Goto,
    Idle, Chan, Codes
<1>3. OrderInv' /\ FreshInv'
  BY QuietFrame DEF IInv, TypeOK, NetOK, WorkersOK, ControlTimeout, EndControl, GotoWith, Goto,
    Idle, Chan, Codes
<1>4. DispatchInv'
  BY DispatchFrame DEF IInv, TypeOK, WorkersOK, ControlTimeout, EndControl, GotoWith, Goto, Idle,
    Chan, Codes
<1>5. ClearIsFinal'
  BY ClearFrame DEF IInv, ControlTimeout, EndControl, GotoWith, Goto, Idle, Chan, Codes
<1> QED BY <1>1, <1>2, <1>3, <1>4, <1>5 DEF IInv

\* The reply to a poll is processed.
LEMMA ProcessPollReplyIInv ==
  ASSUME IInv, NEW c \in Chan, ProcessPollReply(c)
  PROVE  IInv'
<1>1. TypeOK'
  <2>1. FlagsOK'
    BY DEF IInv, TypeOK, FlagsOK, ProcessPollReply, WGoto, HoldsFrame, NoFrame
  <2>2. WorkersOK'
    BY DEF IInv, TypeOK, WorkersOK, WorkerPlaces, ProcessPollReply, WGoto, HoldsFrame, NoFrame
  <2>3. QueuesOK'
    BY DEF IInv, TypeOK, QueuesOK, Keys, Poll, ProcessPollReply, WGoto, HoldsFrame, NoFrame
  <2>4. mode' \in Modes /\ load' \in Workloads /\ NetOK' /\ ControlOK' /\ LocksOK' /\ ThreadsOK' /\
    HistoryOK'
    BY DEF IInv, TypeOK, NetOK, ControlOK, LocksOK, ThreadsOK, HistoryOK, ProcessPollReply, WGoto,
      HoldsFrame, NoFrame
  <2> QED BY <2>1, <2>2, <2>3, <2>4 DEF TypeOK
<1>2. LifeInv'
  BY DEF IInv, TypeOK, ThreadsOK, WorkersOK, LifeInv, ProcessPollReply, WGoto, HoldsFrame, NoFrame
<1>3. OrderInv' /\ FreshInv'
  BY QuietFrame DEF IInv, TypeOK, NetOK, WorkersOK, ProcessPollReply, WGoto, HoldsFrame, NoFrame
<1>4. DispatchInv'
  <2>1. hand[c].ok = "event" => EventIn(hand[c]) > 0
    BY HeldBrings DEF IInv, TypeOK, WorkersOK
  <2> QED BY <2>1 DEF IInv, TypeOK, WorkersOK, DispatchInv, ProcessPollReply, WGoto, HoldsFrame
<1>5. ClearIsFinal'
  BY ClearFrame DEF IInv, ProcessPollReply, WGoto, HoldsFrame, NoFrame
<1> QED BY <1>1, <1>2, <1>3, <1>4, <1>5 DEF IInv

\* An event is processed.
LEMMA ProcessEventIInv ==
  ASSUME IInv, NEW c \in Chan, ProcessEvent(c)
  PROVE  IInv'
<1>1. TypeOK'
  <2>1. FlagsOK'
    BY DEF IInv, TypeOK, FlagsOK, ProcessEvent, WriteFails, WGoto, HoldsFrame, NoFrame
  <2>2. NetOK'
    <3>1. CASE WriteFails(c)
      BY <3>1 DEF IInv, TypeOK, NetOK, WriteFails
    <3>2. CASE UNCHANGED netVars
      BY <3>2 DEF IInv, TypeOK, NetOK
    <3> QED BY <3>1, <3>2 DEF ProcessEvent
  <2>3. WorkersOK'
    BY DEF IInv, TypeOK, WorkersOK, WorkerPlaces, ProcessEvent, WriteFails, WGoto, HoldsFrame,
      NoFrame
  <2>4. mode' \in Modes /\ load' \in Workloads /\ QueuesOK' /\ ControlOK' /\ LocksOK' /\ ThreadsOK'
    /\ HistoryOK'
    BY DEF IInv, TypeOK, QueuesOK, ControlOK, LocksOK, ThreadsOK, HistoryOK, ProcessEvent,
      WriteFails, WGoto, HoldsFrame, NoFrame
  <2> QED BY <2>1, <2>2, <2>3, <2>4 DEF TypeOK
<1>2. LifeInv'
  BY DEF IInv, TypeOK, ThreadsOK, WorkersOK, LifeInv, ProcessEvent, WriteFails, WGoto, HoldsFrame,
    NoFrame
<1>3. OrderInv' /\ FreshInv'
  BY QuietFrame DEF IInv, TypeOK, NetOK, WorkersOK, ProcessEvent, WriteFails, WGoto, HoldsFrame,
    NoFrame
<1>4. DispatchInv'
  <2>1. EventIn(hand[c]) > 0
    BY HeldBrings DEF IInv, TypeOK, WorkersOK, ProcessEvent
  <2>2. hand' = hand \/ hand' = [hand EXCEPT ![c] = NoFrame]
    BY DEF ProcessEvent, WGoto
  <2>3. \E l \in {"fail", "dispatch"} : wpc' = [wpc EXCEPT ![c] = l] /\ hand' = hand
    BY DEF ProcessEvent, WGoto, HoldsFrame
  <2> QED BY <2>1, <2>3 DEF IInv, TypeOK, WorkersOK, DispatchInv
<1>5. ClearIsFinal'
  BY ClearFrame DEF IInv, ProcessEvent, WriteFails, WGoto, HoldsFrame, NoFrame
<1> QED BY <1>1, <1>2, <1>3, <1>4, <1>5 DEF IInv

\* Another reply is processed.
LEMMA ProcessOtherReplyIInv ==
  ASSUME IInv, NEW c \in Chan, ProcessOtherReply(c)
  PROVE  IInv'
<1>h. hand[c] \in FrameSet
  BY DEF IInv, TypeOK, WorkersOK, ProcessOtherReply, NoFrame
<1>f. Append(frames, hand[c]) \in Seq(FrameSet)
  BY <1>h, Appended DEF IInv, TypeOK, QueuesOK
<1>u. /\ UNCHANGED events /\ due' \subseteq due /\ (frames' = frames \/ frames' = Append(frames, hand[c]))
      /\ \/ rawPending' = rawPending
         \/ /\ hand[c].code \in Codes /\ rawPending[<<c, hand[c].code>>] > 0
            /\ rawPending' = [rawPending EXCEPT ![<<c, hand[c].code>>] = @ - 1]
  BY DEF ProcessOtherReply
<1>v. /\ rawPending' \in [Keys -> Nat]
      /\ \A k \in Keys : rawPending[k] = 0 => rawPending'[k] = 0
  <2>1. CASE rawPending' = rawPending
    BY <2>1 DEF IInv, TypeOK, QueuesOK
  <2>2. CASE rawPending' # rawPending
    <3>1. <<c, hand[c].code>> \in Keys
      BY <1>u, <2>2 DEF Keys
    <3>2. PICK k \in Keys : rawPending[k] > 0 /\ rawPending' = [rawPending EXCEPT ![k] = @ - 1]
      BY <1>u, <2>2, <3>1
    <3> QED BY <3>2 DEF IInv, TypeOK, QueuesOK
  <2> QED BY <2>1, <2>2
<1>1. TypeOK'
  <2>1. WorkersOK'
    BY DEF IInv, TypeOK, WorkersOK, WorkerPlaces, ProcessOtherReply, WGoto, HoldsFrame, NoFrame
  <2>2. QueuesOK'
    BY <1>f, <1>u, <1>v DEF IInv, TypeOK, QueuesOK
  <2>3. mode' \in Modes /\ load' \in Workloads /\ FlagsOK' /\ NetOK' /\ ControlOK' /\ LocksOK' /\
    ThreadsOK' /\ HistoryOK'
    BY DEF IInv, TypeOK, FlagsOK, NetOK, ControlOK, LocksOK, ThreadsOK, HistoryOK,
      ProcessOtherReply, WGoto, HoldsFrame, NoFrame
  <2> QED BY <2>1, <2>2, <2>3 DEF TypeOK
<1>2. LifeInv'
  <2>1. wpc[c] = "frame" /\ \E l \in WorkerPlaces : wpc' = [wpc EXCEPT ![c] = l]
    BY DEF ProcessOtherReply, WGoto, WorkerPlaces
  <2>2. UNCHANGED <<running, workers, pc, transport, events>>
    BY DEF ProcessOtherReply
  <2> QED BY <1>v, <2>1, <2>2 DEF IInv, TypeOK, WorkersOK, LifeInv
<1>3. OrderInv' /\ FreshInv'
  BY QuietFrame DEF IInv, TypeOK, NetOK, WorkersOK, ProcessOtherReply, WGoto, HoldsFrame, NoFrame
<1>4. DispatchInv'
  BY DispatchFrame DEF IInv, TypeOK, WorkersOK, ProcessOtherReply, WGoto, HoldsFrame, NoFrame
<1>5. ClearIsFinal'
  BY ClearFrame DEF IInv, ProcessOtherReply, WGoto, HoldsFrame, NoFrame
<1> QED BY <1>1, <1>2, <1>3, <1>4, <1>5 DEF IInv

\* What the server's answer puts on connection c: an event in it is new and
\* comes first.
ReplyArrives(c) ==
  /\ sent' \in [Chan -> Nat] /\ net' \in [Chan -> Seq(FrameSet)]
  /\ \A d \in Chan \ {c} : net'[d] = net[d] /\ sent'[d] = sent[d]
  /\ sent'[c] \in Nat /\ sent[c] <= sent'[c]
  /\ Len(net'[c]) \in Nat /\ Len(net[c]) <= Len(net'[c])
  /\ \A i \in 1 .. Len(net[c]) : net'[c][i] = net[c][i]
  /\ \A i \in 1 .. Len(net'[c]) : i > Len(net[c]) =>
       /\ net'[c][i].ev \in Nat /\ net'[c][i].ev <= sent'[c]
       /\ EventIn(net'[c][i]) > 0 => net'[c][i].ev > sent[c] /\ i = Len(net[c]) + 1

\* A single frame that brings no event, or a new one.
LEMMA OneArrives ==
  ASSUME NetOK, NEW c \in Chan, NEW f \in FrameSet, net' = [net EXCEPT ![c] = @ \o <<f>>],
         sent' \in [Chan -> Nat], sent[c] <= sent'[c],
         \A d \in Chan \ {c} : sent'[d] = sent[d],
         f.ev \in Nat, f.ev <= sent'[c], EventIn(f) > 0 => f.ev > sent[c]
  PROVE  ReplyArrives(c)
<1>1. net[c] \in Seq(FrameSet) /\ net'[c] = net[c] \o <<f>>
      /\ \A d \in Chan \ {c} : net'[d] = net[d]
  BY DEF NetOK
<1>2. /\ net'[c] \in Seq(FrameSet) /\ Len(net[c]) \in Nat /\ Len(net'[c]) = Len(net[c]) + 1
      /\ \A i \in 1 .. Len(net[c]) : net'[c][i] = net[c][i]
      /\ net'[c][Len(net[c]) + 1] = f
  BY <1>1, JoinedOne
<1>3. \A i \in 1 .. Len(net'[c]) : i > Len(net[c]) => i = Len(net[c]) + 1
  BY <1>2
<1>4. net' \in [Chan -> Seq(FrameSet)]
  BY <1>1, <1>2 DEF NetOK
<1> QED BY <1>1, <1>2, <1>3, <1>4 DEF ReplyArrives

\* A new event and a frame after it that brings none.
LEMMA TwoArrive ==
  ASSUME NetOK, NEW c \in Chan, NEW e \in FrameSet, NEW f \in FrameSet,
         net' = [net EXCEPT ![c] = @ \o <<e, f>>],
         sent' \in [Chan -> Nat], sent[c] <= sent'[c],
         \A d \in Chan \ {c} : sent'[d] = sent[d],
         e.ev \in Nat, e.ev <= sent'[c], e.ev > sent[c], f.ev = 0, ~(EventIn(f) > 0)
  PROVE  ReplyArrives(c)
<1>1. net[c] \in Seq(FrameSet) /\ net'[c] = net[c] \o <<e, f>>
      /\ \A d \in Chan \ {c} : net'[d] = net[d]
  BY DEF NetOK
<1>2. /\ net'[c] \in Seq(FrameSet) /\ Len(net[c]) \in Nat /\ Len(net'[c]) = Len(net[c]) + 2
      /\ \A i \in 1 .. Len(net[c]) : net'[c][i] = net[c][i]
      /\ net'[c][Len(net[c]) + 1] = e /\ net'[c][Len(net[c]) + 2] = f
  BY <1>1, JoinedTwo
<1>3. \A i \in 1 .. Len(net'[c]) : i > Len(net[c]) => i \in {Len(net[c]) + 1, Len(net[c]) + 2}
  BY <1>2
<1>4. net' \in [Chan -> Seq(FrameSet)]
  BY <1>1, <1>2 DEF NetOK
<1>5. sent'[c] \in Nat /\ 0 <= sent'[c]
  OBVIOUS
<1> QED BY <1>1, <1>2, <1>3, <1>4, <1>5 DEF ReplyArrives

\* The server's answer is such an arrival: a reply, an event in the reply to a
\* poll, or an event before that reply.
LEMMA ServerRepliesArrive ==
  ASSUME IInv, NEW c \in Chan, ServerReplies(c)
  PROVE  ReplyArrives(c)
<1> DEFINE r == Head(todo[c])
<1>1. NetOK /\ sent \in [Chan -> Nat] /\ sent[c] \in Nat
  BY DEF IInv, TypeOK, NetOK
<1>2. r \in RequestSet
  <2>1. todo[c] \in Seq(RequestSet) /\ todo[c] # <<>>
    BY DEF IInv, TypeOK, NetOK, ServerReplies
  <2> QED BY <2>1, Popped
<1> HIDE DEF r
<1>3. CASE \E ok \in {IF r.by = "poll" THEN "empty" ELSE "ok", "error", "bad"} :
             /\ Deliver(c, <<Reply(r, IF r.by = "control" THEN sent[c] ELSE 0, ok)>>)
             /\ UNCHANGED sent
  <2>1. PICK ok \in {"ok", "empty", "error", "bad"}, ev \in {0, sent[c]} :
          net' = [net EXCEPT ![c] = @ \o <<Reply(r, ev, ok)>>] /\ sent' = sent
    BY <1>3 DEF Deliver
  <2>2. ev \in Nat /\ ev <= sent[c]
    BY <1>1
  <2>3. /\ Reply(r, ev, ok) \in FrameSet /\ Reply(r, ev, ok).ev = ev
        /\ ~(EventIn(Reply(r, ev, ok)) > 0)
    BY <1>2, <2>2, ReplyIsFrame
  <2>4. PICK f \in FrameSet : /\ net' = [net EXCEPT ![c] = @ \o <<f>>]
                              /\ f.ev \in Nat /\ f.ev <= sent[c] /\ ~(EventIn(f) > 0)
    BY <2>1, <2>2, <2>3
  <2>5. sent' \in [Chan -> Nat] /\ sent[c] <= sent'[c] /\ sent' = sent
    BY <1>1, <2>1
  <2> QED BY <1>1, <2>4, <2>5, OneArrives
<1>4. CASE /\ r.by = "poll" /\ sent' = [sent EXCEPT ![c] = @ + 1]
           /\ Deliver(c, <<Reply(r, sent'[c], "event")>>)
  <2>1. /\ sent' \in [Chan -> Nat] /\ sent'[c] = sent[c] + 1
        /\ \A d \in Chan \ {c} : sent'[d] = sent[d]
    BY <1>1, <1>4
  <2>2. /\ Reply(r, sent[c] + 1, "event") \in FrameSet
        /\ Reply(r, sent[c] + 1, "event").ev = sent[c] + 1
    BY <1>1, <1>2, <1>4, ReplyIsFrame
  <2>3. net' = [net EXCEPT ![c] = @ \o <<Reply(r, sent[c] + 1, "event")>>]
    BY <1>4, <2>1 DEF Deliver
  <2>4. PICK f \in FrameSet : net' = [net EXCEPT ![c] = @ \o <<f>>] /\ f.ev = sent[c] + 1
    BY <2>2, <2>3
  <2>5. f.ev \in Nat /\ f.ev <= sent'[c] /\ f.ev > sent[c] /\ sent[c] <= sent'[c]
    BY <1>1, <2>1, <2>4
  <2> QED BY <1>1, <2>1, <2>4, <2>5, OneArrives
<1>5. CASE /\ r.by = "poll" /\ sent' = [sent EXCEPT ![c] = @ + 1]
           /\ Deliver(c, <<Event(sent'[c], "ok"), Reply(r, 0, "ok")>>)
  <2>1. /\ sent' \in [Chan -> Nat] /\ sent'[c] = sent[c] + 1
        /\ \A d \in Chan \ {c} : sent'[d] = sent[d]
    BY <1>1, <1>5
  <2>2. Event(sent[c] + 1, "ok") \in FrameSet /\ Event(sent[c] + 1, "ok").ev = sent[c] + 1
    BY <1>1, EventIsFrame
  <2>3. /\ Reply(r, 0, "ok") \in FrameSet /\ Reply(r, 0, "ok").ev = 0
        /\ ~(EventIn(Reply(r, 0, "ok")) > 0)
    BY <1>2, ReplyIsFrame
  <2>4. net' = [net EXCEPT ![c] = @ \o <<Event(sent[c] + 1, "ok"), Reply(r, 0, "ok")>>]
    BY <1>5, <2>1 DEF Deliver
  <2>5. PICK e \in FrameSet, f \in FrameSet :
          /\ net' = [net EXCEPT ![c] = @ \o <<e, f>>]
          /\ e.ev = sent[c] + 1 /\ f.ev = 0 /\ ~(EventIn(f) > 0)
    BY <2>2, <2>3, <2>4
  <2>6. e.ev \in Nat /\ e.ev <= sent'[c] /\ e.ev > sent[c] /\ sent[c] <= sent'[c]
    BY <1>1, <2>1, <2>5
  <2> QED BY <1>1, <2>1, <2>5, <2>6, TwoArrive
<1> QED BY <1>3, <1>4, <1>5 DEF ServerReplies, r

\* An event is such an arrival.
LEMMA ServerEventArrives ==
  ASSUME IInv, NEW c \in Chan, ServerEvent(c)
  PROVE  ReplyArrives(c)
<1>s. /\ NetOK /\ sent[c] \in Nat /\ sent' \in [Chan -> Nat] /\ sent'[c] = sent[c] + 1
      /\ \A d \in Chan \ {c} : sent'[d] = sent[d]
  BY DEF IInv, TypeOK, NetOK, ServerEvent
<1>e. PICK f \in FrameSet : net' = [net EXCEPT ![c] = @ \o <<f>>] /\ f.ev = sent[c] + 1
  <2>1. PICK ok \in {"ok", "bad"} : net' = [net EXCEPT ![c] = @ \o <<Event(sent[c] + 1, ok)>>]
    BY <1>s DEF ServerEvent, Deliver
  <2>2. Event(sent[c] + 1, ok) \in FrameSet /\ Event(sent[c] + 1, ok).ev = sent[c] + 1
    BY <1>s, EventIsFrame
  <2> QED BY <2>1, <2>2
<1>1. f.ev \in Nat /\ f.ev <= sent'[c] /\ f.ev > sent[c] /\ sent[c] <= sent'[c]
  BY <1>s, <1>e
<1> QED BY <1>s, <1>e, <1>1, OneArrives

\* The server sends an event.
LEMMA ServerEventIInv ==
  ASSUME IInv, NEW c \in Chan, ServerEvent(c)
  PROVE  IInv'
<1>a. ReplyArrives(c)
  BY ServerEventArrives
<1>1. TypeOK'
  <2>1. NetOK'
    <3>1. bad' \in Nat /\ UNCHANGED <<transport, todo>>
      BY DEF IInv, TypeOK, NetOK, ServerEvent, Faulty
    <3> QED BY <1>a, <3>1 DEF IInv, TypeOK, NetOK, ReplyArrives
  <2>2. mode' \in Modes /\ load' \in Workloads /\ FlagsOK' /\ WorkersOK' /\ QueuesOK' /\ ControlOK'
    /\ LocksOK' /\ ThreadsOK' /\ HistoryOK'
    BY DEF IInv, TypeOK, FlagsOK, WorkersOK, QueuesOK, ControlOK, LocksOK, ThreadsOK, HistoryOK,
      ServerEvent
  <2> QED BY <2>1, <2>2 DEF TypeOK
<1>2. LifeInv'
  BY DEF IInv, LifeInv, ServerEvent
<1>3. OrderInv' /\ FreshInv'
  <2>1. UNCHANGED <<mode, hand, buffered, barrier>>
    BY DEF ServerEvent
  <2> QED BY <1>a, <2>1, Arrives DEF IInv, ReplyArrives
<1>4. DispatchInv'
  BY DispatchFrame DEF IInv, TypeOK, WorkersOK, ServerEvent
<1>5. ClearIsFinal'
  BY ClearFrame DEF IInv, ServerEvent
<1> QED BY <1>1, <1>2, <1>3, <1>4, <1>5 DEF IInv

\* The server answers a request.
LEMMA ServerRepliesIInv ==
  ASSUME IInv, NEW c \in Chan, ServerReplies(c)
  PROVE  IInv'
<1>s. sent[c] \in Nat /\ net[c] \in Seq(FrameSet) /\ sent \in [Chan -> Nat]
      /\ net \in [Chan -> Seq(FrameSet)]
  BY DEF IInv, TypeOK, NetOK
<1>a. ReplyArrives(c)
  BY ServerRepliesArrive
<1>1. TypeOK'
  <2>1. NetOK'
    <3>1. todo' \in [Chan -> Seq(RequestSet)]
      <4>1. todo[c] \in Seq(RequestSet) /\ todo[c] # <<>> /\ todo' = [todo EXCEPT ![c] = Tail(@)]
        BY DEF IInv, TypeOK, NetOK, ServerReplies
      <4>2. Tail(todo[c]) \in Seq(RequestSet)
        BY <4>1, Popped
      <4> QED BY <4>1, <4>2 DEF IInv, TypeOK, NetOK
    <3>2. bad' \in Nat /\ transport' = transport
      BY DEF IInv, TypeOK, NetOK, ServerReplies, Faulty
    <3> QED BY <1>a, <3>1, <3>2 DEF IInv, TypeOK, NetOK, ReplyArrives
  <2>2. mode' \in Modes /\ load' \in Workloads /\ FlagsOK' /\ WorkersOK' /\ QueuesOK' /\ ControlOK'
    /\ LocksOK' /\ ThreadsOK' /\ HistoryOK'
    BY DEF IInv, TypeOK, FlagsOK, WorkersOK, QueuesOK, ControlOK, LocksOK, ThreadsOK, HistoryOK,
      ServerReplies
  <2> QED BY <2>1, <2>2 DEF TypeOK
<1>2. LifeInv'
  BY DEF IInv, LifeInv, ServerReplies
<1>3. OrderInv' /\ FreshInv'
  <2>1. UNCHANGED <<mode, hand, buffered, barrier>>
    BY DEF ServerReplies
  <2> QED BY <1>a, <2>1, Arrives DEF IInv, ReplyArrives
<1>4. DispatchInv'
  BY DispatchFrame DEF IInv, TypeOK, WorkersOK, ServerReplies
<1>5. ClearIsFinal'
  BY ClearFrame DEF IInv, ServerReplies
<1> QED BY <1>1, <1>2, <1>3, <1>4, <1>5 DEF IInv

\* An event is received.
LEMMA ReceiveIInv ==
  ASSUME IInv, NEW t \in Threads, Receive(t)
  PROVE  IInv'
<1>s. events \in Seq([ch : Chan, n : Nat]) /\ events # <<>> /\ events' = Tail(events)
  BY DEF IInv, TypeOK, QueuesOK, Receive
<1>p. /\ events' \in Seq([ch : Chan, n : Nat]) /\ Head(events) \in [ch : Chan, n : Nat]
      /\ Len(events) \in Nat /\ Len(events') = Len(events) - 1
      /\ \A i \in 1 .. Len(events) - 1 : events'[i] = events[i + 1]
  <2> DEFINE S == [ch : Chan, n : Nat]
  <2>1. events \in Seq(S)
    BY <1>s
  <2> HIDE DEF S
  <2>2. /\ events' \in Seq(S) /\ Head(events) \in S
        /\ Len(events) \in Nat /\ Len(events') = Len(events) - 1
        /\ \A i \in 1 .. Len(events) - 1 : events'[i] = events[i + 1]
    BY <1>s, <2>1, Popped
  <2> QED BY <2>2 DEF S
<1>1. TypeOK'
  <2>1. QueuesOK'
    BY <1>p DEF IInv, TypeOK, QueuesOK, Receive
  <2>2. ThreadsOK'
    BY DEF IInv, TypeOK, ThreadsOK, Places, Receive, Call, CallWith, GotoWith, Idle, Chan, Codes
  <2>3. HistoryOK'
    BY <1>p DEF IInv, TypeOK, HistoryOK, Receive
  <2>4. mode' \in Modes /\ load' \in Workloads /\ FlagsOK' /\ NetOK' /\ WorkersOK' /\ ControlOK' /\
    LocksOK'
    BY DEF IInv, TypeOK, FlagsOK, NetOK, WorkersOK, ControlOK, LocksOK, Receive, Call, CallWith,
      GotoWith, Idle, Chan, Codes
  <2> QED BY <2>1, <2>2, <2>3, <2>4 DEF TypeOK
<1>2. LifeInv'
  <2>1. pc' = pc /\ events # <<>> /\ UNCHANGED <<running, workers, wpc, transport, rawPending>>
    BY DEF IInv, TypeOK, ThreadsOK, Receive, Call, CallWith, GotoWith
  <2> QED BY <2>1 DEF IInv, LifeInv
<1>3. OrderInv' /\ FreshInv'
  BY QuietFrame DEF IInv, TypeOK, NetOK, WorkersOK, Receive, Call, CallWith, GotoWith, Idle, Chan,
    Codes
<1>4. DispatchInv'
  BY DispatchFrame DEF IInv, TypeOK, WorkersOK, Receive, Call, CallWith, GotoWith, Idle, Chan, Codes
<1>5. ClearIsFinal'
  <2>1. DOMAIN events = 1 .. Len(events) /\ DOMAIN events' = 1 .. Len(events')
    BY <1>s, <1>p
  <2>2. \A i \in DOMAIN events' : i + 1 \in DOMAIN events /\ events'[i] = events[i + 1]
    BY <1>p, <2>1
  <2>3. UNCHANGED <<mode, barrier>>
    BY DEF Receive
  <2> QED BY <2>2, <2>3 DEF IInv, ClearIsFinal, Normal
<1> QED BY <1>1, <1>2, <1>3, <1>4, <1>5 DEF IInv

\* An event is dispatched: it is newer than the last clear.
LEMMA DispatchIInv ==
  ASSUME IInv, NEW c \in Chan, Dispatch(c)
  PROVE  IInv'
<1>h. EventIn(hand[c]) > 0 /\ hand[c].ev \in Nat
  BY DEF IInv, TypeOK, WorkersOK, DispatchInv, Dispatch, FrameSet, NoFrame
<1>s. /\ events \in Seq([ch : Chan, n : Nat]) /\ [ch |-> c, n |-> hand[c].ev] \in [ch : Chan, n : Nat]
      /\ \/ events' = events
         \/ running /\ events' = Append(events, [ch |-> c, n |-> hand[c].ev])
  BY <1>h DEF IInv, TypeOK, QueuesOK, Dispatch
<1>p. running /\ events' = Append(events, [ch |-> c, n |-> hand[c].ev]) =>
      /\ events' \in Seq([ch : Chan, n : Nat])
      /\ Len(events) \in Nat /\ Len(events') = Len(events) + 1
      /\ \A i \in 1 .. Len(events) : events'[i] = events[i]
      /\ events'[Len(events) + 1] = [ch |-> c, n |-> hand[c].ev]
  <2> DEFINE S == [ch : Chan, n : Nat]
  <2>1. events \in Seq(S) /\ [ch |-> c, n |-> hand[c].ev] \in S
    BY <1>s
  <2> HIDE DEF S
  <2>2. running /\ events' = Append(events, [ch |-> c, n |-> hand[c].ev]) =>
          /\ events' \in Seq(S)
          /\ Len(events) \in Nat /\ Len(events') = Len(events) + 1
          /\ \A i \in 1 .. Len(events) : events'[i] = events[i]
          /\ events'[Len(events) + 1] = [ch |-> c, n |-> hand[c].ev]
    BY <2>1, Appended
  <2> QED BY <2>2 DEF S
<1>1. TypeOK'
  <2>1. WorkersOK'
    BY DEF IInv, TypeOK, WorkersOK, WorkerPlaces, Dispatch, WGoto, HoldsFrame, NoFrame
  <2>2. QueuesOK'
    BY <1>s, <1>p DEF IInv, TypeOK, QueuesOK, Dispatch
  <2>3. mode' \in Modes /\ load' \in Workloads /\ FlagsOK' /\ NetOK' /\ ControlOK' /\ LocksOK' /\
    ThreadsOK' /\ HistoryOK'
    BY DEF IInv, TypeOK, FlagsOK, NetOK, ControlOK, LocksOK, ThreadsOK, HistoryOK, Dispatch, WGoto,
      HoldsFrame, NoFrame
  <2> QED BY <2>1, <2>2, <2>3 DEF TypeOK
<1>2. LifeInv'
  <2>1. wpc[c] = "dispatch" /\ \E l \in WorkerPlaces : wpc' = [wpc EXCEPT ![c] = l]
    BY DEF Dispatch, WGoto, WorkerPlaces
  <2>2. /\ UNCHANGED <<running, workers, pc, transport, rawPending>>
        /\ events' = events \/ running
    BY DEF Dispatch
  <2> QED BY <2>1, <2>2 DEF IInv, TypeOK, WorkersOK, LifeInv
<1>3. OrderInv' /\ FreshInv'
  BY QuietFrame DEF IInv, TypeOK, NetOK, WorkersOK, Dispatch, WGoto, HoldsFrame, NoFrame
<1>4. DispatchInv'
  BY DispatchFrame DEF IInv, TypeOK, WorkersOK, Dispatch, WGoto, HoldsFrame, NoFrame
<1>5. ClearIsFinal'
  <2>1. CASE events' = events
    BY <2>1, ClearFrame DEF IInv, Dispatch
  <2>2. CASE running /\ events' = Append(events, [ch |-> c, n |-> hand[c].ev])
    <3>1. DOMAIN events = 1 .. Len(events) /\ DOMAIN events' = 1 .. Len(events')
      BY <1>s, <1>p, <2>2
    <3>2. \A i \in DOMAIN events' :
            \/ i \in DOMAIN events /\ events'[i] = events[i]
            \/ events'[i].ch = c /\ events'[i].n = hand[c].ev
      BY <1>p, <2>2, <3>1
    <3>3. c = Normal("receive") => hand[c].ev > barrier
      BY <1>h DEF IInv, FreshInv, After
    <3>4. UNCHANGED <<mode, barrier>>
      BY DEF Dispatch
    <3> QED BY <3>2, <3>3, <3>4 DEF IInv, ClearIsFinal, Normal
  <2> QED BY <1>s, <2>1, <2>2
<1> QED BY <1>1, <1>2, <1>3, <1>4, <1>5 DEF IInv

\* The reply to a clear is processed: what is older than it is gone.
LEMMA ProcessControlReplyIInv ==
  ASSUME IInv, NEW c \in Chan, ProcessControlReply(c)
  PROVE  IInv'
<1>h. /\ c = Normal("receive") /\ hand[c].n \in Nat /\ hand[c].ev \in Nat
  BY DEF IInv, TypeOK, WorkersOK, ProcessControlReply, IsControlReply, FrameSet, NoFrame
<1>b. \/ barrier' = barrier /\ (events' = events \/ events' = <<>>)
      \/ barrier' = hand[c].ev /\ events' = <<>> /\ hand' = [hand EXCEPT ![c] = NoFrame]
  BY DEF ProcessControlReply, WGoto, HoldsFrame
<1>1. TypeOK'
  <2>1. WorkersOK'
    BY DEF IInv, TypeOK, WorkersOK, WorkerPlaces, ProcessControlReply, WGoto, HoldsFrame, NoFrame
  <2>2. QueuesOK'
    <3>1. events' = events \/ events' = <<>>
      BY <1>b
    <3>2. UNCHANGED <<frames, rawPending, due>>
      BY DEF ProcessControlReply
    <3>3. events' \in Seq([ch : Chan, n : Nat])
      <4>1. CASE events' = events
        BY <4>1 DEF IInv, TypeOK, QueuesOK
      <4>2. CASE events' = <<>>
        BY <4>2
      <4> QED BY <3>1, <4>1, <4>2
    <3> QED BY <3>2, <3>3 DEF IInv, TypeOK, QueuesOK
  <2>3. ControlOK'
    BY <1>h DEF IInv, TypeOK, ControlOK, ProcessControlReply
  <2>4. HistoryOK'
    BY <1>h DEF IInv, TypeOK, HistoryOK, ProcessControlReply
  <2>5. mode' \in Modes /\ load' \in Workloads /\ FlagsOK' /\ NetOK' /\ LocksOK' /\ ThreadsOK'
    BY DEF IInv, TypeOK, FlagsOK, NetOK, LocksOK, ThreadsOK, ProcessControlReply, WGoto, HoldsFrame,
      NoFrame
  <2> QED BY <2>1, <2>2, <2>3, <2>4, <2>5 DEF TypeOK
<1>2. LifeInv'
  <2>1. wpc[c] = "frame" /\ \E l \in WorkerPlaces : wpc' = [wpc EXCEPT ![c] = l]
    BY DEF ProcessControlReply, WGoto, WorkerPlaces
  <2>2. /\ UNCHANGED <<running, workers, pc, transport, rawPending>>
        /\ events' = events \/ events' = <<>>
    BY <1>b DEF ProcessControlReply
  <2> QED BY <2>1, <2>2 DEF IInv, TypeOK, WorkersOK, LifeInv
<1>3. OrderInv' /\ FreshInv'
  <2>1. /\ UNCHANGED <<mode, sent, net, buffered>>
        /\ \A d \in Chan : hand'[d] = hand[d] \/ hand'[d] = NoFrame
    BY DEF IInv, TypeOK, WorkersOK, ProcessControlReply, WGoto
  <2>2. OrderInv' /\ (barrier' = barrier => FreshInv')
    BY <2>1, QuietFrame DEF IInv
  <2>3. ASSUME barrier' # barrier PROVE FreshInv'
    <3>1. /\ barrier' = hand[c].ev /\ hand'[c] = NoFrame /\ Normal("receive")' = c
      BY <1>h, <1>b, <2>1, <2>3 DEF IInv, TypeOK, WorkersOK, Normal
    <3>2. barrier' <= sent[c]
      BY <3>1 DEF IInv, OrderInv
    <3>3. EventIn(hand'[c]) > 0 => hand'[c].ev > barrier'
      BY <3>1 DEF NoFrame, EventIn
    <3>4. \A f : Before(hand[c], f) /\ f \in FrameSet => (EventIn(f) > 0 => f.ev > barrier')
      BY <1>h, <3>1 DEF Before, FrameSet
    <3>5. \A i \in 1 .. Len(net[c]) : Before(hand[c], net[c][i]) /\ net[c][i] \in FrameSet
      <4>1. \A i \in 1 .. Len(net[c]) : net[c][i] \in FrameSet
        BY DEF IInv, TypeOK, NetOK
      <4> QED BY <4>1 DEF IInv, OrderInv
    <3>6. \A i \in 1 .. Len(buffered) : Before(hand[c], buffered[i]) /\ buffered[i] \in FrameSet
      BY <1>h DEF IInv, TypeOK, WorkersOK, OrderInv
    <3> QED BY <2>1, <3>1, <3>2, <3>3, <3>4, <3>5, <3>6 DEF FreshInv, After
  <2> QED BY <2>2, <2>3
<1>4. DispatchInv'
  BY DispatchFrame DEF IInv, TypeOK, WorkersOK, ProcessControlReply, WGoto, HoldsFrame, NoFrame
<1>5. ClearIsFinal'
  <2>1. CASE events' = <<>>
    BY <2>1 DEF ClearIsFinal
  <2>2. CASE barrier' = barrier /\ events' = events
    BY <2>2, ClearFrame DEF IInv, ProcessControlReply
  <2> QED BY <1>b, <2>1, <2>2
<1> QED BY <1>1, <1>2, <1>3, <1>4, <1>5 DEF IInv

\* A worker reads a frame: one that is kept, or the next on its way.
LEMMA WorkerReadsIInv ==
  ASSUME IInv, NEW c \in Chan, WorkerReads(c)
  PROVE  IInv'
<1>s. net[c] \in Seq(FrameSet) /\ buffered \in Seq(FrameSet) /\ hand \in [Chan -> FrameSet \cup {NoFrame}]
  BY DEF IInv, TypeOK, NetOK, WorkersOK
<1>k. /\ UNCHANGED <<mode, sent, barrier, transport, todo, bad>>
      /\ wpc[c] = "top" /\ (Early(c) \/ net[c] # <<>>)
      /\ \/ wpc' = [wpc EXCEPT ![c] = "frame"] \/ wpc' = [wpc EXCEPT ![c] = "done"]
  BY DEF WorkerReads, WGoto
<1>e. Early(c) =>
      /\ c = Normal("receive") /\ net' = net /\ seen' = seen
      /\ buffered # <<>> /\ buffered' = Tail(buffered)
      /\ \E f \in {Head(buffered), NoFrame} : hand' = [hand EXCEPT ![c] = f]
  BY DEF WorkerReads, Early, WGoto, HoldsFrame
<1>l. ~Early(c) =>
      /\ c = Normal("receive") => buffered = <<>>
      /\ buffered' = buffered /\ net' = [net EXCEPT ![c] = Tail(@)] /\ net[c] # <<>>
      /\ \E f \in {Head(net[c]), NoFrame} : hand' = [hand EXCEPT ![c] = f]
      /\ seen' \in {seen, [seen EXCEPT ![c] = Head(net[c]).ev]}
  BY DEF WorkerReads, Early, Seen, WGoto, HoldsFrame
<1>p. Early(c) =>
      /\ buffered' \in Seq(FrameSet) /\ Len(buffered) \in Nat /\ Len(buffered') = Len(buffered) - 1
      /\ Len(buffered) >= 1
      /\ \A i \in 1 .. Len(buffered) - 1 : buffered'[i] = buffered[i + 1]
      /\ Head(buffered) = buffered[1] /\ Head(buffered) \in FrameSet
  BY <1>s, <1>e, Popped
<1>q. ~Early(c) =>
      /\ net'[c] = Tail(net[c]) /\ \A d \in Chan \ {c} : net'[d] = net[d]
      /\ net'[c] \in Seq(FrameSet) /\ Len(net[c]) \in Nat /\ Len(net'[c]) = Len(net[c]) - 1
      /\ Len(net[c]) >= 1
      /\ \A i \in 1 .. Len(net[c]) - 1 : net'[c][i] = net[c][i + 1]
      /\ Head(net[c]) = net[c][1] /\ Head(net[c]) \in FrameSet
  <2>1. ~Early(c) => net'[c] = Tail(net[c]) /\ \A d \in Chan \ {c} : net'[d] = net[d]
    BY <1>l DEF IInv, TypeOK, NetOK
  <2>2. CASE ~Early(c)
    <3>1. net[c] \in Seq(FrameSet) /\ net[c] # <<>> /\ net'[c] = Tail(net[c])
      BY <1>s, <1>l, <2>1, <2>2
    <3>2. /\ net'[c] \in Seq(FrameSet) /\ Len(net[c]) \in Nat /\ Len(net'[c]) = Len(net[c]) - 1
          /\ Len(net[c]) >= 1
          /\ \A i \in 1 .. Len(net[c]) - 1 : net'[c][i] = net[c][i + 1]
          /\ Head(net[c]) = net[c][1] /\ Head(net[c]) \in FrameSet
      BY <3>1, Popped
    <3> QED BY <2>1, <2>2, <3>2
  <2> QED BY <2>2
<1>1. TypeOK'
  <2>1. NetOK'
    <3>1. CASE Early(c)
      BY <1>k, <1>e, <3>1 DEF IInv, TypeOK, NetOK
    <3>2. CASE ~Early(c)
      BY <1>k, <1>l, <1>q, <3>2 DEF IInv, TypeOK, NetOK
    <3> QED BY <3>1, <3>2
  <2>2. WorkersOK'
    <3>1. workers' = workers /\ wpc' \in [Chan -> WorkerPlaces]
      BY <1>k DEF IInv, TypeOK, WorkersOK, WorkerPlaces, WorkerReads
    <3>2. hand' \in [Chan -> FrameSet \cup {NoFrame}] /\ buffered' \in Seq(FrameSet)
      BY <1>s, <1>e, <1>l, <1>p, <1>q, SMTT(30)
    <3> QED BY <3>1, <3>2 DEF IInv, TypeOK, WorkersOK
  <2>3. HistoryOK'
    <3>1. ~Early(c) => Head(net[c]).ev \in Nat
      BY <1>q DEF FrameSet
    <3> QED BY <1>k, <1>e, <1>l, <3>1 DEF IInv, TypeOK, HistoryOK, WorkerReads
  <2>4. mode' \in Modes /\ load' \in Workloads /\ FlagsOK' /\ QueuesOK' /\ ControlOK' /\ LocksOK' /\
    ThreadsOK'
    BY DEF IInv, TypeOK, FlagsOK, QueuesOK, ControlOK, LocksOK, ThreadsOK, WorkerReads, WGoto,
      HoldsFrame, NoFrame
  <2> QED BY <2>1, <2>2, <2>3, <2>4 DEF TypeOK
<1>2. LifeInv'
  <2>1. UNCHANGED <<running, workers, pc, transport, rawPending, events>>
    BY DEF WorkerReads
  <2> QED BY <1>k, <2>1 DEF IInv, TypeOK, WorkersOK, LifeInv
<1>3. OrderInv' /\ FreshInv'
  <2>1. CASE Early(c)
    <3> DEFINE f == hand'[c]
    <3>1. f = buffered[1] \/ f = NoFrame
      BY <1>s, <1>e, <1>p, <2>1
    <3>2. \A d \in Chan \ {c} : hand'[d] = hand[d]
      BY <1>s, <1>e, <2>1
    <3>3. \A i \in 1 .. Len(buffered') : /\ i + 1 \in 1 .. Len(buffered)
                                          /\ buffered'[i] = buffered[i + 1]
                                          /\ 1 \in 1 .. i + 1 - 1
      BY <1>p, <2>1
    <3>4. 1 \in 1 .. Len(buffered)
      BY <1>p, <2>1
    <3>5. /\ buffered[1].ev <= sent[c] /\ After(buffered[1])
          /\ \A i \in 1 .. Len(net[c]) : Before(buffered[1], net[c][i])
          /\ \A i \in 1 .. Len(buffered') : Before(buffered[1], buffered'[i])
      BY <1>e, <2>1, <3>3, <3>4 DEF IInv, OrderInv, FreshInv
    <3>6. /\ NoFrame.ev <= sent[c] /\ After(NoFrame)
          /\ \A i \in 1 .. Len(net[c]) : Before(NoFrame, net[c][i])
          /\ \A i \in 1 .. Len(buffered') : Before(NoFrame, buffered'[i])
      <4>1. \A i \in 1 .. Len(net[c]) : net[c][i] \in FrameSet
        BY <1>s
      <4>2. \A i \in 1 .. Len(buffered') : buffered'[i] \in FrameSet
        BY <1>p, <2>1
      <4>3. NoFrame.ev = 0 /\ After(NoFrame) /\ sent[c] \in Nat
        BY DEF IInv, TypeOK, NetOK, NoFrame, After, EventIn
      <4> QED BY <4>1, <4>2, <4>3, NoFrameFirst
    <3>7. \A d \in Chan : \A i \in 1 .. Len(net'[d]) :
            i + 0 \in 1 .. Len(net[d]) /\ net'[d][i] = net[d][i + 0]
      BY <1>e, <2>1 DEF IInv, TypeOK, NetOK
    <3>8. \A d \in Chan :
            \/ hand'[d] = hand[d]
            \/ /\ hand'[d].ev <= sent[d]
               /\ \A i \in 1 .. Len(net'[d]) : Before(hand'[d], net'[d][i])
               /\ After(hand'[d])
               /\ \A i \in 1 .. Len(buffered') : Before(hand'[d], buffered'[i])
      BY <1>e, <2>1, <3>1, <3>2, <3>5, <3>6
    <3>9. /\ \A d \in Chan : \E k \in Nat : \A i \in 1 .. Len(net'[d]) :
               i + k \in 1 .. Len(net[d]) /\ net'[d][i] = net[d][i + k]
          /\ \E k \in Nat : \A i \in 1 .. Len(buffered') :
               i + k \in 1 .. Len(buffered) /\ buffered'[i] = buffered[i + k]
      BY <3>3, <3>7
    <3> QED BY <1>k, <3>8, <3>9, OrderFrame DEF IInv
  <2>2. CASE ~Early(c)
    <3>1. hand'[c] = net[c][1] \/ hand'[c] = NoFrame
      BY <1>s, <1>l, <1>q, <2>2
    <3>2. \A d \in Chan \ {c} : hand'[d] = hand[d]
      BY <1>s, <1>l, <2>2
    <3>3. \A i \in 1 .. Len(net'[c]) : /\ i + 1 \in 1 .. Len(net[c])
                                        /\ net'[c][i] = net[c][i + 1]
                                        /\ 1 \in 1 .. i + 1 - 1
      BY <1>q, <2>2
    <3>4. 1 \in 1 .. Len(net[c])
      BY <1>q, <2>2
    <3>5. /\ net[c][1].ev <= sent[c] /\ (c = Normal("receive") => After(net[c][1]))
          /\ \A i \in 1 .. Len(net'[c]) : Before(net[c][1], net'[c][i])
      BY <3>3, <3>4 DEF IInv, OrderInv, FreshInv
    <3>6. /\ NoFrame.ev <= sent[c] /\ After(NoFrame)
          /\ \A i \in 1 .. Len(net'[c]) : Before(NoFrame, net'[c][i])
      <4>1. \A i \in 1 .. Len(net'[c]) : net'[c][i] \in FrameSet
        BY <1>q, <2>2
      <4>2. NoFrame.ev = 0 /\ After(NoFrame) /\ sent[c] \in Nat
        BY DEF IInv, TypeOK, NetOK, NoFrame, After, EventIn
      <4> QED BY <4>1, <4>2, NoFrameFirst
    <3>7. \A d \in Chan : \E k \in Nat : \A i \in 1 .. Len(net'[d]) :
            i + k \in 1 .. Len(net[d]) /\ net'[d][i] = net[d][i + k]
      <4> SUFFICES ASSUME NEW d \in Chan
                   PROVE  \E k \in Nat : \A i \in 1 .. Len(net'[d]) :
                            i + k \in 1 .. Len(net[d]) /\ net'[d][i] = net[d][i + k]
        OBVIOUS
      <4>1. CASE d = c
        BY <3>3, <4>1
      <4>2. CASE d # c
        <5>1. \A i \in 1 .. Len(net'[d]) : i + 0 \in 1 .. Len(net[d]) /\ net'[d][i] = net[d][i + 0]
          BY <1>q, <2>2, <4>2 DEF IInv, TypeOK, NetOK
        <5> QED BY <5>1
      <4> QED BY <4>1, <4>2
    <3>8. \A i \in 1 .. Len(buffered') :
            i + 0 \in 1 .. Len(buffered) /\ buffered'[i] = buffered[i + 0]
      BY <1>s, <1>l, <2>2
    <3>9. c = Normal("receive") => Len(buffered') = 0
      BY <1>l, <2>2
    <3>10. \A d \in Chan :
            \/ hand'[d] = hand[d]
            \/ /\ hand'[d].ev <= sent[d]
               /\ \A i \in 1 .. Len(net'[d]) : Before(hand'[d], net'[d][i])
               /\ d = Normal("receive") =>
                    /\ After(hand'[d])
                    /\ \A i \in 1 .. Len(buffered') : Before(hand'[d], buffered'[i])
      BY <3>1, <3>2, <3>5, <3>6, <3>9
    <3>11. \E k \in Nat : \A i \in 1 .. Len(buffered') :
             i + k \in 1 .. Len(buffered) /\ buffered'[i] = buffered[i + k]
      BY <3>8
    <3> QED BY <1>k, <3>7, <3>10, <3>11, OrderFrame DEF IInv
  <2> QED BY <2>1, <2>2
<1>4. DispatchInv'
  <2>1. \A d \in Chan : d # c => hand'[d] = hand[d]
    BY <1>s, <1>e, <1>l
  <2> QED BY <1>k, <2>1, DispatchFrame DEF IInv, TypeOK, WorkersOK
<1>5. ClearIsFinal'
  BY ClearFrame DEF IInv, WorkerReads, WGoto, HoldsFrame, NoFrame
<1> QED BY <1>1, <1>2, <1>3, <1>4, <1>5 DEF IInv

\* connect reads a frame: the reply to OPEN, or one it keeps for the worker.
LEMMA OpenReadsIInv ==
  ASSUME IInv, OpenReads
  PROVE  IInv'
<1>r. PICK c \in Chan : c = Normal("receive")
  BY NormalIsChan DEF Chan
<1>s. net[c] \in Seq(FrameSet) /\ buffered \in Seq(FrameSet) /\ sent[c] \in Nat
  BY DEF IInv, TypeOK, NetOK, WorkersOK
<1>k. /\ UNCHANGED <<mode, sent, barrier, hand, transport, todo, bad, running, workers, wpc, events,
                     rawPending, last>>
      /\ net[c] # <<>> /\ net' = [net EXCEPT ![c] = Tail(@)]
      /\ pc[Owner] = "opening" /\ seen' \in {seen, [seen EXCEPT ![c] = Head(net[c]).ev]}
      /\ \/ buffered' = buffered /\ pc'[Owner] \in {"spawn", "closeFailed"}
         \/ buffered' = Append(buffered, Head(net[c])) /\ pc' = pc
  BY <1>r DEF IInv, TypeOK, ThreadsOK, OpenReads, Seen, Goto, GotoWith
<1>q. /\ net'[c] = Tail(net[c]) /\ \A d \in Chan \ {c} : net'[d] = net[d]
      /\ net'[c] \in Seq(FrameSet) /\ Len(net[c]) \in Nat /\ Len(net'[c]) = Len(net[c]) - 1
      /\ Len(net[c]) >= 1
      /\ \A i \in 1 .. Len(net[c]) - 1 : net'[c][i] = net[c][i + 1]
      /\ Head(net[c]) = net[c][1] /\ Head(net[c]) \in FrameSet
  <2>1. net'[c] = Tail(net[c]) /\ \A d \in Chan \ {c} : net'[d] = net[d]
    BY <1>k DEF IInv, TypeOK, NetOK
  <2>2. net[c] \in Seq(FrameSet) /\ net[c] # <<>> /\ net'[c] = Tail(net[c])
    BY <1>s, <1>k, <2>1
  <2>3. /\ net'[c] \in Seq(FrameSet) /\ Len(net[c]) \in Nat /\ Len(net'[c]) = Len(net[c]) - 1
        /\ Len(net[c]) >= 1
        /\ \A i \in 1 .. Len(net[c]) - 1 : net'[c][i] = net[c][i + 1]
        /\ Head(net[c]) = net[c][1] /\ Head(net[c]) \in FrameSet
    BY <2>2, Popped
  <2> QED BY <2>1, <2>3
<1>b. buffered' = Append(buffered, net[c][1]) =>
      /\ buffered' \in Seq(FrameSet) /\ Len(buffered) \in Nat /\ Len(buffered') = Len(buffered) + 1
      /\ \A i \in 1 .. Len(buffered) : buffered'[i] = buffered[i]
      /\ buffered'[Len(buffered) + 1] = net[c][1]
  BY <1>s, <1>q, Appended
<1>i. \A i \in 1 .. Len(net'[c]) : /\ i + 1 \in 1 .. Len(net[c]) /\ net'[c][i] = net[c][i + 1]
                                      /\ 1 \in 1 .. i + 1 - 1
  BY <1>q
<1>1. TypeOK'
  <2>1. NetOK'
    BY <1>k, <1>q DEF IInv, TypeOK, NetOK
  <2>2. WorkersOK'
    BY <1>k, <1>q, <1>b DEF IInv, TypeOK, WorkersOK
  <2>3. ThreadsOK'
    BY DEF IInv, TypeOK, ThreadsOK, Places, OpenReads, GotoWith, Goto, Idle, Chan, Codes
  <2>4. HistoryOK'
    <3>1. Head(net[c]).ev \in Nat
      BY <1>q DEF FrameSet
    <3> QED BY <1>k, <3>1 DEF IInv, TypeOK, HistoryOK
  <2>5. mode' \in Modes /\ load' \in Workloads /\ FlagsOK' /\ QueuesOK' /\ ControlOK' /\ LocksOK'
    BY DEF IInv, TypeOK, FlagsOK, QueuesOK, ControlOK, LocksOK, OpenReads, GotoWith, Goto, Idle,
      Chan, Codes
  <2> QED BY <2>1, <2>2, <2>3, <2>4, <2>5 DEF TypeOK
<1>2. LifeInv'
  <2>1. workers = {}
    BY <1>k DEF IInv, LifeInv
  <2> QED BY <1>k, <2>1 DEF IInv, TypeOK, WorkersOK, LifeInv
<1>3. OrderInv' /\ FreshInv'
  <2>1. CASE buffered' = buffered
    <3>1. \A d \in Chan : \E k \in Nat : \A i \in 1 .. Len(net'[d]) :
            i + k \in 1 .. Len(net[d]) /\ net'[d][i] = net[d][i + k]
      <4> SUFFICES ASSUME NEW d \in Chan
                   PROVE  \E k \in Nat : \A i \in 1 .. Len(net'[d]) :
                            i + k \in 1 .. Len(net[d]) /\ net'[d][i] = net[d][i + k]
        OBVIOUS
      <4>1. CASE d = c
        BY <1>i, <4>1
      <4>2. CASE d # c
        <5>1. \A i \in 1 .. Len(net'[d]) : i + 0 \in 1 .. Len(net[d]) /\ net'[d][i] = net[d][i + 0]
          BY <1>q, <4>2 DEF IInv, TypeOK, NetOK
        <5> QED BY <5>1
      <4> QED BY <4>1, <4>2
    <3>2. \E k \in Nat : \A i \in 1 .. Len(buffered') :
            i + k \in 1 .. Len(buffered) /\ buffered'[i] = buffered[i + k]
      <4>1. \A i \in 1 .. Len(buffered') :
              i + 0 \in 1 .. Len(buffered) /\ buffered'[i] = buffered[i + 0]
        BY <1>s, <2>1
      <4> QED BY <4>1
    <3>3. \A d \in Chan : hand'[d] = hand[d]
      BY <1>k
    <3> QED BY <1>k, <3>1, <3>2, <3>3, OrderFrame DEF IInv
  <2>2. CASE buffered' = Append(buffered, net[c][1])
    <3>1. 1 \in 1 .. Len(net[c])
      BY <1>q
    <3>2. \A i \in 1 .. Len(net'[c]) :
            /\ net'[c][i].ev <= sent[c] /\ Before(hand[c], net'[c][i]) /\ After(net'[c][i])
            /\ Before(net[c][1], net'[c][i])
            /\ \A j \in 1 .. i - 1 : Before(net'[c][j], net'[c][i])
      <4> SUFFICES ASSUME NEW i \in 1 .. Len(net'[c])
                   PROVE  /\ net'[c][i].ev <= sent[c] /\ Before(hand[c], net'[c][i])
                          /\ After(net'[c][i]) /\ Before(net[c][1], net'[c][i])
                          /\ \A j \in 1 .. i - 1 : Before(net'[c][j], net'[c][i])
        OBVIOUS
      <4>1. /\ net[c][i + 1].ev <= sent[c] /\ Before(hand[c], net[c][i + 1])
            /\ After(net[c][i + 1])
            /\ \A j \in 1 .. i + 1 - 1 : Before(net[c][j], net[c][i + 1])
        BY <1>r, <1>i DEF IInv, OrderInv, FreshInv
      <4>2. \A j \in 1 .. i - 1 : j \in 1 .. Len(net'[c]) /\ j + 1 \in 1 .. i + 1 - 1
        BY <1>q
      <4> QED BY <1>i, <4>1, <4>2
    <3>3. /\ net[c][1].ev <= sent[c] /\ Before(hand[c], net[c][1]) /\ After(net[c][1])
      BY <1>r, <3>1 DEF IInv, OrderInv, FreshInv
    <3>4. \A i \in 1 .. Len(buffered) :
            /\ buffered[i].ev <= sent[c] /\ Before(hand[c], buffered[i]) /\ After(buffered[i])
            /\ \A j \in 1 .. i - 1 : Before(buffered[j], buffered[i])
            /\ \A j \in 1 .. Len(net[c]) : Before(buffered[i], net[c][j])
      BY <1>r DEF IInv, OrderInv, FreshInv
    <3>5. \A i \in 1 .. Len(buffered') :
            \/ /\ i \in 1 .. Len(buffered) /\ buffered'[i] = buffered[i]
               /\ \A j \in 1 .. i - 1 : j \in 1 .. Len(buffered) /\ buffered'[j] = buffered[j]
            \/ /\ buffered'[i] = net[c][1]
               /\ \A j \in 1 .. i - 1 : j \in 1 .. Len(buffered) /\ buffered'[j] = buffered[j]
      BY <1>b, <2>2
    <3>6. \A i \in 1 .. Len(buffered') :
            /\ buffered'[i].ev <= sent[c] /\ Before(hand[c], buffered'[i]) /\ After(buffered'[i])
            /\ \A j \in 1 .. i - 1 : Before(buffered'[j], buffered'[i])
            /\ \A j \in 1 .. Len(net'[c]) : Before(buffered'[i], net'[c][j])
      <4> SUFFICES ASSUME NEW i \in 1 .. Len(buffered')
                   PROVE  /\ buffered'[i].ev <= sent[c] /\ Before(hand[c], buffered'[i])
                          /\ After(buffered'[i])
                          /\ \A j \in 1 .. i - 1 : Before(buffered'[j], buffered'[i])
                          /\ \A j \in 1 .. Len(net'[c]) : Before(buffered'[i], net'[c][j])
        OBVIOUS
      <4>1. CASE i \in 1 .. Len(buffered) /\ buffered'[i] = buffered[i]
        BY <1>i, <3>4, <3>5, <4>1
      <4>2. CASE /\ buffered'[i] = net[c][1]
                 /\ \A j \in 1 .. i - 1 : j \in 1 .. Len(buffered) /\ buffered'[j] = buffered[j]
        BY <3>1, <3>2, <3>3, <3>4, <4>2
      <4> QED BY <3>5, <4>1, <4>2
    <3>7. Normal("receive")' = c /\ (\A d \in Chan : hand[d].ev <= sent[d])
      BY <1>r, <1>k DEF IInv, OrderInv, Normal
    <3>8. \A d \in Chan \ {c} : \A i \in 1 .. Len(net[d]) :
            /\ net[d][i].ev <= sent[d] /\ Before(hand[d], net[d][i])
            /\ \A j \in 1 .. i - 1 : Before(net[d][j], net[d][i])
      BY DEF IInv, OrderInv
    <3>9. OrderInv'
      <4>1. \A d \in Chan : \A i \in 1 .. Len(net'[d]) :
              /\ net'[d][i].ev <= sent'[d] /\ Before(hand'[d], net'[d][i])
              /\ \A j \in 1 .. i - 1 : Before(net'[d][j], net'[d][i])
        <5> SUFFICES ASSUME NEW d \in Chan
                     PROVE  \A i \in 1 .. Len(net'[d]) :
                              /\ net'[d][i].ev <= sent'[d] /\ Before(hand'[d], net'[d][i])
                              /\ \A j \in 1 .. i - 1 : Before(net'[d][j], net'[d][i])
          OBVIOUS
        <5>1. sent' = sent /\ hand' = hand /\ (d # c => net'[d] = net[d])
          BY <1>k, <1>q
        <5>2. CASE d = c
          BY <3>2, <5>1, <5>2
        <5>3. CASE d # c
          BY <3>8, <5>1, <5>3
        <5> QED BY <5>2, <5>3
      <4>2. sent' = sent /\ hand' = hand
        BY <1>k
      <4> QED BY <3>6, <3>7, <4>1, <4>2 DEF OrderInv
    <3>10. barrier <= sent[c] /\ After(hand[c])
      BY <1>r DEF IInv, FreshInv
    <3>11. FreshInv'
      BY <1>k, <3>2, <3>6, <3>7, <3>10 DEF FreshInv, After
    <3> QED BY <3>9, <3>11
  <2> QED BY <1>k, <1>q, <2>1, <2>2
<1>4. DispatchInv'
  BY <1>k, DispatchFrame DEF IInv
<1>5. ClearIsFinal'
  BY <1>k, ClearFrame DEF IInv
<1> QED BY <1>1, <1>2, <1>3, <1>4, <1>5 DEF IInv

\* The invariant holds at first: nothing is open.
LEMMA InitIInv == Init => IInv
<1> SUFFICES ASSUME Init PROVE IInv
  OBVIOUS
<1>1. FlagsOK
  BY DEF Init, FlagsOK
<1>2. NetOK /\ WorkersOK
  BY DEF Init, NetOK, WorkersOK, WorkerPlaces
<1>3. QueuesOK /\ ControlOK /\ LocksOK /\ HistoryOK
  BY DEF Init, QueuesOK, ControlOK, LocksOK, HistoryOK
<1>4. ThreadsOK
  BY DEF Init, ThreadsOK, Places, Idle, Chan, Codes
<1>5. LifeInv
  BY DEF Init, LifeInv
<1>6. OrderInv
  BY NormalIsChan DEF Init, OrderInv, NoFrame
<1>7. FreshInv
  <2>1. Normal("receive") \in Chan
    BY NormalIsChan DEF Chan
  <2> QED BY <2>1 DEF Init, FreshInv, After, NoFrame, EventIn
<1>8. DispatchInv /\ ClearIsFinal
  BY DEF Init, DispatchInv, ClearIsFinal
<1> QED BY <1>1, <1>2, <1>3, <1>4, <1>5, <1>6, <1>7, <1>8 DEF Init, IInv, TypeOK

\* Every step preserves the invariant.
LEMMA NextIInv == IInv /\ [Next]_vars => IInv'
<1> SUFFICES ASSUME IInv, [Next]_vars PROVE IInv'
  OBVIOUS
<1>1. ASSUME NEW c \in Chan, ServerEvent(c) \/ ServerReplies(c) \/ ConnectionLost(c) PROVE IInv'
  BY <1>1, ServerEventIInv, ServerRepliesIInv, ConnectionLostIInv
<1>2. CASE Expire
  BY <1>2, ExpireIInv
<1>3. ASSUME NEW c \in Chan, Worker(c) PROVE IInv'
  BY <1>3, WorkerTopIInv, WorkerPollsIInv, WorkerWritesPollIInv, WorkerReadsIInv,
    WorkerReadFailsIInv, ProcessEventIInv, ProcessPollReplyIInv, ProcessControlReplyIInv,
    ProcessOtherReplyIInv, DispatchIInv, CallbackBeginsIInv, CallbackReturnsIInv, WorkerFailsIInv
    DEF Worker
<1>4. CASE Connect \/ Disconnect
  BY <1>4, ConnectIInv, DisconnectIInv
<1>5. CASE InOwnerCall
  BY <1>5, OpenReadsIInv, OpenFailsIInv, SpawnIInv, SpawnSendIInv, JoinIInv, CloseIInv DEF
    InOwnerCall
<1>6. ASSUME NEW t \in Threads, Begins(t) PROVE IInv'
  BY <1>6, ReceiveIInv, ReceiveRawIInv, SendIInv, SendRawIInv, ClearIInv DEF Begins
<1>7. ASSUME NEW t \in Threads, InCall(t) PROVE IInv'
  BY <1>7, SendLockIInv, SendWriteIInv, CallFailsIInv, RawLockIInv, RawWriteIInv, RawUnsendIInv,
    ControlLockIInv, ControlBeginIInv, ControlWriteIInv, ControlUnsetIInv, ControlReturnsIInv,
    ControlTimeoutIInv DEF InCall
<1>8. CASE UNCHANGED vars
  <2>1. FlagsOK'
    BY <1>8 DEF IInv, TypeOK, FlagsOK, vars
  <2>2. mode' \in Modes /\ load' \in Workloads /\ NetOK' /\ WorkersOK' /\ QueuesOK' /\ ControlOK'
    BY <1>8 DEF IInv, TypeOK, NetOK, WorkersOK, QueuesOK, ControlOK, vars
  <2>3. LocksOK' /\ ThreadsOK' /\ HistoryOK'
    BY <1>8 DEF IInv, TypeOK, LocksOK, ThreadsOK, HistoryOK, vars
  <2>4. LifeInv'
    BY <1>8 DEF IInv, LifeInv, vars
  <2>5. OrderInv' /\ FreshInv'
    BY <1>8, QuietFrame DEF IInv, vars
  <2>6. DispatchInv' /\ ClearIsFinal'
    BY <1>8, DispatchFrame, ClearFrame DEF IInv, vars
  <2> QED BY <2>1, <2>2, <2>3, <2>4, <2>5, <2>6 DEF IInv, TypeOK
<1> QED BY <1>1, <1>2, <1>3, <1>4, <1>5, <1>6, <1>7, <1>8 DEF Next, Server

\* The inductive invariant of the binary mode.
THEOREM BinaryInvariant == Spec => []IInv
BY InitIInv, NextIInv, PTL DEF Spec

\* The variables keep their types: no frame without an event is taken for one,
\* and no counter of waiting raw requests goes below zero.
THEOREM BinaryTypes == Spec => []TypeOK
<1>1. IInv => TypeOK
  BY DEF IInv
<1> QED BY <1>1, BinaryInvariant, PTL

\* After a clear that succeeded no older event of its connection is in the
\* local queue, also if it was kept before OPEN or was being dispatched.
THEOREM BinaryClearIsFinal == Spec => []ClearIsFinal
<1>1. IInv => ClearIsFinal
  BY DEF IInv
<1> QED BY <1>1, BinaryInvariant, PTL

\* disconnect is complete: nothing waits once the workers are joined, and no
\* connection is open once it has returned.
THEOREM BinaryDisconnect == Spec => []DisconnectIsComplete
<1>1. IInv => DisconnectIsComplete
  BY DEF IInv, LifeInv, DisconnectIsComplete
<1> QED BY <1>1, BinaryInvariant, PTL
=============================================================================

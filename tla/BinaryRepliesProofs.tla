------------------------ MODULE BinaryRepliesProofs ------------------------
(***************************************************************************)
(* In binary mode no reply is taken for the reply to another request.      *)
(* First what a step does to the number of replies that are still to come, *)
(* then that each step preserves ReplyInv.                                 *)
(***************************************************************************)
EXTENDS BinaryChannelProofs, FiniteSetTheorems

USE BinaryAssumption
USE DEF netVars, rawVars, pollVars, controlVars, workerVars, lockVars, threadVars, historyVars,
        config, serverKeeps, callKeeps, workerKeeps, ownerKeeps, Threads

\* The places of q with a message that answers code.
Where(q, code, by) == {i \in DOMAIN q : Answers(q[i], code, by)}

\* A number is a natural number, and above 0 when there is such a message.
LEMMA NumberType ==
  ASSUME NEW S, NEW q \in Seq(S), NEW code, NEW by
  PROVE  /\ IsFiniteSet(Where(q, code, by)) /\ Number(q, code, by) = Cardinality(Where(q, code, by))
         /\ Number(q, code, by) \in Nat
         /\ Number(q, code, by) = 0 <=> \A i \in 1 .. Len(q) : ~Answers(q[i], code, by)
<1>1. Len(q) \in Nat /\ DOMAIN q = 1 .. Len(q)
  OBVIOUS
<1>2. IsFiniteSet(1 .. Len(q))
  BY <1>1, FS_Interval
<1>3. Where(q, code, by) \in SUBSET (1 .. Len(q))
  BY <1>1 DEF Where
<1>4. IsFiniteSet(Where(q, code, by))
  BY <1>2, <1>3, FS_Subset
<1>5. Number(q, code, by) = Cardinality(Where(q, code, by))
  BY DEF Number, Where
<1>6. Number(q, code, by) \in Nat
  BY <1>4, <1>5, FS_CardinalityType
<1>7. Number(q, code, by) = 0 <=> Where(q, code, by) = {}
  BY <1>4, <1>5, FS_EmptySet
<1>8. Where(q, code, by) = {} <=> \A i \in 1 .. Len(q) : ~Answers(q[i], code, by)
  BY <1>1 DEF Where
<1> QED BY <1>4, <1>5, <1>6, <1>7, <1>8

\* Nothing is in the empty sequence.
LEMMA NumberEmpty == ASSUME NEW code, NEW by PROVE Number(<<>>, code, by) = 0
<1>1. <<>> \in Seq({1}) /\ 1 .. Len(<<>>) = {}
  OBVIOUS
<1>2. Number(<<>>, code, by) = 0 <=> \A i \in 1 .. Len(<<>>) : ~Answers(<<>>[i], code, by)
  BY <1>1, NumberType
<1> QED BY <1>1, <1>2

\* A message at the end counts if it answers.
LEMMA NumberAdded ==
  ASSUME NEW S, NEW q \in Seq(S), NEW r \in Seq(S), NEW code, NEW by,
         Len(r) = Len(q) + 1, \A i \in 1 .. Len(q) : r[i] = q[i]
  PROVE  Number(r, code, by) =
           Number(q, code, by) + (IF Answers(r[Len(q) + 1], code, by) THEN 1 ELSE 0)
<1> DEFINE n == Len(q) + 1
           W == Where(q, code, by)
           V == Where(r, code, by)
<1>1. Len(q) \in Nat /\ DOMAIN q = 1 .. Len(q) /\ DOMAIN r = 1 .. n
  OBVIOUS
<1>2. n \notin W
  BY <1>1 DEF Where
<1>3. IsFiniteSet(W) /\ Cardinality(W) = Number(q, code, by) /\ Number(q, code, by) \in Nat
      /\ Cardinality(V) = Number(r, code, by)
  BY NumberType
<1>4. CASE Answers(r[n], code, by)
  <2>1. V = W \cup {n}
    BY <1>1, <1>4 DEF Where
  <2>2. Cardinality(V) = Cardinality(W) + 1
    BY <1>2, <1>3, <2>1, FS_AddElement
  <2> QED BY <1>3, <1>4, <2>2
<1>5. CASE ~Answers(r[n], code, by)
  <2>1. V = W
    BY <1>1, <1>5 DEF Where
  <2> QED BY <1>3, <1>5, <2>1
<1> QED BY <1>4, <1>5

\* A message that is appended counts if it answers.
LEMMA NumberAppended ==
  ASSUME NEW S, NEW q \in Seq(S), NEW e \in S, NEW code, NEW by
  PROVE  Number(Append(q, e), code, by) =
           Number(q, code, by) + (IF Answers(e, code, by) THEN 1 ELSE 0)
<1> DEFINE r == Append(q, e)
<1>1. /\ r \in Seq(S) /\ Len(r) = Len(q) + 1
      /\ \A i \in 1 .. Len(q) : r[i] = q[i]
      /\ r[Len(q) + 1] = e
  BY Appended
<1> HIDE DEF r
<1>2. Number(r, code, by) =
        Number(q, code, by) + (IF Answers(r[Len(q) + 1], code, by) THEN 1 ELSE 0)
  BY <1>1, NumberAdded
<1> QED BY <1>1, <1>2 DEF r

\* So does one that is put at the end.
LEMMA NumberJoined ==
  ASSUME NEW S, NEW q \in Seq(S), NEW e \in S, NEW code, NEW by
  PROVE  Number(q \o <<e>>, code, by) =
           Number(q, code, by) + (IF Answers(e, code, by) THEN 1 ELSE 0)
<1> DEFINE r == q \o <<e>>
<1>1. /\ r \in Seq(S) /\ Len(r) = Len(q) + 1
      /\ \A i \in 1 .. Len(q) : r[i] = q[i]
      /\ r[Len(q) + 1] = e
  BY JoinedOne
<1> HIDE DEF r
<1>2. Number(r, code, by) =
        Number(q, code, by) + (IF Answers(r[Len(q) + 1], code, by) THEN 1 ELSE 0)
  BY <1>1, NumberAdded
<1> QED BY <1>1, <1>2 DEF r

\* Of two that are put at the end the second one counts, if the first does
\* not answer.
LEMMA NumberJoinedTwo ==
  ASSUME NEW S, NEW q \in Seq(S), NEW e \in S, NEW f \in S, NEW code, NEW by,
         ~Answers(e, code, by)
  PROVE  Number(q \o <<e, f>>, code, by) =
           Number(q, code, by) + (IF Answers(f, code, by) THEN 1 ELSE 0)
<1> DEFINE p == q \o <<e>>
           r == q \o <<e, f>>
<1>1. /\ p \in Seq(S) /\ Len(p) = Len(q) + 1 /\ Len(q) \in Nat
      /\ \A i \in 1 .. Len(q) : p[i] = q[i]
      /\ p[Len(q) + 1] = e
  BY JoinedOne
<1>2. /\ r \in Seq(S) /\ Len(r) = Len(q) + 2
      /\ \A i \in 1 .. Len(q) : r[i] = q[i]
      /\ r[Len(q) + 1] = e /\ r[Len(q) + 2] = f
  BY JoinedTwo
<1>3. Number(p, code, by) = Number(q, code, by)
  <2>1. Number(q, code, by) \in Nat
    BY NumberType
  <2>2. Number(p, code, by) = Number(q, code, by) + (IF Answers(e, code, by) THEN 1 ELSE 0)
    BY NumberJoined
  <2> QED BY <2>1, <2>2
<1> HIDE DEF p, r
<1>4. Len(r) = Len(p) + 1 /\ \A i \in 1 .. Len(p) : r[i] = p[i]
  <2>1. \A i \in 1 .. Len(p) : i \in 1 .. Len(q) \/ i = Len(q) + 1
    BY <1>1
  <2> QED BY <1>1, <1>2, <2>1
<1>5. Number(r, code, by) =
        Number(p, code, by) + (IF Answers(r[Len(p) + 1], code, by) THEN 1 ELSE 0)
  BY <1>1, <1>2, <1>4, NumberAdded
<1>6. r[Len(p) + 1] = f
  BY <1>1, <1>2
<1> QED BY <1>3, <1>5, <1>6 DEF r

\* A message that is taken from the front counts no more.
LEMMA NumberTaken ==
  ASSUME NEW S, NEW q \in Seq(S), q # <<>>, NEW code, NEW by
  PROVE  Number(q, code, by) =
           Number(Tail(q), code, by) + (IF Answers(Head(q), code, by) THEN 1 ELSE 0)
<1> DEFINE r == Tail(q)
           W == Where(q, code, by)
           V == Where(r, code, by)
           f == [i \in V |-> i + 1]
<1>1. /\ r \in Seq(S) /\ Len(q) \in Nat /\ Len(q) >= 1 /\ Len(r) = Len(q) - 1
      /\ \A i \in 1 .. Len(q) - 1 : r[i] = q[i + 1]
      /\ Head(q) = q[1]
  BY Popped
<1>2. DOMAIN q = 1 .. Len(q) /\ DOMAIN r = 1 .. Len(q) - 1
  BY <1>1
<1> HIDE DEF r
<1>3. /\ IsFiniteSet(W) /\ Cardinality(W) = Number(q, code, by) /\ Number(q, code, by) \in Nat
      /\ IsFiniteSet(V) /\ Cardinality(V) = Number(r, code, by) /\ Number(r, code, by) \in Nat
  BY <1>1, NumberType
<1>4. \A i \in V : i \in 1 .. Len(q) - 1 /\ i + 1 \in W \ {1}
  BY <1>1, <1>2 DEF Where
<1>5. \A j \in W \ {1} : j - 1 \in V /\ j = (j - 1) + 1
  BY <1>1, <1>2 DEF Where
<1>6. f \in Bijection(V, W \ {1})
  <2>1. f \in [V -> W \ {1}]
    BY <1>4
  <2>2. \A a, b \in V : f[a] = f[b] => a = b
    BY <1>4
  <2>3. \A j \in W \ {1} : \E i \in V : f[i] = j
    BY <1>5
  <2> QED BY <2>1, <2>2, <2>3 DEF Bijection, Injection, Surjection, IsInjective
<1>7. ExistsBijection(V, W \ {1})
  BY <1>6 DEF ExistsBijection
<1>8. Cardinality(W \ {1}) = Cardinality(V)
  BY <1>3, <1>7, FS_Bijection
<1>9. Cardinality(W \ {1}) = IF 1 \in W THEN Cardinality(W) - 1 ELSE Cardinality(W)
  BY <1>3, FS_RemoveElement
<1>10. 1 \in W <=> Answers(Head(q), code, by)
  BY <1>1, <1>2 DEF Where
<1> QED BY <1>3, <1>8, <1>9, <1>10 DEF r

-----------------------------------------------------------------------------
(* Steps after which no more replies come than before.                      *)

Askers == {"raw", "control", "poll"}

\* The number of replies to come is a natural number.
LEMMA ComingType ==
  ASSUME TypeOK, NEW c \in Chan, NEW code, NEW by
  PROVE  /\ Coming(c, code, by) \in Nat
         /\ Number(net[c], code, by) \in Nat /\ Number(todo[c], code, by) \in Nat
<1>1. net[c] \in Seq(FrameSet) /\ todo[c] \in Seq(RequestSet)
  BY DEF TypeOK, NetOK
<1>2. Number(net[c], code, by) \in Nat /\ Number(todo[c], code, by) \in Nat
  BY <1>1, NumberType
<1> QED BY <1>2 DEF Coming

\* So it is in the next state.
LEMMA ComingTypeNext ==
  ASSUME TypeOK', NEW c \in Chan, NEW code, NEW by
  PROVE  /\ Coming(c, code, by)' \in Nat
         /\ Number(net'[c], code, by) \in Nat /\ Number(todo'[c], code, by) \in Nat
<1>1. net'[c] \in Seq(FrameSet) /\ todo'[c] \in Seq(RequestSet)
  BY DEF TypeOK, NetOK
<1>2. Number(net'[c], code, by) \in Nat /\ Number(todo'[c], code, by) \in Nat
  BY <1>1, NumberType
<1> QED BY <1>2 DEF Coming

\* No more replies come to any request, and those to control requests are to
\* the same one.
Fewer == \A d \in Chan :
           /\ \A code \in Codes, by \in Askers : Coming(d, code, by)' <= Coming(d, code, by)
           /\ \A n : ForRequest(d, n) => ForRequest(d, n)'

\* What is left out does not count.
LEMMA LeftOut ==
  ASSUME TypeOK, TypeOK',
         \A d \in Chan : /\ net'[d] = net[d] \/ net'[d] = <<>>
                         /\ todo'[d] = todo[d] \/ todo'[d] = <<>>
                         /\ wpc'[d] = "frame" => wpc[d] = "frame" /\ hand'[d] = hand[d]
  PROVE  Fewer
<1> SUFFICES ASSUME NEW d \in Chan
             PROVE  /\ \A code \in Codes, by \in Askers :
                         Coming(d, code, by)' <= Coming(d, code, by)
                    /\ \A n : ForRequest(d, n) => ForRequest(d, n)'
  BY DEF Fewer
<1>1. ASSUME NEW code \in Codes, NEW by \in Askers
      PROVE  Coming(d, code, by)' <= Coming(d, code, by)
  <2>1. Number(net'[d], code, by) <= Number(net[d], code, by)
        /\ Number(todo'[d], code, by) <= Number(todo[d], code, by)
    BY ComingType, NumberEmpty
  <2>2. InHand(d, code, by)' => InHand(d, code, by)
    BY DEF InHand
  <2>3. /\ Number(net'[d], code, by) \in Nat /\ Number(todo'[d], code, by) \in Nat
        /\ Number(net[d], code, by) \in Nat /\ Number(todo[d], code, by) \in Nat
    BY ComingType, NumberEmpty
  <2>4. Coming(d, code, by)' = Number(net'[d], code, by) + Number(todo'[d], code, by)
                                 + (IF InHand(d, code, by)' THEN 1 ELSE 0)
    BY DEF Coming
  <2> QED BY <2>1, <2>2, <2>3, <2>4 DEF Coming
<1>2. ASSUME NEW n, ForRequest(d, n) PROVE ForRequest(d, n)'
  <2>1. InHand(d, "CLEAR", "control")' => InHand(d, "CLEAR", "control") /\ hand'[d] = hand[d]
    BY DEF InHand
  <2>2. DOMAIN <<>> = {}
    OBVIOUS
  <2> QED BY <1>2, <2>1, <2>2 DEF ForRequest
<1> QED BY <1>1, <1>2

\* The same for one kind of request, and for the numbers.
NoMore(by) == \A d \in Chan, code \in Codes : Coming(d, code, by)' <= Coming(d, code, by)
SameRequest == \A d \in Chan : \A n : ForRequest(d, n) => ForRequest(d, n)'

\* The one says the others.
LEMMA FewerMeans ==
  ASSUME Fewer
  PROVE  NoMore("raw") /\ NoMore("control") /\ NoMore("poll") /\ SameRequest
<1>1. "raw" \in Askers /\ "control" \in Askers /\ "poll" \in Askers
  BY DEF Askers
<1> QED BY <1>1 DEF Fewer, NoMore, SameRequest

\* Where no more replies come, the control request is as before ...
LEMMA ControlKeeps ==
  ASSUME TypeOK, TypeOK', ControlInv, UNCHANGED mode,
         NoMore("raw"), NoMore("control"), SameRequest,
         \A c \in Chan, code \in Codes : Writing(c, code)' => Writing(c, code),
         Asking' => Asking, running' => running, TimedOut => TimedOut' \/ ~running',
         \/ UNCHANGED controlVars
         \/ control' = "none" /\ ~Asking' /\ (TimedOut' \/ ~running' \/ control # "pending")
  PROVE  ControlInv'
<1>1. PICK R \in Chan : R = Normal("receive") /\ Normal("receive")' = R
  BY NormalIsChan DEF Normal, Chan
<1>2. "CLEAR" \in Codes
  BY DEF Codes
<1>3. \A n : ForRequest(R, n) => ForRequest(R, n)'
  BY <1>1 DEF SameRequest
<1> DEFINE K(by) == Coming(R, "CLEAR", by)
<1>4. \A by \in {"raw", "control"} : K(by) \in Nat /\ K(by)' \in Nat /\ K(by)' <= K(by)
  BY <1>1, <1>2, ComingType, ComingTypeNext DEF NoMore
<1>5. K("control")' > 0 => ~running' \/ control' = "pending" \/ TimedOut'
  <2>1. K("control") > 0 => ~running \/ control = "pending" \/ TimedOut
    BY <1>1 DEF ControlInv
  <2>2. control = "complete" => K("control") = 0
    BY <1>1 DEF ControlInv
  <2>3. control \in {"none", "pending", "complete"}
    BY DEF TypeOK, ControlOK
  <2> HIDE DEF K
  <2> QED BY <1>4, <2>1, <2>2, <2>3
<1>6. ASSUME control' = "pending"
      PROVE  /\ K("raw")' = 0 /\ ~Writing(R, "CLEAR")'
             /\ K("control")' <= 1
             /\ Asking' => K("control")' = 0
             /\ ForRequest(R, asked)'
  <2>1. control = "pending" /\ asked' = asked
    BY <1>6
  <2>2. /\ K("raw") = 0 /\ ~Writing(R, "CLEAR") /\ K("control") <= 1
        /\ Asking => K("control") = 0
        /\ ForRequest(R, asked)
    BY <2>1, <1>1 DEF ControlInv
  <2>3. ForRequest(R, asked)'
    <3>1. PICK n : n = asked /\ asked' = n
      BY <2>1
    <3>2. ForRequest(R, n)'
      BY <1>3, <2>2, <3>1
    <3> QED BY <3>1, <3>2 DEF ForRequest
  <2>4. ~Writing(R, "CLEAR")'
    BY <1>1, <1>2, <2>2
  <2> HIDE DEF K
  <2> QED BY <1>4, <2>2, <2>3, <2>4
<1>7. control' = "complete" => answer' = asked' /\ K("control")' = 0
  <2>1. control' = "complete" => control = "complete" /\ answer' = answer /\ asked' = asked
    OBVIOUS
  <2>2. control = "complete" => answer = asked /\ K("control") = 0
    BY <1>1 DEF ControlInv
  <2> HIDE DEF K
  <2> QED BY <1>4, <2>1, <2>2
<1>8. Asking' => control' = "pending"
  BY DEF ControlInv
<1> QED BY <1>1, <1>5, <1>6, <1>7, <1>8 DEF ControlInv

\* ... no raw request is missed ...
LEMMA RawKeeps ==
  ASSUME TypeOK, TypeOK', RawInv, NoMore("raw"), UNCHANGED mode,
         \A c \in Chan, code \in Codes : Writing(c, code)' => Writing(c, code),
         running' => running /\ \A k \in Keys : rawPending[k] <= rawPending'[k],
         TimedOut => TimedOut' \/ ~running'
  PROVE  RawInv'
<1> SUFFICES ASSUME running', NEW c \in Chan, NEW code \in Codes, Tracked(code)',
                    ~(code = "CLEAR" /\ TimedOut')
             PROVE  Coming(c, code, "raw")' + (IF Writing(c, code)' THEN 1 ELSE 0)
                      <= rawPending'[<<c, code>>]
  BY DEF RawInv
<1>1. Tracked(code) /\ ~(code = "CLEAR" /\ TimedOut)
  BY DEF Tracked, Polling
<1>2. Coming(c, code, "raw") + (IF Writing(c, code) THEN 1 ELSE 0) <= rawPending[<<c, code>>]
  BY <1>1 DEF RawInv
<1>3. /\ <<c, code>> \in Keys
      /\ rawPending[<<c, code>>] \in Nat /\ rawPending'[<<c, code>>] \in Nat
  BY DEF TypeOK, QueuesOK, Keys
<1>4. /\ Coming(c, code, "raw") \in Nat /\ Coming(c, code, "raw")' \in Nat
      /\ Coming(c, code, "raw")' <= Coming(c, code, "raw")
  BY ComingType, ComingTypeNext DEF NoMore
<1> QED BY <1>2, <1>3, <1>4

\* ... and so is the poll.
LEMMA PollKeeps ==
  ASSUME TypeOK, TypeOK', PollInv, NoMore("raw"), NoMore("poll"), UNCHANGED <<mode, pollPending>>,
         \A c \in Chan, code \in Codes : Writing(c, code)' => Writing(c, code),
         \A c \in Chan : wpc'[c] = "poll" => wpc[c] = "poll"
  PROVE  PollInv'
<1>1. "RETR" \in Codes /\ "send" \in Chan
  BY DEF Codes, Chan
<1>2. \A by \in {"raw", "poll"} :
        /\ Coming("send", "RETR", by) \in Nat /\ Coming("send", "RETR", by)' \in Nat
        /\ Coming("send", "RETR", by)' <= Coming("send", "RETR", by)
  BY <1>1, ComingType, ComingTypeNext DEF NoMore
<1>3. Polling' = Polling
  BY DEF Polling
<1>4. Writing("send", "RETR")' => Writing("send", "RETR")
  BY <1>1
<1> QED BY <1>1, <1>2, <1>3, <1>4 DEF PollInv

\* The three together.
LEMMA FewerKeeps ==
  ASSUME TypeOK, TypeOK', ControlInv, RawInv, PollInv, Fewer, UNCHANGED <<mode, pollPending>>,
         \A c \in Chan, code \in Codes : Writing(c, code)' => Writing(c, code),
         Asking' => Asking,
         running' => running /\ \A k \in Keys : rawPending[k] <= rawPending'[k],
         TimedOut => TimedOut' \/ ~running',
         \/ UNCHANGED controlVars
         \/ control' = "none" /\ ~Asking' /\ (TimedOut' \/ ~running' \/ control # "pending"),
         \A c \in Chan : wpc'[c] = "poll" => wpc[c] = "poll"
  PROVE  ControlInv' /\ RawInv' /\ PollInv'
BY FewerMeans, ControlKeeps, RawKeeps, PollKeeps

\* What is left out is proper still.
LEMMA KindFrame ==
  ASSUME KindInv, UNCHANGED mode,
         \A c \in Chan : /\ net'[c] = net[c] \/ net'[c] = <<>>
                         /\ todo'[c] = todo[c] \/ todo'[c] = <<>>
                         /\ hand'[c] = hand[c] \/ hand'[c] = NoFrame,
         buffered' = buffered \/ buffered' = <<>>,
         workers' \subseteq workers,
         pc'[Owner] \in {"opening", "spawn", "spawn2"} => pc'[Owner] = pc[Owner]
  PROVE  KindInv'
<1>1. PICK R \in Chan : R = Normal("receive") /\ Normal("receive")' = R
  BY NormalIsChan DEF Normal, Chan
<1>2. Polling' = Polling /\ Channels' = Channels
  BY DEF Polling, Channels
<1>3. \A c \in Chan : \A m : Proper(c, m)' <=> Proper(c, m)
  BY <1>1, <1>2 DEF Proper
<1>4. \A c \in Chan : Proper(c, NoFrame)
  BY DEF Proper, NoFrame
<1>5. 1 .. Len(<<>>) = {}
  OBVIOUS
<1>6. \A m : Asks(m)' <=> Asks(m)
  BY DEF Asks
<1>7. \A c \in Chan : /\ Proper(c, hand'[c])
                      /\ \A i \in 1 .. Len(net'[c]) : Proper(c, net'[c][i])
                      /\ \A i \in 1 .. Len(todo'[c]) : Proper(c, todo'[c][i])
  BY <1>4, <1>5 DEF KindInv
<1>8. \A i \in 1 .. Len(buffered') : Proper(R, buffered'[i]) /\ ~Asks(buffered'[i])
  BY <1>1, <1>5 DEF KindInv
<1>9. pc'[Owner] \in {"opening", "spawn"} =>
        \A c \in Chan : /\ \A i \in 1 .. Len(net'[c]) : ~Asks(net'[c][i])
                        /\ \A i \in 1 .. Len(todo'[c]) : ~Asks(todo'[c][i])
  BY <1>5 DEF KindInv
<1>10. workers' \subseteq Channels /\ (pc'[Owner] = "spawn2" => mode' = "two")
  BY DEF KindInv
<1> QED BY <1>1, <1>2, <1>3, <1>6, <1>7, <1>8, <1>9, <1>10 DEF KindInv, Proper, Asks

\* What it means for the frames that a worker goes on.
LEMMA WorkerGoes ==
  ASSUME TypeOK, NEW c \in Chan, NEW l \in WorkerPlaces \ {"poll", "frame"}, WGoto(c, l)
  PROVE  \A d \in Chan : /\ hand'[d] = hand[d] \/ hand'[d] = NoFrame
                         /\ wpc'[d] # "frame" \/ (wpc[d] = "frame" /\ hand'[d] = hand[d])
                         /\ wpc'[d] = "poll" => wpc[d] = "poll"
BY DEF TypeOK, WorkersOK, WGoto

\* What it means for the requests that a thread goes on to where it writes
\* none.
LEMMA ThreadGoes ==
  ASSUME TypeOK, MutexInv, NEW t \in Threads,
         \A u \in Threads \ {t} : pc'[u] = pc[u] /\ arg'[u] = arg[u],
         pc'[t] \notin {"rawWrite", "rawUnsend", "ctlWrite"},
         cmd' \in {cmd, None, t}, ctl' = ctl \/ (ctl = None /\ ctl' = t) \/ (ctl = t /\ ctl' = None)
  PROVE  /\ \A c \in Chan, code \in Codes : Writing(c, code)' => Writing(c, code)
         /\ Asking' => Asking
         /\ pc[t] # "fail" => (TimedOut => TimedOut')
<1>1. /\ cmd \in Threads \cup {None} /\ ctl \in Threads \cup {None} /\ None \notin Threads
      /\ cmd' \in Threads \cup {None} /\ ctl' \in Threads \cup {None}
  BY DEF TypeOK, LocksOK
<1>2. ASSUME NEW c \in Chan, NEW code \in Codes, Writing(c, code)'
      PROVE  Writing(c, code)
  <2>1. cmd' # None /\ pc'[cmd'] \in {"rawWrite", "rawUnsend"} /\ cmd' # t
    BY <1>2 DEF Writing
  <2>2. cmd' = cmd /\ pc'[cmd] = pc[cmd] /\ arg'[cmd] = arg[cmd]
    BY <1>1, <2>1
  <2> QED BY <1>2, <2>1, <2>2 DEF Writing, Key
<1>3. Asking' => Asking
  BY <1>1 DEF Asking
<1>4. pc[t] # "fail" => (TimedOut => TimedOut')
  BY <1>1 DEF TimedOut
<1> QED BY <1>2, <1>3, <1>4

\* What it means for the holders of the mutexes that a thread goes on.
LEMMA MutexFrame ==
  ASSUME TypeOK, MutexInv, NEW t \in Threads, pc' \in [Threads -> Places],
         \A u \in Threads \ {t} : pc'[u] = pc[u],
         cmd' = cmd \/ (cmd = None /\ cmd' = t) \/ (cmd = t /\ cmd' = None),
         cmd' = t <=> pc'[t] \in CmdPlaces,
         ctl' = ctl \/ (ctl = None /\ ctl' = t) \/ (ctl = t /\ ctl' = None),
         pc'[t] \in CtlPlaces => ctl' = t,
         ctl' = t => pc'[t] \in CtlPlaces \cup {"fail"},
         workers' = {} /\ pc'[Owner] \in {"idle", "opening", "spawn"} => cmd' = None,
         control' # "none" => ctl' # None /\ pc'[ctl'] \in {"ctlWrite", "ctlUnset", "ctlWait"}
  PROVE  MutexInv'
<1>1. cmd \in Threads \cup {None} /\ ctl \in Threads \cup {None} /\ None \notin Threads
  BY DEF TypeOK, LocksOK
<1>2. \A u \in Threads : /\ cmd' = u <=> pc'[u] \in CmdPlaces
                         /\ pc'[u] \in CtlPlaces => ctl' = u
                         /\ ctl' = u => pc'[u] \in CtlPlaces \cup {"fail"}
  <2> SUFFICES ASSUME NEW u \in Threads, u # t
               PROVE  /\ cmd' = u <=> pc'[u] \in CmdPlaces
                      /\ pc'[u] \in CtlPlaces => ctl' = u
                      /\ ctl' = u => pc'[u] \in CtlPlaces \cup {"fail"}
    OBVIOUS
  <2>1. /\ cmd = u <=> pc[u] \in CmdPlaces
        /\ pc[u] \in CtlPlaces => ctl = u
        /\ ctl = u => pc[u] \in CtlPlaces \cup {"fail"}
    BY DEF MutexInv
  <2> QED BY <1>1, <2>1
<1> QED BY <1>2 DEF MutexInv, CmdPlaces, CtlPlaces

\* A connection is lost.
LEMMA ConnectionLostReplies ==
  ASSUME IInv, IInv', ReplyInv, NEW c \in Chan, ConnectionLost(c)
  PROVE  ReplyInv'
<1>1. KindInv'
  BY KindFrame DEF ReplyInv, IInv, TypeOK, ThreadsOK, WorkersOK, NetOK, ConnectionLost
<1>2. MutexInv'
  BY DEF ReplyInv, MutexInv, CmdPlaces, CtlPlaces, IInv, TypeOK, ThreadsOK, LocksOK, LifeInv,
    ConnectionLost
<1>3. Fewer
  BY LeftOut DEF IInv, TypeOK, WorkersOK, NetOK, ConnectionLost
<1>4. /\ UNCHANGED <<mode, pollPending>>
      /\ running' => running /\ \A k \in Keys : rawPending[k] <= rawPending'[k]
      /\ \/ UNCHANGED controlVars
         \/ control' = "none" /\ ~Asking' /\ (TimedOut' \/ ~running' \/ control # "pending")
      /\ \A d \in Chan : wpc'[d] = "poll" => wpc[d] = "poll"
  BY DEF IInv, TypeOK, QueuesOK, ConnectionLost
<1>5. /\ \A d \in Chan, code \in Codes : Writing(d, code)' => Writing(d, code)
      /\ Asking' => Asking
      /\ TimedOut => TimedOut' \/ ~running'
  BY DEF Writing, Asking, TimedOut, Key, ConnectionLost
<1> QED BY <1>1, <1>2, <1>3, <1>4, <1>5, FewerKeeps DEF ReplyInv, IInv

\* A deadline passes.
LEMMA ExpireReplies ==
  ASSUME IInv, IInv', ReplyInv, Expire
  PROVE  ReplyInv'
<1>1. KindInv'
  BY KindFrame DEF ReplyInv, IInv, TypeOK, ThreadsOK, WorkersOK, NetOK, Expire
<1>2. MutexInv'
  BY DEF ReplyInv, MutexInv, CmdPlaces, CtlPlaces, IInv, TypeOK, ThreadsOK, LocksOK, LifeInv, Expire
<1>3. Fewer
  BY LeftOut DEF IInv, TypeOK, WorkersOK, NetOK, Expire
<1>4. /\ UNCHANGED <<mode, pollPending>>
      /\ running' => running /\ \A k \in Keys : rawPending[k] <= rawPending'[k]
      /\ \/ UNCHANGED controlVars
         \/ control' = "none" /\ ~Asking' /\ (TimedOut' \/ ~running' \/ control # "pending")
      /\ \A c \in Chan : wpc'[c] = "poll" => wpc[c] = "poll"
  BY DEF IInv, TypeOK, QueuesOK, Expire
<1>5. /\ \A c \in Chan, code \in Codes : Writing(c, code)' => Writing(c, code)
      /\ Asking' => Asking
      /\ TimedOut => TimedOut' \/ ~running'
  BY DEF Writing, Asking, TimedOut, Key, Expire
<1> QED BY <1>1, <1>2, <1>3, <1>4, <1>5, FewerKeeps DEF ReplyInv, IInv

\* A worker leaves its loop.
LEMMA WorkerTopReplies ==
  ASSUME IInv, IInv', ReplyInv, NEW c \in Chan, WorkerTop(c)
  PROVE  ReplyInv'
<1>g. \A d \in Chan : /\ hand'[d] = hand[d] \/ hand'[d] = NoFrame
                      /\ wpc'[d] # "frame" \/ (wpc[d] = "frame" /\ hand'[d] = hand[d])
                      /\ wpc'[d] = "poll" => wpc[d] = "poll"
  <2>1. PICK l \in WorkerPlaces \ {"poll", "frame"} : WGoto(c, l)
    BY DEF WorkerTop, WorkerPlaces
  <2> QED BY <2>1, WorkerGoes DEF IInv
<1>f. /\ UNCHANGED <<mode, workers, buffered, rawPending, pollPending, control, asked, answer, cmd,
                     ctl, pc, arg>>
      /\ running' => running
      /\ \A d \in Chan : /\ net'[d] = net[d] \/ net'[d] = <<>>
                         /\ todo'[d] = todo[d] \/ todo'[d] = <<>>
  BY DEF IInv, TypeOK, NetOK, WorkerTop
<1>1. KindInv'
  BY <1>f, <1>g, KindFrame DEF ReplyInv
<1>2. MutexInv'
  BY <1>f DEF ReplyInv, MutexInv, CmdPlaces, CtlPlaces, IInv, TypeOK, ThreadsOK, LocksOK, LifeInv
<1>3. Fewer
  BY <1>f, <1>g, LeftOut DEF IInv
<1>4. /\ UNCHANGED <<mode, pollPending>>
      /\ running' => running /\ \A k \in Keys : rawPending[k] <= rawPending'[k]
      /\ \/ UNCHANGED controlVars
         \/ control' = "none" /\ ~Asking' /\ (TimedOut' \/ ~running' \/ control # "pending")
      /\ \A d \in Chan : wpc'[d] = "poll" => wpc[d] = "poll"
  BY <1>f, <1>g DEF IInv, TypeOK, QueuesOK
<1>5. /\ \A d \in Chan, code \in Codes : Writing(d, code)' => Writing(d, code)
      /\ Asking' => Asking
      /\ TimedOut => TimedOut' \/ ~running'
  BY <1>f DEF Writing, Asking, TimedOut, Key
<1> QED BY <1>1, <1>2, <1>3, <1>4, <1>5, FewerKeeps DEF ReplyInv, IInv

\* A worker notices that its connection is lost.
LEMMA WorkerReadFailsReplies ==
  ASSUME IInv, IInv', ReplyInv, NEW c \in Chan, WorkerReadFails(c)
  PROVE  ReplyInv'
<1>g. \A d \in Chan : /\ hand'[d] = hand[d] \/ hand'[d] = NoFrame
                      /\ wpc'[d] # "frame" \/ (wpc[d] = "frame" /\ hand'[d] = hand[d])
                      /\ wpc'[d] = "poll" => wpc[d] = "poll"
  <2>1. PICK l \in WorkerPlaces \ {"poll", "frame"} : WGoto(c, l)
    BY DEF WorkerReadFails, WorkerPlaces
  <2> QED BY <2>1, WorkerGoes DEF IInv
<1>f. /\ UNCHANGED <<mode, workers, buffered, rawPending, pollPending, control, asked, answer, cmd,
                     ctl, pc, arg>>
      /\ running' => running
      /\ \A d \in Chan : /\ net'[d] = net[d] \/ net'[d] = <<>>
                         /\ todo'[d] = todo[d] \/ todo'[d] = <<>>
  BY DEF IInv, TypeOK, NetOK, WorkerReadFails
<1>1. KindInv'
  BY <1>f, <1>g, KindFrame DEF ReplyInv
<1>2. MutexInv'
  BY <1>f DEF ReplyInv, MutexInv, CmdPlaces, CtlPlaces, IInv, TypeOK, ThreadsOK, LocksOK, LifeInv
<1>3. Fewer
  BY <1>f, <1>g, LeftOut DEF IInv
<1>4. /\ UNCHANGED <<mode, pollPending>>
      /\ running' => running /\ \A k \in Keys : rawPending[k] <= rawPending'[k]
      /\ \/ UNCHANGED controlVars
         \/ control' = "none" /\ ~Asking' /\ (TimedOut' \/ ~running' \/ control # "pending")
      /\ \A d \in Chan : wpc'[d] = "poll" => wpc[d] = "poll"
  BY <1>f, <1>g DEF IInv, TypeOK, QueuesOK
<1>5. /\ \A d \in Chan, code \in Codes : Writing(d, code)' => Writing(d, code)
      /\ Asking' => Asking
      /\ TimedOut => TimedOut' \/ ~running'
  BY <1>f DEF Writing, Asking, TimedOut, Key
<1> QED BY <1>1, <1>2, <1>3, <1>4, <1>5, FewerKeeps DEF ReplyInv, IInv

\* An event is confirmed.
LEMMA ProcessEventReplies ==
  ASSUME IInv, IInv', ReplyInv, NEW c \in Chan, ProcessEvent(c)
  PROVE  ReplyInv'
<1>g. \A d \in Chan : /\ hand'[d] = hand[d] \/ hand'[d] = NoFrame
                      /\ wpc'[d] # "frame" \/ (wpc[d] = "frame" /\ hand'[d] = hand[d])
                      /\ wpc'[d] = "poll" => wpc[d] = "poll"
  <2>1. PICK l \in WorkerPlaces \ {"poll", "frame"} : WGoto(c, l)
    BY DEF ProcessEvent, WorkerPlaces
  <2> QED BY <2>1, WorkerGoes DEF IInv
<1>f. /\ UNCHANGED <<mode, workers, buffered, rawPending, pollPending, control, asked, answer, cmd,
                     ctl, pc, arg>>
      /\ running' => running
      /\ \A d \in Chan : /\ net'[d] = net[d] \/ net'[d] = <<>>
                         /\ todo'[d] = todo[d] \/ todo'[d] = <<>>
  BY DEF IInv, TypeOK, NetOK, ProcessEvent, WriteFails
<1>1. KindInv'
  BY <1>f, <1>g, KindFrame DEF ReplyInv
<1>2. MutexInv'
  BY <1>f DEF ReplyInv, MutexInv, CmdPlaces, CtlPlaces, IInv, TypeOK, ThreadsOK, LocksOK, LifeInv
<1>3. Fewer
  BY <1>f, <1>g, LeftOut DEF IInv
<1>4. /\ UNCHANGED <<mode, pollPending>>
      /\ running' => running /\ \A k \in Keys : rawPending[k] <= rawPending'[k]
      /\ \/ UNCHANGED controlVars
         \/ control' = "none" /\ ~Asking' /\ (TimedOut' \/ ~running' \/ control # "pending")
      /\ \A d \in Chan : wpc'[d] = "poll" => wpc[d] = "poll"
  BY <1>f, <1>g DEF IInv, TypeOK, QueuesOK
<1>5. /\ \A d \in Chan, code \in Codes : Writing(d, code)' => Writing(d, code)
      /\ Asking' => Asking
      /\ TimedOut => TimedOut' \/ ~running'
  BY <1>f DEF Writing, Asking, TimedOut, Key
<1> QED BY <1>1, <1>2, <1>3, <1>4, <1>5, FewerKeeps DEF ReplyInv, IInv

\* An event is dispatched.
LEMMA DispatchReplies ==
  ASSUME IInv, IInv', ReplyInv, NEW c \in Chan, Dispatch(c)
  PROVE  ReplyInv'
<1>g. \A d \in Chan : /\ hand'[d] = hand[d] \/ hand'[d] = NoFrame
                      /\ wpc'[d] # "frame" \/ (wpc[d] = "frame" /\ hand'[d] = hand[d])
                      /\ wpc'[d] = "poll" => wpc[d] = "poll"
  <2>1. PICK l \in WorkerPlaces \ {"poll", "frame"} : WGoto(c, l)
    BY DEF Dispatch, WorkerPlaces
  <2> QED BY <2>1, WorkerGoes DEF IInv
<1>f. /\ UNCHANGED <<mode, workers, buffered, rawPending, pollPending, control, asked, answer, cmd,
                     ctl, pc, arg>>
      /\ running' => running
      /\ \A d \in Chan : /\ net'[d] = net[d] \/ net'[d] = <<>>
                         /\ todo'[d] = todo[d] \/ todo'[d] = <<>>
  BY DEF IInv, TypeOK, NetOK, Dispatch
<1>1. KindInv'
  BY <1>f, <1>g, KindFrame DEF ReplyInv
<1>2. MutexInv'
  BY <1>f DEF ReplyInv, MutexInv, CmdPlaces, CtlPlaces, IInv, TypeOK, ThreadsOK, LocksOK, LifeInv
<1>3. Fewer
  BY <1>f, <1>g, LeftOut DEF IInv
<1>4. /\ UNCHANGED <<mode, pollPending>>
      /\ running' => running /\ \A k \in Keys : rawPending[k] <= rawPending'[k]
      /\ \/ UNCHANGED controlVars
         \/ control' = "none" /\ ~Asking' /\ (TimedOut' \/ ~running' \/ control # "pending")
      /\ \A d \in Chan : wpc'[d] = "poll" => wpc[d] = "poll"
  BY <1>f, <1>g DEF IInv, TypeOK, QueuesOK
<1>5. /\ \A d \in Chan, code \in Codes : Writing(d, code)' => Writing(d, code)
      /\ Asking' => Asking
      /\ TimedOut => TimedOut' \/ ~running'
  BY <1>f DEF Writing, Asking, TimedOut, Key
<1> QED BY <1>1, <1>2, <1>3, <1>4, <1>5, FewerKeeps DEF ReplyInv, IInv

\* A callback begins.
LEMMA CallbackBeginsReplies ==
  ASSUME IInv, IInv', ReplyInv, NEW c \in Chan, CallbackBegins(c)
  PROVE  ReplyInv'
<1>g. \A d \in Chan : /\ hand'[d] = hand[d] \/ hand'[d] = NoFrame
                      /\ wpc'[d] # "frame" \/ (wpc[d] = "frame" /\ hand'[d] = hand[d])
                      /\ wpc'[d] = "poll" => wpc[d] = "poll"
  <2>1. PICK l \in WorkerPlaces \ {"poll", "frame"} : WGoto(c, l)
    BY DEF CallbackBegins, WorkerPlaces
  <2> QED BY <2>1, WorkerGoes DEF IInv
<1>f. /\ UNCHANGED <<mode, workers, buffered, rawPending, pollPending, control, asked, answer, cmd,
                     ctl, pc, arg>>
      /\ running' => running
      /\ \A d \in Chan : /\ net'[d] = net[d] \/ net'[d] = <<>>
                         /\ todo'[d] = todo[d] \/ todo'[d] = <<>>
  BY DEF IInv, TypeOK, NetOK, CallbackBegins
<1>1. KindInv'
  BY <1>f, <1>g, KindFrame DEF ReplyInv
<1>2. MutexInv'
  BY <1>f DEF ReplyInv, MutexInv, CmdPlaces, CtlPlaces, IInv, TypeOK, ThreadsOK, LocksOK, LifeInv
<1>3. Fewer
  BY <1>f, <1>g, LeftOut DEF IInv
<1>4. /\ UNCHANGED <<mode, pollPending>>
      /\ running' => running /\ \A k \in Keys : rawPending[k] <= rawPending'[k]
      /\ \/ UNCHANGED controlVars
         \/ control' = "none" /\ ~Asking' /\ (TimedOut' \/ ~running' \/ control # "pending")
      /\ \A d \in Chan : wpc'[d] = "poll" => wpc[d] = "poll"
  BY <1>f, <1>g DEF IInv, TypeOK, QueuesOK
<1>5. /\ \A d \in Chan, code \in Codes : Writing(d, code)' => Writing(d, code)
      /\ Asking' => Asking
      /\ TimedOut => TimedOut' \/ ~running'
  BY <1>f DEF Writing, Asking, TimedOut, Key
<1> QED BY <1>1, <1>2, <1>3, <1>4, <1>5, FewerKeeps DEF ReplyInv, IInv

\* A callback returns.
LEMMA CallbackReturnsReplies ==
  ASSUME IInv, IInv', ReplyInv, NEW c \in Chan, CallbackReturns(c)
  PROVE  ReplyInv'
<1>g. \A d \in Chan : /\ hand'[d] = hand[d] \/ hand'[d] = NoFrame
                      /\ wpc'[d] # "frame" \/ (wpc[d] = "frame" /\ hand'[d] = hand[d])
                      /\ wpc'[d] = "poll" => wpc[d] = "poll"
  <2>1. PICK l \in WorkerPlaces \ {"poll", "frame"} : WGoto(c, l)
    BY DEF CallbackReturns, WorkerPlaces
  <2> QED BY <2>1, WorkerGoes DEF IInv
<1>f. /\ UNCHANGED <<mode, workers, buffered, rawPending, pollPending, control, asked, answer, cmd,
                     ctl, pc, arg>>
      /\ running' => running
      /\ \A d \in Chan : /\ net'[d] = net[d] \/ net'[d] = <<>>
                         /\ todo'[d] = todo[d] \/ todo'[d] = <<>>
  BY DEF IInv, TypeOK, NetOK, CallbackReturns
<1>1. KindInv'
  BY <1>f, <1>g, KindFrame DEF ReplyInv
<1>2. MutexInv'
  BY <1>f DEF ReplyInv, MutexInv, CmdPlaces, CtlPlaces, IInv, TypeOK, ThreadsOK, LocksOK, LifeInv
<1>3. Fewer
  BY <1>f, <1>g, LeftOut DEF IInv
<1>4. /\ UNCHANGED <<mode, pollPending>>
      /\ running' => running /\ \A k \in Keys : rawPending[k] <= rawPending'[k]
      /\ \/ UNCHANGED controlVars
         \/ control' = "none" /\ ~Asking' /\ (TimedOut' \/ ~running' \/ control # "pending")
      /\ \A d \in Chan : wpc'[d] = "poll" => wpc[d] = "poll"
  BY <1>f, <1>g DEF IInv, TypeOK, QueuesOK
<1>5. /\ \A d \in Chan, code \in Codes : Writing(d, code)' => Writing(d, code)
      /\ Asking' => Asking
      /\ TimedOut => TimedOut' \/ ~running'
  BY <1>f DEF Writing, Asking, TimedOut, Key
<1> QED BY <1>1, <1>2, <1>3, <1>4, <1>5, FewerKeeps DEF ReplyInv, IInv

\* A worker stops the client.
LEMMA WorkerFailsReplies ==
  ASSUME IInv, IInv', ReplyInv, NEW c \in Chan, WorkerFails(c)
  PROVE  ReplyInv'
<1>g. \A d \in Chan : /\ hand'[d] = hand[d] \/ hand'[d] = NoFrame
                      /\ wpc'[d] # "frame" \/ (wpc[d] = "frame" /\ hand'[d] = hand[d])
                      /\ wpc'[d] = "poll" => wpc[d] = "poll"
  <2>1. PICK l \in WorkerPlaces \ {"poll", "frame"} : WGoto(c, l)
    BY DEF WorkerFails, WorkerPlaces
  <2> QED BY <2>1, WorkerGoes DEF IInv
<1>f. /\ UNCHANGED <<mode, workers, buffered, rawPending, pollPending, control, asked, answer, cmd,
                     ctl, pc, arg>>
      /\ running' => running
      /\ \A d \in Chan : /\ net'[d] = net[d] \/ net'[d] = <<>>
                         /\ todo'[d] = todo[d] \/ todo'[d] = <<>>
  BY DEF IInv, TypeOK, NetOK, WorkerFails
<1>1. KindInv'
  BY <1>f, <1>g, KindFrame DEF ReplyInv
<1>2. MutexInv'
  BY <1>f DEF ReplyInv, MutexInv, CmdPlaces, CtlPlaces, IInv, TypeOK, ThreadsOK, LocksOK, LifeInv
<1>3. Fewer
  BY <1>f, <1>g, LeftOut DEF IInv
<1>4. /\ UNCHANGED <<mode, pollPending>>
      /\ running' => running /\ \A k \in Keys : rawPending[k] <= rawPending'[k]
      /\ \/ UNCHANGED controlVars
         \/ control' = "none" /\ ~Asking' /\ (TimedOut' \/ ~running' \/ control # "pending")
      /\ \A d \in Chan : wpc'[d] = "poll" => wpc[d] = "poll"
  BY <1>f, <1>g DEF IInv, TypeOK, QueuesOK
<1>5. /\ \A d \in Chan, code \in Codes : Writing(d, code)' => Writing(d, code)
      /\ Asking' => Asking
      /\ TimedOut => TimedOut' \/ ~running'
  BY <1>f DEF Writing, Asking, TimedOut, Key
<1> QED BY <1>1, <1>2, <1>3, <1>4, <1>5, FewerKeeps DEF ReplyInv, IInv

\* disconnect begins.
LEMMA DisconnectReplies ==
  ASSUME IInv, IInv', ReplyInv, Disconnect
  PROVE  ReplyInv'
<1>1. KindInv'
  BY KindFrame DEF ReplyInv, IInv, TypeOK, ThreadsOK, WorkersOK, NetOK, Disconnect, Call, CallWith,
    GotoWith, Idle
<1>2. MutexInv'
  BY DEF ReplyInv, MutexInv, CmdPlaces, CtlPlaces, IInv, TypeOK, ThreadsOK, LocksOK, LifeInv,
    Disconnect, Call, CallWith, GotoWith, Idle
<1>3. Fewer
  BY LeftOut DEF IInv, TypeOK, WorkersOK, NetOK, Disconnect, Call, CallWith, GotoWith, Idle
<1>4. /\ UNCHANGED <<mode, pollPending>>
      /\ running' => running /\ \A k \in Keys : rawPending[k] <= rawPending'[k]
      /\ \/ UNCHANGED controlVars
         \/ control' = "none" /\ ~Asking' /\ (TimedOut' \/ ~running' \/ control # "pending")
      /\ \A c \in Chan : wpc'[c] = "poll" => wpc[c] = "poll"
  BY DEF IInv, TypeOK, QueuesOK, Disconnect, Call, CallWith, GotoWith, Idle
<1>5. /\ \A c \in Chan, code \in Codes : Writing(c, code)' => Writing(c, code)
      /\ Asking' => Asking
      /\ TimedOut => TimedOut' \/ ~running'
  <2>1. /\ \A u \in Threads \ {Owner} : pc'[u] = pc[u] /\ arg'[u] = arg[u]
        /\ pc'[Owner] \notin {"rawWrite", "rawUnsend", "ctlWrite"}
        /\ cmd' \in {cmd, None, Owner}
        /\ ctl' = ctl \/ (ctl = None /\ ctl' = Owner) \/ (ctl = Owner /\ ctl' = None)
        /\ Owner \in Threads /\ (pc[Owner] # "fail" \/ ~running')
    BY DEF IInv, TypeOK, ThreadsOK, LocksOK, ReplyInv, MutexInv, CtlPlaces, Disconnect, Call,
      CallWith, GotoWith, Idle
  <2> QED BY <2>1, ThreadGoes DEF IInv, ReplyInv
<1> QED BY <1>1, <1>2, <1>3, <1>4, <1>5, FewerKeeps DEF ReplyInv, IInv

\* OPEN gets no reply.
LEMMA OpenFailsReplies ==
  ASSUME IInv, IInv', ReplyInv, OpenFails
  PROVE  ReplyInv'
<1>1. KindInv'
  BY KindFrame DEF ReplyInv, IInv, TypeOK, ThreadsOK, WorkersOK, NetOK, OpenFails, Goto, GotoWith
<1>2. MutexInv'
  BY DEF ReplyInv, MutexInv, CmdPlaces, CtlPlaces, IInv, TypeOK, ThreadsOK, LocksOK, LifeInv,
    OpenFails, Goto, GotoWith
<1>3. Fewer
  BY LeftOut DEF IInv, TypeOK, WorkersOK, NetOK, OpenFails, Goto, GotoWith
<1>4. /\ UNCHANGED <<mode, pollPending>>
      /\ running' => running /\ \A k \in Keys : rawPending[k] <= rawPending'[k]
      /\ \/ UNCHANGED controlVars
         \/ control' = "none" /\ ~Asking' /\ (TimedOut' \/ ~running' \/ control # "pending")
      /\ \A c \in Chan : wpc'[c] = "poll" => wpc[c] = "poll"
  BY DEF IInv, TypeOK, QueuesOK, OpenFails, Goto, GotoWith
<1>5. /\ \A c \in Chan, code \in Codes : Writing(c, code)' => Writing(c, code)
      /\ Asking' => Asking
      /\ TimedOut => TimedOut' \/ ~running'
  <2>1. /\ \A u \in Threads \ {Owner} : pc'[u] = pc[u] /\ arg'[u] = arg[u]
        /\ pc'[Owner] \notin {"rawWrite", "rawUnsend", "ctlWrite"}
        /\ cmd' \in {cmd, None, Owner}
        /\ ctl' = ctl \/ (ctl = None /\ ctl' = Owner) \/ (ctl = Owner /\ ctl' = None)
        /\ Owner \in Threads /\ (pc[Owner] # "fail" \/ ~running')
    BY DEF IInv, TypeOK, ThreadsOK, LocksOK, ReplyInv, MutexInv, CtlPlaces, OpenFails, Goto,
      GotoWith
  <2> QED BY <2>1, ThreadGoes DEF IInv, ReplyInv
<1> QED BY <1>1, <1>2, <1>3, <1>4, <1>5, FewerKeeps DEF ReplyInv, IInv

\* The workers have ended.
LEMMA JoinReplies ==
  ASSUME IInv, IInv', ReplyInv, Join
  PROVE  ReplyInv'
<1>1. KindInv'
  BY KindFrame DEF ReplyInv, IInv, TypeOK, ThreadsOK, WorkersOK, NetOK, Join, Goto, GotoWith
<1>2. MutexInv'
  BY DEF ReplyInv, MutexInv, CmdPlaces, CtlPlaces, IInv, TypeOK, ThreadsOK, LocksOK, LifeInv, Join,
    Goto, GotoWith
<1>3. Fewer
  BY LeftOut DEF IInv, TypeOK, WorkersOK, NetOK, Join, Goto, GotoWith
<1>4. /\ UNCHANGED <<mode, pollPending>>
      /\ running' => running /\ \A k \in Keys : rawPending[k] <= rawPending'[k]
      /\ \/ UNCHANGED controlVars
         \/ control' = "none" /\ ~Asking' /\ (TimedOut' \/ ~running' \/ control # "pending")
      /\ \A c \in Chan : wpc'[c] = "poll" => wpc[c] = "poll"
  BY DEF IInv, TypeOK, QueuesOK, Join, Goto, GotoWith
<1>5. /\ \A c \in Chan, code \in Codes : Writing(c, code)' => Writing(c, code)
      /\ Asking' => Asking
      /\ TimedOut => TimedOut' \/ ~running'
  <2>1. /\ \A u \in Threads \ {Owner} : pc'[u] = pc[u] /\ arg'[u] = arg[u]
        /\ pc'[Owner] \notin {"rawWrite", "rawUnsend", "ctlWrite"}
        /\ cmd' \in {cmd, None, Owner}
        /\ ctl' = ctl \/ (ctl = None /\ ctl' = Owner) \/ (ctl = Owner /\ ctl' = None)
        /\ Owner \in Threads /\ (pc[Owner] # "fail" \/ ~running')
    BY DEF IInv, TypeOK, ThreadsOK, LocksOK, ReplyInv, MutexInv, CtlPlaces, Join, Goto, GotoWith
  <2> QED BY <2>1, ThreadGoes DEF IInv, ReplyInv
<1> QED BY <1>1, <1>2, <1>3, <1>4, <1>5, FewerKeeps DEF ReplyInv, IInv

\* The connections are closed.
LEMMA CloseReplies ==
  ASSUME IInv, IInv', ReplyInv, Close
  PROVE  ReplyInv'
<1>1. KindInv'
  BY KindFrame DEF ReplyInv, IInv, TypeOK, ThreadsOK, WorkersOK, NetOK, Close, Goto, GotoWith
<1>2. MutexInv'
  BY DEF ReplyInv, MutexInv, CmdPlaces, CtlPlaces, IInv, TypeOK, ThreadsOK, LocksOK, LifeInv, Close,
    Goto, GotoWith
<1>3. Fewer
  BY LeftOut DEF IInv, TypeOK, WorkersOK, NetOK, Close, Goto, GotoWith
<1>4. /\ UNCHANGED <<mode, pollPending>>
      /\ running' => running /\ \A k \in Keys : rawPending[k] <= rawPending'[k]
      /\ \/ UNCHANGED controlVars
         \/ control' = "none" /\ ~Asking' /\ (TimedOut' \/ ~running' \/ control # "pending")
      /\ \A c \in Chan : wpc'[c] = "poll" => wpc[c] = "poll"
  BY DEF IInv, TypeOK, QueuesOK, Close, Goto, GotoWith
<1>5. /\ \A c \in Chan, code \in Codes : Writing(c, code)' => Writing(c, code)
      /\ Asking' => Asking
      /\ TimedOut => TimedOut' \/ ~running'
  <2>1. /\ \A u \in Threads \ {Owner} : pc'[u] = pc[u] /\ arg'[u] = arg[u]
        /\ pc'[Owner] \notin {"rawWrite", "rawUnsend", "ctlWrite"}
        /\ cmd' \in {cmd, None, Owner}
        /\ ctl' = ctl \/ (ctl = None /\ ctl' = Owner) \/ (ctl = Owner /\ ctl' = None)
        /\ Owner \in Threads /\ (pc[Owner] # "fail" \/ ~running')
    BY DEF IInv, TypeOK, ThreadsOK, LocksOK, ReplyInv, MutexInv, CtlPlaces, Close, Goto, GotoWith
  <2> QED BY <2>1, ThreadGoes DEF IInv, ReplyInv
<1> QED BY <1>1, <1>2, <1>3, <1>4, <1>5, FewerKeeps DEF ReplyInv, IInv

\* An event is received.
LEMMA ReceiveReplies ==
  ASSUME IInv, IInv', ReplyInv, NEW t \in Threads, Receive(t)
  PROVE  ReplyInv'
<1>1. KindInv'
  BY KindFrame DEF ReplyInv, IInv, TypeOK, ThreadsOK, WorkersOK, NetOK, Receive, Call, CallWith,
    GotoWith, Idle
<1>2. MutexInv'
  BY DEF ReplyInv, MutexInv, CmdPlaces, CtlPlaces, IInv, TypeOK, ThreadsOK, LocksOK, LifeInv,
    Receive, Call, CallWith, GotoWith, Idle
<1>3. Fewer
  BY LeftOut DEF IInv, TypeOK, WorkersOK, NetOK, Receive, Call, CallWith, GotoWith, Idle
<1>4. /\ UNCHANGED <<mode, pollPending>>
      /\ running' => running /\ \A k \in Keys : rawPending[k] <= rawPending'[k]
      /\ \/ UNCHANGED controlVars
         \/ control' = "none" /\ ~Asking' /\ (TimedOut' \/ ~running' \/ control # "pending")
      /\ \A c \in Chan : wpc'[c] = "poll" => wpc[c] = "poll"
  BY DEF IInv, TypeOK, QueuesOK, Receive, Call, CallWith, GotoWith, Idle
<1>5. /\ \A c \in Chan, code \in Codes : Writing(c, code)' => Writing(c, code)
      /\ Asking' => Asking
      /\ TimedOut => TimedOut' \/ ~running'
  <2>1. /\ \A u \in Threads \ {t} : pc'[u] = pc[u] /\ arg'[u] = arg[u]
        /\ pc'[t] \notin {"rawWrite", "rawUnsend", "ctlWrite"}
        /\ cmd' \in {cmd, None, t}
        /\ ctl' = ctl \/ (ctl = None /\ ctl' = t) \/ (ctl = t /\ ctl' = None)
        /\ t \in Threads /\ (pc[t] # "fail" \/ ~running')
    BY DEF IInv, TypeOK, ThreadsOK, LocksOK, ReplyInv, MutexInv, CtlPlaces, Receive, Call, CallWith,
      GotoWith, Idle
  <2> QED BY <2>1, ThreadGoes DEF IInv, ReplyInv
<1> QED BY <1>1, <1>2, <1>3, <1>4, <1>5, FewerKeeps DEF ReplyInv, IInv

\* A raw frame is received.
LEMMA ReceiveRawReplies ==
  ASSUME IInv, IInv', ReplyInv, NEW t \in Threads, ReceiveRaw(t)
  PROVE  ReplyInv'
<1>1. KindInv'
  BY KindFrame DEF ReplyInv, IInv, TypeOK, ThreadsOK, WorkersOK, NetOK, ReceiveRaw, Call, CallWith,
    GotoWith, Idle
<1>2. MutexInv'
  BY DEF ReplyInv, MutexInv, CmdPlaces, CtlPlaces, IInv, TypeOK, ThreadsOK, LocksOK, LifeInv,
    ReceiveRaw, Call, CallWith, GotoWith, Idle
<1>3. Fewer
  BY LeftOut DEF IInv, TypeOK, WorkersOK, NetOK, ReceiveRaw, Call, CallWith, GotoWith, Idle
<1>4. /\ UNCHANGED <<mode, pollPending>>
      /\ running' => running /\ \A k \in Keys : rawPending[k] <= rawPending'[k]
      /\ \/ UNCHANGED controlVars
         \/ control' = "none" /\ ~Asking' /\ (TimedOut' \/ ~running' \/ control # "pending")
      /\ \A c \in Chan : wpc'[c] = "poll" => wpc[c] = "poll"
  BY DEF IInv, TypeOK, QueuesOK, ReceiveRaw, Call, CallWith, GotoWith, Idle
<1>5. /\ \A c \in Chan, code \in Codes : Writing(c, code)' => Writing(c, code)
      /\ Asking' => Asking
      /\ TimedOut => TimedOut' \/ ~running'
  <2>1. /\ \A u \in Threads \ {t} : pc'[u] = pc[u] /\ arg'[u] = arg[u]
        /\ pc'[t] \notin {"rawWrite", "rawUnsend", "ctlWrite"}
        /\ cmd' \in {cmd, None, t}
        /\ ctl' = ctl \/ (ctl = None /\ ctl' = t) \/ (ctl = t /\ ctl' = None)
        /\ t \in Threads /\ (pc[t] # "fail" \/ ~running')
    BY DEF IInv, TypeOK, ThreadsOK, LocksOK, ReplyInv, MutexInv, CtlPlaces, ReceiveRaw, Call,
      CallWith, GotoWith, Idle
  <2> QED BY <2>1, ThreadGoes DEF IInv, ReplyInv
<1> QED BY <1>1, <1>2, <1>3, <1>4, <1>5, FewerKeeps DEF ReplyInv, IInv

\* send begins.
LEMMA SendReplies ==
  ASSUME IInv, IInv', ReplyInv, NEW t \in Threads, Send(t)
  PROVE  ReplyInv'
<1>1. KindInv'
  BY KindFrame DEF ReplyInv, IInv, TypeOK, ThreadsOK, WorkersOK, NetOK, Send, Call, CallWith,
    GotoWith, Idle
<1>2. MutexInv'
  BY DEF ReplyInv, MutexInv, CmdPlaces, CtlPlaces, IInv, TypeOK, ThreadsOK, LocksOK, LifeInv, Send,
    Call, CallWith, GotoWith, Idle
<1>3. Fewer
  BY LeftOut DEF IInv, TypeOK, WorkersOK, NetOK, Send, Call, CallWith, GotoWith, Idle
<1>4. /\ UNCHANGED <<mode, pollPending>>
      /\ running' => running /\ \A k \in Keys : rawPending[k] <= rawPending'[k]
      /\ \/ UNCHANGED controlVars
         \/ control' = "none" /\ ~Asking' /\ (TimedOut' \/ ~running' \/ control # "pending")
      /\ \A c \in Chan : wpc'[c] = "poll" => wpc[c] = "poll"
  BY DEF IInv, TypeOK, QueuesOK, Send, Call, CallWith, GotoWith, Idle
<1>5. /\ \A c \in Chan, code \in Codes : Writing(c, code)' => Writing(c, code)
      /\ Asking' => Asking
      /\ TimedOut => TimedOut' \/ ~running'
  <2>1. /\ \A u \in Threads \ {t} : pc'[u] = pc[u] /\ arg'[u] = arg[u]
        /\ pc'[t] \notin {"rawWrite", "rawUnsend", "ctlWrite"}
        /\ cmd' \in {cmd, None, t}
        /\ ctl' = ctl \/ (ctl = None /\ ctl' = t) \/ (ctl = t /\ ctl' = None)
        /\ t \in Threads /\ (pc[t] # "fail" \/ ~running')
    BY DEF IInv, TypeOK, ThreadsOK, LocksOK, ReplyInv, MutexInv, CtlPlaces, Send, Call, CallWith,
      GotoWith, Idle
  <2> QED BY <2>1, ThreadGoes DEF IInv, ReplyInv
<1> QED BY <1>1, <1>2, <1>3, <1>4, <1>5, FewerKeeps DEF ReplyInv, IInv

\* send takes the command mutex.
LEMMA SendLockReplies ==
  ASSUME IInv, IInv', ReplyInv, NEW t \in Threads, SendLock(t)
  PROVE  ReplyInv'
<1>1. KindInv'
  <2>1. pc'[Owner] \in {"opening", "spawn", "spawn2"} => pc'[Owner] = pc[Owner]
    BY DEF IInv, TypeOK, ThreadsOK, SendLock, Goto, GotoWith
  <2>2. UNCHANGED <<mode, net, todo, hand, buffered, workers>>
    BY DEF SendLock
  <2> QED BY <2>1, <2>2, KindFrame DEF ReplyInv
<1>2. MutexInv'
  <2>1. /\ \A u \in Threads \ {t} : pc'[u] = pc[u]
        /\ cmd' = cmd \/ (cmd = None /\ cmd' = t) \/ (cmd = t /\ cmd' = None)
        /\ cmd' = t <=> pc'[t] \in CmdPlaces
    BY DEF IInv, TypeOK, ThreadsOK, LocksOK, ReplyInv, MutexInv, CmdPlaces, SendLock, Goto, GotoWith
  <2>2. /\ ctl' = ctl \/ (ctl = None /\ ctl' = t) \/ (ctl = t /\ ctl' = None)
        /\ pc'[t] \in CtlPlaces => ctl' = t
        /\ ctl' = t => pc'[t] \in CtlPlaces \cup {"fail"}
    <3>1. ctl' = ctl /\ pc[t] = "sendLock" /\ ctl # t
      BY DEF ReplyInv, MutexInv, CtlPlaces, SendLock
    <3>2. pc'[t] \in {"sendWrite", "idle"}
      BY DEF IInv, TypeOK, ThreadsOK, SendLock, Goto, GotoWith
    <3> QED BY <3>1, <3>2 DEF CtlPlaces
  <2>3. workers' = {} /\ pc'[Owner] \in {"idle", "opening", "spawn"} => cmd' = None
    BY DEF IInv, TypeOK, ThreadsOK, LocksOK, LifeInv, ReplyInv, MutexInv, SendLock, Goto, GotoWith
  <2>4. control' # "none" => ctl' # None /\ pc'[ctl'] \in {"ctlWrite", "ctlUnset", "ctlWait"}
    BY DEF IInv, TypeOK, ThreadsOK, LocksOK, ReplyInv, MutexInv, SendLock, Goto, GotoWith
  <2>5. pc' \in [Threads -> Places]
    BY DEF IInv, TypeOK, ThreadsOK
  <2> QED BY <2>1, <2>2, <2>3, <2>4, <2>5, MutexFrame DEF IInv, ReplyInv
<1>3. Fewer
  BY LeftOut DEF IInv, TypeOK, WorkersOK, NetOK, SendLock, Goto, GotoWith
<1>4. /\ UNCHANGED <<mode, pollPending>>
      /\ running' => running /\ \A k \in Keys : rawPending[k] <= rawPending'[k]
      /\ \/ UNCHANGED controlVars
         \/ control' = "none" /\ ~Asking' /\ (TimedOut' \/ ~running' \/ control # "pending")
      /\ \A c \in Chan : wpc'[c] = "poll" => wpc[c] = "poll"
  BY DEF IInv, TypeOK, QueuesOK, SendLock, Goto, GotoWith
<1>5. /\ \A c \in Chan, code \in Codes : Writing(c, code)' => Writing(c, code)
      /\ Asking' => Asking
      /\ TimedOut => TimedOut' \/ ~running'
  <2>1. /\ \A u \in Threads \ {t} : pc'[u] = pc[u] /\ arg'[u] = arg[u]
        /\ pc'[t] \notin {"rawWrite", "rawUnsend", "ctlWrite"}
        /\ cmd' \in {cmd, None, t}
        /\ ctl' = ctl \/ (ctl = None /\ ctl' = t) \/ (ctl = t /\ ctl' = None)
        /\ t \in Threads /\ (pc[t] # "fail" \/ ~running')
    BY DEF IInv, TypeOK, ThreadsOK, LocksOK, ReplyInv, MutexInv, CtlPlaces, SendLock, Goto, GotoWith
  <2> QED BY <2>1, ThreadGoes DEF IInv, ReplyInv
<1> QED BY <1>1, <1>2, <1>3, <1>4, <1>5, FewerKeeps DEF ReplyInv, IInv

\* A call stops the client.
LEMMA CallFailsReplies ==
  ASSUME IInv, IInv', ReplyInv, NEW t \in Threads, CallFails(t)
  PROVE  ReplyInv'
<1>1. KindInv'
  BY KindFrame DEF ReplyInv, IInv, TypeOK, ThreadsOK, WorkersOK, NetOK, CallFails, ReleaseControl,
    Goto, GotoWith
<1>2. MutexInv'
  <2>1. /\ \A u \in Threads \ {t} : pc'[u] = pc[u]
        /\ cmd' = cmd \/ (cmd = None /\ cmd' = t) \/ (cmd = t /\ cmd' = None)
        /\ cmd' = t <=> pc'[t] \in CmdPlaces
    BY DEF IInv, TypeOK, ThreadsOK, LocksOK, ReplyInv, MutexInv, CmdPlaces, CallFails,
      ReleaseControl, Goto, GotoWith
  <2>2. /\ ctl' = ctl \/ (ctl = None /\ ctl' = t) \/ (ctl = t /\ ctl' = None)
        /\ pc'[t] \in CtlPlaces => ctl' = t
        /\ ctl' = t => pc'[t] \in CtlPlaces \cup {"fail"}
    BY DEF IInv, TypeOK, ThreadsOK, LocksOK, ReplyInv, MutexInv, CtlPlaces, CallFails,
      ReleaseControl, Goto, GotoWith
  <2>3. workers' = {} /\ pc'[Owner] \in {"idle", "opening", "spawn"} => cmd' = None
    BY DEF IInv, TypeOK, ThreadsOK, LocksOK, LifeInv, ReplyInv, MutexInv, CallFails, ReleaseControl,
      Goto, GotoWith
  <2>4. control' # "none" => ctl' # None /\ pc'[ctl'] \in {"ctlWrite", "ctlUnset", "ctlWait"}
    BY DEF IInv, TypeOK, ThreadsOK, LocksOK, ReplyInv, MutexInv, CallFails, ReleaseControl, Goto,
      GotoWith
  <2>5. pc' \in [Threads -> Places]
    BY DEF IInv, TypeOK, ThreadsOK
  <2> QED BY <2>1, <2>2, <2>3, <2>4, <2>5, MutexFrame DEF IInv, ReplyInv
<1>3. Fewer
  BY LeftOut DEF IInv, TypeOK, WorkersOK, NetOK, CallFails, ReleaseControl, Goto, GotoWith
<1>4. /\ UNCHANGED <<mode, pollPending>>
      /\ running' => running /\ \A k \in Keys : rawPending[k] <= rawPending'[k]
      /\ \/ UNCHANGED controlVars
         \/ control' = "none" /\ ~Asking' /\ (TimedOut' \/ ~running' \/ control # "pending")
      /\ \A c \in Chan : wpc'[c] = "poll" => wpc[c] = "poll"
  BY DEF IInv, TypeOK, QueuesOK, CallFails, ReleaseControl, Goto, GotoWith
<1>5. /\ \A c \in Chan, code \in Codes : Writing(c, code)' => Writing(c, code)
      /\ Asking' => Asking
      /\ TimedOut => TimedOut' \/ ~running'
  <2>1. /\ \A u \in Threads \ {t} : pc'[u] = pc[u] /\ arg'[u] = arg[u]
        /\ pc'[t] \notin {"rawWrite", "rawUnsend", "ctlWrite"}
        /\ cmd' \in {cmd, None, t}
        /\ ctl' = ctl \/ (ctl = None /\ ctl' = t) \/ (ctl = t /\ ctl' = None)
        /\ t \in Threads /\ (pc[t] # "fail" \/ ~running')
    BY DEF IInv, TypeOK, ThreadsOK, LocksOK, ReplyInv, MutexInv, CtlPlaces, CallFails,
      ReleaseControl, Goto, GotoWith
  <2> QED BY <2>1, ThreadGoes DEF IInv, ReplyInv
<1> QED BY <1>1, <1>2, <1>3, <1>4, <1>5, FewerKeeps DEF ReplyInv, IInv

\* A raw request begins.
LEMMA SendRawReplies ==
  ASSUME IInv, IInv', ReplyInv, NEW t \in Threads, SendRaw(t)
  PROVE  ReplyInv'
<1>1. KindInv'
  BY KindFrame DEF ReplyInv, IInv, TypeOK, ThreadsOK, WorkersOK, NetOK, SendRaw, CallWith, GotoWith
<1>2. MutexInv'
  <2>1. /\ UNCHANGED <<cmd, ctl, control, workers>> /\ pc[t] = "idle" /\ cmd # t /\ ctl # t
    BY DEF ReplyInv, MutexInv, CmdPlaces, CtlPlaces, SendRaw, CallWith
  <2>2. /\ pc' \in [Threads -> Places] /\ pc'[t] = "rawLock"
        /\ \A u \in Threads \ {t} : pc'[u] = pc[u]
    BY DEF IInv, TypeOK, ThreadsOK, SendRaw, CallWith, GotoWith
  <2>3. workers' = {} /\ pc'[Owner] \in {"idle", "opening", "spawn"} => cmd' = None
    BY <2>1, <2>2 DEF ReplyInv, MutexInv
  <2>4. control' # "none" => ctl' # None /\ pc'[ctl'] \in {"ctlWrite", "ctlUnset", "ctlWait"}
    BY <2>1, <2>2 DEF IInv, TypeOK, LocksOK, ReplyInv, MutexInv
  <2>5. pc'[t] \notin CmdPlaces /\ pc'[t] \notin CtlPlaces
    BY <2>2 DEF CmdPlaces, CtlPlaces
  <2> QED BY <2>1, <2>2, <2>3, <2>4, <2>5, MutexFrame DEF IInv, ReplyInv
<1>3. Fewer
  BY LeftOut DEF IInv, TypeOK, WorkersOK, NetOK, SendRaw, CallWith, GotoWith
<1>4. /\ UNCHANGED <<mode, pollPending>>
      /\ running' => running /\ \A k \in Keys : rawPending[k] <= rawPending'[k]
      /\ \/ UNCHANGED controlVars
         \/ control' = "none" /\ ~Asking' /\ (TimedOut' \/ ~running' \/ control # "pending")
      /\ \A c \in Chan : wpc'[c] = "poll" => wpc[c] = "poll"
  BY DEF IInv, TypeOK, QueuesOK, SendRaw, CallWith, GotoWith
<1>5. /\ \A c \in Chan, code \in Codes : Writing(c, code)' => Writing(c, code)
      /\ Asking' => Asking
      /\ TimedOut => TimedOut' \/ ~running'
  <2>1. /\ \A u \in Threads \ {t} : pc'[u] = pc[u] /\ arg'[u] = arg[u]
        /\ pc'[t] \notin {"rawWrite", "rawUnsend", "ctlWrite"}
        /\ cmd' \in {cmd, None, t}
        /\ ctl' = ctl \/ (ctl = None /\ ctl' = t) \/ (ctl = t /\ ctl' = None)
        /\ t \in Threads /\ (pc[t] # "fail" \/ ~running')
    BY DEF IInv, TypeOK, ThreadsOK, LocksOK, ReplyInv, MutexInv, CtlPlaces, SendRaw, CallWith,
      GotoWith
  <2> QED BY <2>1, ThreadGoes DEF IInv, ReplyInv
<1> QED BY <1>1, <1>2, <1>3, <1>4, <1>5, FewerKeeps DEF ReplyInv, IInv

\* clear begins.
LEMMA ClearReplies ==
  ASSUME IInv, IInv', ReplyInv, NEW t \in Threads, Clear(t)
  PROVE  ReplyInv'
<1>1. KindInv'
  BY KindFrame DEF ReplyInv, IInv, TypeOK, ThreadsOK, WorkersOK, NetOK, Clear, Call, CallWith,
    GotoWith, Idle
<1>2. MutexInv'
  BY DEF ReplyInv, MutexInv, CmdPlaces, CtlPlaces, IInv, TypeOK, ThreadsOK, LocksOK, LifeInv, Clear,
    Call, CallWith, GotoWith, Idle
<1>3. Fewer
  BY LeftOut DEF IInv, TypeOK, WorkersOK, NetOK, Clear, Call, CallWith, GotoWith, Idle
<1>4. /\ UNCHANGED <<mode, pollPending>>
      /\ running' => running /\ \A k \in Keys : rawPending[k] <= rawPending'[k]
      /\ \/ UNCHANGED controlVars
         \/ control' = "none" /\ ~Asking' /\ (TimedOut' \/ ~running' \/ control # "pending")
      /\ \A c \in Chan : wpc'[c] = "poll" => wpc[c] = "poll"
  BY DEF IInv, TypeOK, QueuesOK, Clear, Call, CallWith, GotoWith, Idle
<1>5. /\ \A c \in Chan, code \in Codes : Writing(c, code)' => Writing(c, code)
      /\ Asking' => Asking
      /\ TimedOut => TimedOut' \/ ~running'
  <2>1. /\ \A u \in Threads \ {t} : pc'[u] = pc[u] /\ arg'[u] = arg[u]
        /\ pc'[t] \notin {"rawWrite", "rawUnsend", "ctlWrite"}
        /\ cmd' \in {cmd, None, t}
        /\ ctl' = ctl \/ (ctl = None /\ ctl' = t) \/ (ctl = t /\ ctl' = None)
        /\ t \in Threads /\ (pc[t] # "fail" \/ ~running')
    BY DEF IInv, TypeOK, ThreadsOK, LocksOK, ReplyInv, MutexInv, CtlPlaces, Clear, Call, CallWith,
      GotoWith, Idle
  <2> QED BY <2>1, ThreadGoes DEF IInv, ReplyInv
<1> QED BY <1>1, <1>2, <1>3, <1>4, <1>5, FewerKeeps DEF ReplyInv, IInv

\* clear takes the control mutex.
LEMMA ControlLockReplies ==
  ASSUME IInv, IInv', ReplyInv, NEW t \in Threads, ControlLock(t)
  PROVE  ReplyInv'
<1>1. KindInv'
  BY KindFrame DEF ReplyInv, IInv, TypeOK, ThreadsOK, WorkersOK, NetOK, ControlLock, Goto, GotoWith
<1>2. MutexInv'
  <2>1. /\ \A u \in Threads \ {t} : pc'[u] = pc[u]
        /\ cmd' = cmd \/ (cmd = None /\ cmd' = t) \/ (cmd = t /\ cmd' = None)
        /\ cmd' = t <=> pc'[t] \in CmdPlaces
    BY DEF IInv, TypeOK, ThreadsOK, LocksOK, ReplyInv, MutexInv, CmdPlaces, ControlLock, Goto,
      GotoWith
  <2>2. /\ ctl' = ctl \/ (ctl = None /\ ctl' = t) \/ (ctl = t /\ ctl' = None)
        /\ pc'[t] \in CtlPlaces => ctl' = t
        /\ ctl' = t => pc'[t] \in CtlPlaces \cup {"fail"}
    BY DEF IInv, TypeOK, ThreadsOK, LocksOK, ReplyInv, MutexInv, CtlPlaces, ControlLock, Goto,
      GotoWith
  <2>3. workers' = {} /\ pc'[Owner] \in {"idle", "opening", "spawn"} => cmd' = None
    BY DEF IInv, TypeOK, ThreadsOK, LocksOK, LifeInv, ReplyInv, MutexInv, ControlLock, Goto,
      GotoWith
  <2>4. control' # "none" => ctl' # None /\ pc'[ctl'] \in {"ctlWrite", "ctlUnset", "ctlWait"}
    BY DEF IInv, TypeOK, ThreadsOK, LocksOK, ReplyInv, MutexInv, ControlLock, Goto, GotoWith
  <2>5. pc' \in [Threads -> Places]
    BY DEF IInv, TypeOK, ThreadsOK
  <2> QED BY <2>1, <2>2, <2>3, <2>4, <2>5, MutexFrame DEF IInv, ReplyInv
<1>3. Fewer
  BY LeftOut DEF IInv, TypeOK, WorkersOK, NetOK, ControlLock, Goto, GotoWith
<1>4. /\ UNCHANGED <<mode, pollPending>>
      /\ running' => running /\ \A k \in Keys : rawPending[k] <= rawPending'[k]
      /\ \/ UNCHANGED controlVars
         \/ control' = "none" /\ ~Asking' /\ (TimedOut' \/ ~running' \/ control # "pending")
      /\ \A c \in Chan : wpc'[c] = "poll" => wpc[c] = "poll"
  BY DEF IInv, TypeOK, QueuesOK, ReplyInv, MutexInv, CtlPlaces, ThreadsOK, TimedOut,
    Asking, ControlLock,
    Goto, GotoWith
<1>5. /\ \A c \in Chan, code \in Codes : Writing(c, code)' => Writing(c, code)
      /\ Asking' => Asking
      /\ TimedOut => TimedOut' \/ ~running'
  <2>1. /\ \A u \in Threads \ {t} : pc'[u] = pc[u] /\ arg'[u] = arg[u]
        /\ pc'[t] \notin {"rawWrite", "rawUnsend", "ctlWrite"}
        /\ cmd' \in {cmd, None, t}
        /\ ctl' = ctl \/ (ctl = None /\ ctl' = t) \/ (ctl = t /\ ctl' = None)
        /\ t \in Threads /\ (pc[t] # "fail" \/ ~running')
    BY DEF IInv, TypeOK, ThreadsOK, LocksOK, ReplyInv, MutexInv, CtlPlaces, ControlLock, Goto,
      GotoWith
  <2> QED BY <2>1, ThreadGoes DEF IInv, ReplyInv
<1> QED BY <1>1, <1>2, <1>3, <1>4, <1>5, FewerKeeps DEF ReplyInv, IInv

\* A control request could not be written.
LEMMA ControlUnsetReplies ==
  ASSUME IInv, IInv', ReplyInv, NEW t \in Threads, ControlUnset(t)
  PROVE  ReplyInv'
<1>1. KindInv'
  BY KindFrame DEF ReplyInv, IInv, TypeOK, ThreadsOK, WorkersOK, NetOK, ControlUnset, EndControl,
    Goto, GotoWith
<1>2. MutexInv'
  BY DEF ReplyInv, MutexInv, CmdPlaces, CtlPlaces, IInv, TypeOK, ThreadsOK, LocksOK, LifeInv,
    ControlUnset, EndControl, Goto, GotoWith
<1>3. Fewer
  BY LeftOut DEF IInv, TypeOK, WorkersOK, NetOK, ControlUnset, EndControl, Goto, GotoWith
<1>4. /\ UNCHANGED <<mode, pollPending>>
      /\ running' => running /\ \A k \in Keys : rawPending[k] <= rawPending'[k]
      /\ \/ UNCHANGED controlVars
         \/ control' = "none" /\ ~Asking' /\ (TimedOut' \/ ~running' \/ control # "pending")
      /\ \A c \in Chan : wpc'[c] = "poll" => wpc[c] = "poll"
  BY DEF IInv, TypeOK, QueuesOK, ReplyInv, MutexInv, CtlPlaces, ThreadsOK, TimedOut,
    Asking, ControlUnset,
    EndControl, Goto, GotoWith
<1>5. /\ \A c \in Chan, code \in Codes : Writing(c, code)' => Writing(c, code)
      /\ Asking' => Asking
      /\ TimedOut => TimedOut' \/ ~running'
  <2>1. /\ \A u \in Threads \ {t} : pc'[u] = pc[u] /\ arg'[u] = arg[u]
        /\ pc'[t] \notin {"rawWrite", "rawUnsend", "ctlWrite"}
        /\ cmd' \in {cmd, None, t}
        /\ ctl' = ctl \/ (ctl = None /\ ctl' = t) \/ (ctl = t /\ ctl' = None)
        /\ t \in Threads /\ (pc[t] # "fail" \/ ~running')
    BY DEF IInv, TypeOK, ThreadsOK, LocksOK, ReplyInv, MutexInv, CtlPlaces, ControlUnset,
      EndControl, Goto, GotoWith
  <2> QED BY <2>1, ThreadGoes DEF IInv, ReplyInv
<1> QED BY <1>1, <1>2, <1>3, <1>4, <1>5, FewerKeeps DEF ReplyInv, IInv

\* The wait for the reply ends.
LEMMA ControlReturnsReplies ==
  ASSUME IInv, IInv', ReplyInv, NEW t \in Threads, ControlReturns(t)
  PROVE  ReplyInv'
<1>1. KindInv'
  BY KindFrame DEF ReplyInv, IInv, TypeOK, ThreadsOK, WorkersOK, NetOK, ControlReturns, EndControl,
    Goto, GotoWith
<1>2. MutexInv'
  <2>1. /\ \A u \in Threads \ {t} : pc'[u] = pc[u]
        /\ cmd' = cmd \/ (cmd = None /\ cmd' = t) \/ (cmd = t /\ cmd' = None)
        /\ cmd' = t <=> pc'[t] \in CmdPlaces
    BY DEF IInv, TypeOK, ThreadsOK, LocksOK, ReplyInv, MutexInv, CmdPlaces, ControlReturns,
      EndControl, Goto, GotoWith
  <2>2. /\ ctl' = ctl \/ (ctl = None /\ ctl' = t) \/ (ctl = t /\ ctl' = None)
        /\ pc'[t] \in CtlPlaces => ctl' = t
        /\ ctl' = t => pc'[t] \in CtlPlaces \cup {"fail"}
    BY DEF IInv, TypeOK, ThreadsOK, LocksOK, ReplyInv, MutexInv, CtlPlaces, ControlReturns,
      EndControl, Goto, GotoWith
  <2>3. workers' = {} /\ pc'[Owner] \in {"idle", "opening", "spawn"} => cmd' = None
    BY DEF IInv, TypeOK, ThreadsOK, LocksOK, LifeInv, ReplyInv, MutexInv, ControlReturns,
      EndControl, Goto, GotoWith
  <2>4. control' # "none" => ctl' # None /\ pc'[ctl'] \in {"ctlWrite", "ctlUnset", "ctlWait"}
    BY DEF IInv, TypeOK, ThreadsOK, LocksOK, ReplyInv, MutexInv, ControlReturns, EndControl, Goto,
      GotoWith
  <2>5. pc' \in [Threads -> Places]
    BY DEF IInv, TypeOK, ThreadsOK
  <2> QED BY <2>1, <2>2, <2>3, <2>4, <2>5, MutexFrame DEF IInv, ReplyInv
<1>3. Fewer
  BY LeftOut DEF IInv, TypeOK, WorkersOK, NetOK, ControlReturns, EndControl, Goto, GotoWith
<1>4. /\ UNCHANGED <<mode, pollPending>>
      /\ running' => running /\ \A k \in Keys : rawPending[k] <= rawPending'[k]
      /\ \/ UNCHANGED controlVars
         \/ control' = "none" /\ ~Asking' /\ (TimedOut' \/ ~running' \/ control # "pending")
      /\ \A c \in Chan : wpc'[c] = "poll" => wpc[c] = "poll"
  <2>1. /\ UNCHANGED <<mode, pollPending, running, rawPending, wpc>>
        /\ control' = "none" /\ ctl' = None /\ (control = "complete" \/ ~running')
    BY DEF ControlReturns, EndControl
  <2>2. \A k \in Keys : rawPending[k] <= rawPending'[k]
    BY <2>1 DEF IInv, TypeOK, QueuesOK
  <2> QED BY <2>1, <2>2 DEF Asking
<1>5. /\ \A c \in Chan, code \in Codes : Writing(c, code)' => Writing(c, code)
      /\ Asking' => Asking
      /\ TimedOut => TimedOut' \/ ~running'
  <2>1. /\ \A u \in Threads \ {t} : pc'[u] = pc[u] /\ arg'[u] = arg[u]
        /\ pc'[t] \notin {"rawWrite", "rawUnsend", "ctlWrite"}
        /\ cmd' \in {cmd, None, t}
        /\ ctl' = ctl \/ (ctl = None /\ ctl' = t) \/ (ctl = t /\ ctl' = None)
        /\ t \in Threads /\ (pc[t] # "fail" \/ ~running')
    BY DEF IInv, TypeOK, ThreadsOK, LocksOK, ReplyInv, MutexInv, CtlPlaces, ControlReturns,
      EndControl, Goto, GotoWith
  <2> QED BY <2>1, ThreadGoes DEF IInv, ReplyInv
<1> QED BY <1>1, <1>2, <1>3, <1>4, <1>5, FewerKeeps DEF ReplyInv, IInv

\* A control request has timed out.
LEMMA ControlTimeoutReplies ==
  ASSUME IInv, IInv', ReplyInv, NEW t \in Threads, ControlTimeout(t)
  PROVE  ReplyInv'
<1>1. KindInv'
  BY KindFrame DEF ReplyInv, IInv, TypeOK, ThreadsOK, WorkersOK, NetOK, ControlTimeout, EndControl,
    Goto, GotoWith
<1>2. MutexInv'
  BY DEF ReplyInv, MutexInv, CmdPlaces, CtlPlaces, IInv, TypeOK, ThreadsOK, LocksOK, LifeInv,
    ControlTimeout, EndControl, Goto, GotoWith
<1>3. Fewer
  BY LeftOut DEF IInv, TypeOK, WorkersOK, NetOK, ControlTimeout, EndControl, Goto, GotoWith
<1>4. /\ UNCHANGED <<mode, pollPending>>
      /\ running' => running /\ \A k \in Keys : rawPending[k] <= rawPending'[k]
      /\ \/ UNCHANGED controlVars
         \/ control' = "none" /\ ~Asking' /\ (TimedOut' \/ ~running' \/ control # "pending")
      /\ \A c \in Chan : wpc'[c] = "poll" => wpc[c] = "poll"
  BY DEF IInv, TypeOK, QueuesOK, ReplyInv, MutexInv, CtlPlaces, ThreadsOK, TimedOut,
    Asking, ControlTimeout,
    EndControl, Goto, GotoWith
<1>5. /\ \A c \in Chan, code \in Codes : Writing(c, code)' => Writing(c, code)
      /\ Asking' => Asking
      /\ TimedOut => TimedOut' \/ ~running'
  <2>1. /\ \A u \in Threads \ {t} : pc'[u] = pc[u] /\ arg'[u] = arg[u]
        /\ pc'[t] \notin {"rawWrite", "rawUnsend", "ctlWrite"}
        /\ cmd' \in {cmd, None, t}
        /\ ctl' = ctl \/ (ctl = None /\ ctl' = t) \/ (ctl = t /\ ctl' = None)
        /\ t \in Threads /\ (pc[t] # "fail" \/ ~running')
    BY DEF IInv, TypeOK, ThreadsOK, LocksOK, ReplyInv, MutexInv, CtlPlaces, ControlTimeout,
      EndControl, Goto, GotoWith
  <2> QED BY <2>1, ThreadGoes DEF IInv, ReplyInv
<1> QED BY <1>1, <1>2, <1>3, <1>4, <1>5, FewerKeeps DEF ReplyInv, IInv

-----------------------------------------------------------------------------
(* The server, and the frames a worker takes.                               *)

\* A reply or an event has been put on connection c, the reply at the end.
Arrival(c, f) ==
  /\ \A code \in Codes, by \in Askers :
       Number(net'[c], code, by) =
         Number(net[c], code, by) + (IF Answers(f, code, by) THEN 1 ELSE 0)
  /\ \A i \in 1 .. Len(net'[c]) :
       \/ \E j \in 1 .. Len(net[c]) : net'[c][i] = net[c][j]
       \/ net'[c][i] = f
       \/ net'[c][i].code = "NONE" /\ net'[c][i].by = "none"

\* One frame is put there.
LEMMA ArrivalOfOne ==
  ASSUME TypeOK, NEW c \in Chan, NEW f \in FrameSet, net' = [net EXCEPT ![c] = @ \o <<f>>]
  PROVE  Arrival(c, f)
<1>1. net[c] \in Seq(FrameSet) /\ net'[c] = net[c] \o <<f>>
  BY DEF TypeOK, NetOK
<1>2. /\ net'[c] \in Seq(FrameSet) /\ Len(net[c]) \in Nat /\ Len(net'[c]) = Len(net[c]) + 1
      /\ \A i \in 1 .. Len(net[c]) : net'[c][i] = net[c][i]
      /\ net'[c][Len(net[c]) + 1] = f
  BY <1>1, JoinedOne
<1>3. \A code \in Codes, by \in Askers :
        Number(net'[c], code, by) =
          Number(net[c], code, by) + (IF Answers(f, code, by) THEN 1 ELSE 0)
  BY <1>1, NumberJoined
<1>4. \A i \in 1 .. Len(net'[c]) : i \in 1 .. Len(net[c]) \/ i = Len(net[c]) + 1
  BY <1>2
<1> QED BY <1>2, <1>3, <1>4 DEF Arrival

\* An event and a reply are put there.
LEMMA ArrivalOfTwo ==
  ASSUME TypeOK, NEW c \in Chan, NEW e \in FrameSet, NEW f \in FrameSet,
         e.code = "NONE", e.by = "none", net' = [net EXCEPT ![c] = @ \o <<e, f>>]
  PROVE  Arrival(c, f)
<1>1. net[c] \in Seq(FrameSet) /\ net'[c] = net[c] \o <<e, f>>
  BY DEF TypeOK, NetOK
<1>2. /\ net'[c] \in Seq(FrameSet) /\ Len(net[c]) \in Nat /\ Len(net'[c]) = Len(net[c]) + 2
      /\ \A i \in 1 .. Len(net[c]) : net'[c][i] = net[c][i]
      /\ net'[c][Len(net[c]) + 1] = e /\ net'[c][Len(net[c]) + 2] = f
  BY <1>1, JoinedTwo
<1>5. \A code \in Codes, by \in Askers :
        Number(net'[c], code, by) =
          Number(net[c], code, by) + (IF Answers(f, code, by) THEN 1 ELSE 0)
  <2>1. \A code \in Codes, by \in Askers : ~Answers(e, code, by)
    BY DEF Answers, Codes
  <2> QED BY <1>1, <2>1, NumberJoinedTwo
<1>6. \A i \in 1 .. Len(net'[c]) :
        i \in 1 .. Len(net[c]) \/ i \in {Len(net[c]) + 1, Len(net[c]) + 2}
  BY <1>2
<1> QED BY <1>2, <1>5, <1>6 DEF Arrival

\* The reply to the oldest request takes its place among those to come.
LEMMA AnsweredFlow ==
  ASSUME TypeOK, TypeOK', NEW c \in Chan, NEW f \in FrameSet, Arrival(c, f),
         todo[c] # <<>>, todo'[c] = Tail(todo[c]), UNCHANGED <<wpc, hand>>,
         \A d \in Chan \ {c} : net'[d] = net[d] /\ todo'[d] = todo[d],
         f.code = Head(todo[c]).code, f.by = Head(todo[c]).by, f.n = Head(todo[c]).n
  PROVE  Fewer
<1>1. /\ todo[c] \in Seq(RequestSet) /\ todo'[c] \in Seq(RequestSet)
      /\ Len(todo[c]) \in Nat /\ Len(todo[c]) >= 1 /\ Len(todo'[c]) = Len(todo[c]) - 1
      /\ \A i \in 1 .. Len(todo'[c]) : i + 1 \in 1 .. Len(todo[c]) /\ todo'[c][i] = todo[c][i + 1]
      /\ Head(todo[c]) = todo[c][1] /\ 1 \in 1 .. Len(todo[c])
  <2>1. todo[c] \in Seq(RequestSet)
    BY DEF TypeOK, NetOK
  <2>2. /\ Tail(todo[c]) \in Seq(RequestSet) /\ Len(todo[c]) \in Nat /\ Len(todo[c]) >= 1
        /\ Len(Tail(todo[c])) = Len(todo[c]) - 1
        /\ \A i \in 1 .. Len(todo[c]) - 1 : Tail(todo[c])[i] = todo[c][i + 1]
        /\ Head(todo[c]) = todo[c][1]
    BY <2>1, Popped
  <2> QED BY <2>1, <2>2
<1>2. \A d \in Chan, code \in Codes, by \in Askers : InHand(d, code, by)' <=> InHand(d, code, by)
  BY DEF InHand
<1>3. ASSUME NEW d \in Chan, NEW code \in Codes, NEW by \in Askers
      PROVE  Coming(d, code, by)' <= Coming(d, code, by)
  <2>1. /\ Number(net[d], code, by) \in Nat /\ Number(todo[d], code, by) \in Nat
        /\ Number(net'[d], code, by) \in Nat /\ Number(todo'[d], code, by) \in Nat
    BY ComingType, ComingTypeNext
  <2>2. Number(net'[d], code, by) + Number(todo'[d], code, by) =
          Number(net[d], code, by) + Number(todo[d], code, by)
    <3>1. CASE d # c
      BY <3>1
    <3>2. CASE d = c
      <4>1. Answers(f, code, by) <=> Answers(Head(todo[c]), code, by)
        BY DEF Answers
      <4>2. Number(todo[c], code, by) =
              Number(todo'[c], code, by) + (IF Answers(Head(todo[c]), code, by) THEN 1 ELSE 0)
        BY <1>1, NumberTaken
      <4>3. Number(net'[c], code, by) =
              Number(net[c], code, by) + (IF Answers(f, code, by) THEN 1 ELSE 0)
        BY DEF Arrival
      <4> QED BY <2>1, <3>2, <4>1, <4>2, <4>3
    <3> QED BY <3>1, <3>2
  <2> QED BY <1>2, <2>1, <2>2 DEF Coming
<1>4. ASSUME NEW d \in Chan, NEW n, ForRequest(d, n)
      PROVE  ForRequest(d, n)'
  <2>1. CASE d # c
    BY <1>4, <2>1 DEF ForRequest, InHand
  <2>2. CASE d = c
    <3>1. /\ \A i \in 1 .. Len(net[c]) : Answers(net[c][i], "CLEAR", "control") => net[c][i].n = n
          /\ \A i \in 1 .. Len(todo[c]) : Answers(todo[c][i], "CLEAR", "control") => todo[c][i].n = n
      <4>1. /\ \A i \in DOMAIN net[c] : Answers(net[c][i], "CLEAR", "control") => net[c][i].n = n
            /\ \A i \in DOMAIN todo[c] : Answers(todo[c][i], "CLEAR", "control") => todo[c][i].n = n
        BY <1>4, <2>2 DEF ForRequest
      <4>2. DOMAIN net[c] = 1 .. Len(net[c]) /\ DOMAIN todo[c] = 1 .. Len(todo[c])
        BY DEF TypeOK, NetOK
      <4> QED BY <4>1, <4>2
    <3>2. \A i \in 1 .. Len(todo'[c]) :
            Answers(todo'[c][i], "CLEAR", "control") => todo'[c][i].n = n
      BY <1>1, <3>1
    <3>3. Answers(f, "CLEAR", "control") => f.n = n
      BY <1>1, <3>1 DEF Answers
    <3>4. \A i \in 1 .. Len(net'[c]) :
            Answers(net'[c][i], "CLEAR", "control") => net'[c][i].n = n
      BY <3>1, <3>3 DEF Arrival, Answers
    <3>5. DOMAIN net'[c] = 1 .. Len(net'[c]) /\ DOMAIN todo'[c] = 1 .. Len(todo'[c])
      BY DEF TypeOK, NetOK
    <3>6. InHand(c, "CLEAR", "control")' => hand'[c].n = n
      BY <1>4, <2>2 DEF ForRequest, InHand
    <3> QED BY <2>2, <3>2, <3>4, <3>5, <3>6 DEF ForRequest
  <2> QED BY <2>1, <2>2
<1> QED BY <1>3, <1>4 DEF Fewer

\* An event is no reply.
LEMMA EventFlow ==
  ASSUME TypeOK, TypeOK', NEW c \in Chan, NEW f \in FrameSet, Arrival(c, f),
         f.code = "NONE", UNCHANGED <<todo, wpc, hand>>, \A d \in Chan \ {c} : net'[d] = net[d]
  PROVE  Fewer
<1>1. ASSUME NEW d \in Chan, NEW code \in Codes, NEW by \in Askers
      PROVE  Coming(d, code, by)' <= Coming(d, code, by)
  <2>1. /\ Number(net[d], code, by) \in Nat /\ Number(todo[d], code, by) \in Nat
        /\ Number(net'[d], code, by) \in Nat /\ Number(todo'[d], code, by) \in Nat
    BY ComingType, ComingTypeNext
  <2>2. Number(net'[d], code, by) = Number(net[d], code, by)
    <3>1. ~Answers(f, code, by)
      BY DEF Answers, Codes
    <3>2. CASE d # c
      BY <3>2
    <3>3. CASE d = c
      <4>1. Number(net'[c], code, by) =
              Number(net[c], code, by) + (IF Answers(f, code, by) THEN 1 ELSE 0)
        BY DEF Arrival
      <4> QED BY <2>1, <3>1, <3>3, <4>1
    <3> QED BY <3>2, <3>3
  <2> QED BY <2>1, <2>2 DEF Coming, InHand
<1>2. ASSUME NEW d \in Chan, NEW n, ForRequest(d, n)
      PROVE  ForRequest(d, n)'
  <2>1. DOMAIN net[d] = 1 .. Len(net[d]) /\ DOMAIN net'[d] = 1 .. Len(net'[d])
    BY DEF TypeOK, NetOK
  <2>2. \A i \in 1 .. Len(net[d]) : Answers(net[d][i], "CLEAR", "control") => net[d][i].n = n
    BY <1>2, <2>1 DEF ForRequest
  <2>3. \A i \in 1 .. Len(net'[d]) : Answers(net'[d][i], "CLEAR", "control") => net'[d][i].n = n
    <3>1. CASE d # c
      BY <2>2, <3>1
    <3>2. CASE d = c
      BY <2>2, <3>2 DEF Arrival, Answers
    <3> QED BY <3>1, <3>2
  <2>4. InHand(d, "CLEAR", "control")' <=> InHand(d, "CLEAR", "control")
    BY DEF InHand
  <2>5. \A i \in DOMAIN todo[d] : Answers(todo[d][i], "CLEAR", "control") => todo[d][i].n = n
    BY <1>2 DEF ForRequest
  <2> QED BY <1>2, <2>1, <2>3, <2>4, <2>5 DEF ForRequest
<1> QED BY <1>1, <1>2 DEF Fewer

\* What arrives is proper if the reply is.
LEMMA KindArrival ==
  ASSUME TypeOK, KindInv, NEW c \in Chan, NEW f \in FrameSet, Arrival(c, f),
         UNCHANGED <<mode, hand, buffered, workers, pc>>,
         todo'[c] = todo[c] \/ (todo[c] # <<>> /\ todo'[c] = Tail(todo[c])),
         \A d \in Chan \ {c} : net'[d] = net[d] /\ todo'[d] = todo[d],
         Proper(c, f), Asks(f) => pc[Owner] \notin {"opening", "spawn"}
  PROVE  KindInv'
<1>1. PICK R \in Chan : R = Normal("receive") /\ Normal("receive")' = R
  BY NormalIsChan DEF Normal, Chan
<1>2. Polling' = Polling /\ Channels' = Channels
  BY DEF Polling, Channels
<1>3. \A d \in Chan : \A m : Proper(d, m)' <=> Proper(d, m)
  BY <1>1, <1>2 DEF Proper
<1>4. \A d \in Chan : \A m : m.code = "NONE" /\ m.by = "none" => Proper(d, m) /\ ~Asks(m)
  BY DEF Proper, Asks
<1>5. \A i \in 1 .. Len(todo'[c]) : \E j \in 1 .. Len(todo[c]) : todo'[c][i] = todo[c][j]
  <2>1. CASE todo'[c] = todo[c]
    BY <2>1
  <2>2. CASE todo[c] # <<>> /\ todo'[c] = Tail(todo[c])
    <3>1. todo[c] \in Seq(RequestSet)
      BY DEF TypeOK, NetOK
    <3>2. /\ Len(todo[c]) \in Nat /\ Len(todo'[c]) = Len(todo[c]) - 1
          /\ \A i \in 1 .. Len(todo[c]) - 1 : todo'[c][i] = todo[c][i + 1]
      BY <2>2, <3>1, Popped
    <3>3. \A i \in 1 .. Len(todo'[c]) : i + 1 \in 1 .. Len(todo[c]) /\ todo'[c][i] = todo[c][i + 1]
      BY <3>2
    <3> QED BY <3>3
  <2> QED BY <2>1, <2>2
<1>6. \A d \in Chan : /\ Proper(d, hand[d])
                      /\ \A i \in 1 .. Len(net[d]) : Proper(d, net[d][i])
                      /\ \A i \in 1 .. Len(todo[d]) : Proper(d, todo[d][i])
  BY DEF KindInv
<1>7. /\ \A i \in 1 .. Len(net'[c]) : Proper(c, net'[c][i])
      /\ \A i \in 1 .. Len(todo'[c]) : Proper(c, todo'[c][i])
  BY <1>4, <1>5, <1>6 DEF Arrival
<1>8. ASSUME pc[Owner] \in {"opening", "spawn"}
      PROVE  /\ \A i \in 1 .. Len(net'[c]) : ~Asks(net'[c][i])
             /\ \A i \in 1 .. Len(todo'[c]) : ~Asks(todo'[c][i])
  <2>1. /\ \A i \in 1 .. Len(net[c]) : ~Asks(net[c][i])
        /\ \A i \in 1 .. Len(todo[c]) : ~Asks(todo[c][i])
    BY <1>8 DEF KindInv
  <2> QED BY <1>4, <1>5, <1>8, <2>1 DEF Arrival
<1>9. \A d \in Chan : /\ Proper(d, hand'[d])
                      /\ \A i \in 1 .. Len(net'[d]) : Proper(d, net'[d][i])
                      /\ \A i \in 1 .. Len(todo'[d]) : Proper(d, todo'[d][i])
  BY <1>6, <1>7
<1>10. pc[Owner] \in {"opening", "spawn"} =>
         \A d \in Chan : /\ \A i \in 1 .. Len(net'[d]) : ~Asks(net'[d][i])
                         /\ \A i \in 1 .. Len(todo'[d]) : ~Asks(todo'[d][i])
  BY <1>8 DEF KindInv
<1>11. /\ \A i \in 1 .. Len(buffered) : Proper(R, buffered[i]) /\ ~Asks(buffered[i])
       /\ workers \subseteq Channels /\ (pc[Owner] = "spawn2" => mode = "two")
  BY <1>1 DEF KindInv
<1> QED BY <1>1, <1>2, <1>3, <1>9, <1>10, <1>11 DEF KindInv, Proper, Asks

\* What the threads of the application and the requests that wait are not
\* concerned by.
LEMMA RestKeeps ==
  ASSUME TypeOK, TypeOK', ReplyInv, Fewer,
         UNCHANGED <<mode, running, workers, rawPending, pollPending, control, asked, answer, cmd,
                     ctl, pc, arg>>,
         \A d \in Chan : wpc'[d] = "poll" => wpc[d] = "poll"
  PROVE  MutexInv' /\ ControlInv' /\ RawInv' /\ PollInv'
<1>1. MutexInv'
  BY DEF ReplyInv, MutexInv
<1>2. /\ \A d \in Chan, code \in Codes : Writing(d, code)' => Writing(d, code)
      /\ Asking' => Asking
      /\ TimedOut => TimedOut'
  BY DEF Writing, Asking, TimedOut, Key
<1>3. \A k \in Keys : rawPending[k] <= rawPending'[k]
  BY DEF TypeOK, QueuesOK
<1> QED BY <1>1, <1>2, <1>3, FewerKeeps DEF ReplyInv

\* The server sends an event.
LEMMA ServerEventReplies ==
  ASSUME IInv, IInv', ReplyInv, NEW c \in Chan, ServerEvent(c)
  PROVE  ReplyInv'
<1>1. PICK ok \in {"ok", "bad"} : net' = [net EXCEPT ![c] = @ \o <<Event(sent'[c], ok)>>]
  BY DEF ServerEvent, Deliver
<1>2. UNCHANGED <<mode, running, workers, hand, wpc, buffered, todo, rawPending, pollPending,
                  control, asked, answer, cmd, ctl, pc, arg>>
  BY DEF ServerEvent
<1>3. sent'[c] = sent[c] + 1 /\ sent'[c] \in Nat /\ sent'[c] > 0
  BY DEF ServerEvent, IInv, TypeOK, NetOK
<1>4. Event(sent'[c], ok) \in FrameSet
  BY <1>3, EventIsFrame
<1>5. Event(sent'[c], ok).code = "NONE" /\ Event(sent'[c], ok).by = "none"
  BY DEF Event
<1>6. PICK f \in FrameSet : /\ net' = [net EXCEPT ![c] = @ \o <<f>>]
                            /\ f.code = "NONE" /\ f.by = "none"
  BY <1>1, <1>4, <1>5
<1>7. Arrival(c, f)
  BY <1>6, ArrivalOfOne DEF IInv
<1>8. Proper(c, f) /\ ~Asks(f)
  BY <1>6 DEF Proper, Asks
<1>9. \A d \in Chan \ {c} : net'[d] = net[d]
  BY <1>6 DEF IInv, TypeOK, NetOK
<1>10. Fewer
  BY <1>2, <1>6, <1>7, <1>9, EventFlow DEF IInv
<1>11. KindInv'
  BY <1>2, <1>7, <1>8, <1>9, KindArrival DEF IInv, ReplyInv
<1> QED BY <1>2, <1>10, <1>11, RestKeeps DEF IInv, ReplyInv

\* The server answers a request.
LEMMA ServerRepliesReplies ==
  ASSUME IInv, IInv', ReplyInv, NEW c \in Chan, ServerReplies(c)
  PROVE  ReplyInv'
<1>1. /\ UNCHANGED <<mode, running, workers, hand, wpc, buffered, rawPending, pollPending,
                     control, asked, answer, cmd, ctl, pc, arg>>
      /\ todo[c] # <<>> /\ todo' = [todo EXCEPT ![c] = Tail(@)]
  BY DEF ServerReplies
<1>2. /\ todo[c] \in Seq(RequestSet) /\ todo'[c] = Tail(todo[c])
      /\ \A d \in Chan \ {c} : todo'[d] = todo[d]
      /\ sent \in [Chan -> Nat] /\ sent[c] \in Nat
  BY <1>1 DEF IInv, TypeOK, NetOK
<1>3. PICK r \in RequestSet : r = Head(todo[c]) /\ r = todo[c][1] /\ 1 \in 1 .. Len(todo[c])
  BY <1>1, <1>2, Popped
<1>4. ASSUME NEW ev, NEW ok, Reply(r, ev, ok) \in FrameSet
      PROVE  \E f \in FrameSet : /\ f = Reply(r, ev, ok)
                                 /\ f.code = r.code /\ f.by = r.by /\ f.n = r.n
  <2>1. /\ Reply(r, ev, ok).code = r.code /\ Reply(r, ev, ok).by = r.by
        /\ Reply(r, ev, ok).n = r.n
    BY DEF Reply
  <2> QED BY <1>4, <2>1
<1>5. PICK f \in FrameSet : /\ f.code = r.code /\ f.by = r.by /\ f.n = r.n
                            /\ Arrival(c, f)
                            /\ \A d \in Chan \ {c} : net'[d] = net[d]
  <2>1. CASE \E ok \in {IF r.by = "poll" THEN "empty" ELSE "ok", "error", "bad"} :
               Deliver(c, <<Reply(r, IF r.by = "control" THEN sent[c] ELSE 0, ok)>>)
    <3>1. PICK ok \in {"ok", "empty", "error", "bad"}, ev \in {0, sent[c]} :
            net' = [net EXCEPT ![c] = @ \o <<Reply(r, ev, ok)>>]
      BY <2>1 DEF Deliver
    <3>2. Reply(r, ev, ok) \in FrameSet
      BY <1>2, ReplyIsFrame
    <3>3. PICK f \in FrameSet : /\ net' = [net EXCEPT ![c] = @ \o <<f>>]
                                /\ f.code = r.code /\ f.by = r.by /\ f.n = r.n
      <4>1. PICK f \in FrameSet : /\ f = Reply(r, ev, ok)
                                  /\ f.code = r.code /\ f.by = r.by /\ f.n = r.n
        BY <1>4, <3>2
      <4> QED BY <3>1, <4>1
    <3>4. \A d \in Chan \ {c} : net'[d] = net[d]
      BY <3>3 DEF IInv, TypeOK, NetOK
    <3> QED BY <3>3, <3>4, ArrivalOfOne DEF IInv
  <2>2. CASE /\ r.by = "poll" /\ sent' = [sent EXCEPT ![c] = @ + 1]
             /\ Deliver(c, <<Reply(r, sent'[c], "event")>>)
    <3>1. sent'[c] = sent[c] + 1
      BY <1>2, <2>2
    <3>2. Reply(r, sent[c] + 1, "event") \in FrameSet
      BY <1>2, <2>2, ReplyIsFrame
    <3>3. PICK f \in FrameSet : /\ net' = [net EXCEPT ![c] = @ \o <<f>>]
                                /\ f.code = r.code /\ f.by = r.by /\ f.n = r.n
      <4>1. PICK f \in FrameSet : /\ f = Reply(r, sent[c] + 1, "event")
                                  /\ f.code = r.code /\ f.by = r.by /\ f.n = r.n
        BY <1>4, <3>2
      <4>2. net' = [net EXCEPT ![c] = @ \o <<Reply(r, sent[c] + 1, "event")>>]
        BY <2>2, <3>1 DEF Deliver
      <4> QED BY <4>1, <4>2
    <3>4. \A d \in Chan \ {c} : net'[d] = net[d]
      BY <3>3 DEF IInv, TypeOK, NetOK
    <3> QED BY <3>3, <3>4, ArrivalOfOne DEF IInv
  <2>3. CASE /\ r.by = "poll" /\ sent' = [sent EXCEPT ![c] = @ + 1]
             /\ Deliver(c, <<Event(sent'[c], "ok"), Reply(r, 0, "ok")>>)
    <3>1. sent'[c] = sent[c] + 1
      BY <1>2, <2>3
    <3>2. Event(sent[c] + 1, "ok") \in FrameSet /\ Reply(r, 0, "ok") \in FrameSet
      <4>1. sent[c] + 1 \in Nat /\ sent[c] + 1 > 0 /\ 0 \in Nat
        BY <1>2
      <4>2. Event(sent[c] + 1, "ok") \in FrameSet
        BY <4>1, EventIsFrame
      <4>3. Reply(r, 0, "ok") \in FrameSet
        BY <4>1, ReplyIsFrame
      <4> QED BY <4>2, <4>3
    <3>3. PICK e \in FrameSet, f \in FrameSet :
            /\ net' = [net EXCEPT ![c] = @ \o <<e, f>>]
            /\ e.code = "NONE" /\ e.by = "none"
            /\ f.code = r.code /\ f.by = r.by /\ f.n = r.n
      <4>1. PICK f \in FrameSet : /\ f = Reply(r, 0, "ok")
                                  /\ f.code = r.code /\ f.by = r.by /\ f.n = r.n
        BY <1>4, <3>2
      <4>2. PICK e \in FrameSet : /\ e = Event(sent[c] + 1, "ok")
                                  /\ e.code = "NONE" /\ e.by = "none"
        BY <3>2 DEF Event
      <4>3. net' = [net EXCEPT ![c] = @ \o <<Event(sent[c] + 1, "ok"), Reply(r, 0, "ok")>>]
        BY <2>3, <3>1 DEF Deliver
      <4> QED BY <4>1, <4>2, <4>3
    <3>4. \A d \in Chan \ {c} : net'[d] = net[d]
      BY <3>3 DEF IInv, TypeOK, NetOK
    <3> QED BY <3>3, <3>4, ArrivalOfTwo DEF IInv
  <2> QED BY <1>3, <2>1, <2>2, <2>3 DEF ServerReplies
<1>6. Fewer
  BY <1>1, <1>2, <1>3, <1>5, AnsweredFlow DEF IInv
<1>7. Proper(c, r) /\ (Asks(r) => pc[Owner] \notin {"opening", "spawn"})
  BY <1>3 DEF ReplyInv, KindInv
<1>8. Proper(c, f) /\ (Asks(f) => pc[Owner] \notin {"opening", "spawn"})
  BY <1>5, <1>7 DEF Proper, Asks
<1>9. KindInv'
  BY <1>1, <1>2, <1>5, <1>8, KindArrival DEF IInv, ReplyInv
<1> QED BY <1>1, <1>6, <1>9, RestKeeps DEF IInv, ReplyInv

\* The head of what is on its way leaves it, to the worker's hand or not.
LEMMA TakenFlow ==
  ASSUME TypeOK, TypeOK', NEW c \in Chan, net[c] # <<>>, net'[c] = Tail(net[c]), UNCHANGED todo,
         \A d \in Chan \ {c} : net'[d] = net[d] /\ wpc'[d] = wpc[d] /\ hand'[d] = hand[d],
         wpc[c] # "frame", wpc'[c] = "frame" => hand'[c] = Head(net[c])
  PROVE  Fewer
<1>1. /\ net[c] \in Seq(FrameSet)
      /\ Len(net[c]) \in Nat /\ Len(net[c]) >= 1 /\ Len(net'[c]) = Len(net[c]) - 1
      /\ \A i \in 1 .. Len(net'[c]) : i + 1 \in 1 .. Len(net[c]) /\ net'[c][i] = net[c][i + 1]
      /\ Head(net[c]) = net[c][1] /\ 1 \in 1 .. Len(net[c])
  <2>1. net[c] \in Seq(FrameSet)
    BY DEF TypeOK, NetOK
  <2>2. /\ Len(net[c]) \in Nat /\ Len(net[c]) >= 1
        /\ Len(Tail(net[c])) = Len(net[c]) - 1
        /\ \A i \in 1 .. Len(net[c]) - 1 : Tail(net[c])[i] = net[c][i + 1]
        /\ Head(net[c]) = net[c][1]
    BY <2>1, Popped
  <2> QED BY <2>1, <2>2
<1>2. ASSUME NEW d \in Chan, NEW code \in Codes, NEW by \in Askers
      PROVE  Coming(d, code, by)' <= Coming(d, code, by)
  <2>1. /\ Number(net[d], code, by) \in Nat /\ Number(todo[d], code, by) \in Nat
        /\ Number(net'[d], code, by) \in Nat /\ Number(todo'[d], code, by) \in Nat
    BY ComingType, ComingTypeNext
  <2>2. CASE d # c
    <3>1. InHand(d, code, by)' <=> InHand(d, code, by)
      BY <2>2 DEF InHand
    <3> QED BY <2>1, <2>2, <3>1 DEF Coming
  <2>3. CASE d = c
    <3>1. Number(net[c], code, by) =
            Number(net'[c], code, by) + (IF Answers(Head(net[c]), code, by) THEN 1 ELSE 0)
      BY <1>1, NumberTaken
    <3>2. ~InHand(c, code, by) /\ (InHand(c, code, by)' => Answers(Head(net[c]), code, by))
      BY DEF InHand
    <3> QED BY <2>1, <2>3, <3>1, <3>2 DEF Coming
  <2> QED BY <2>2, <2>3
<1>3. ASSUME NEW d \in Chan, NEW n, ForRequest(d, n)
      PROVE  ForRequest(d, n)'
  <2>1. CASE d # c
    BY <1>3, <2>1 DEF ForRequest, InHand
  <2>2. CASE d = c
    <3>1. DOMAIN net[c] = 1 .. Len(net[c]) /\ DOMAIN net'[c] = 1 .. Len(net'[c])
      BY DEF TypeOK, NetOK
    <3>2. \A i \in 1 .. Len(net[c]) : Answers(net[c][i], "CLEAR", "control") => net[c][i].n = n
      BY <1>3, <2>2, <3>1 DEF ForRequest
    <3>3. \A i \in DOMAIN net'[c] : Answers(net'[c][i], "CLEAR", "control") => net'[c][i].n = n
      BY <1>1, <3>1, <3>2
    <3>4. InHand(c, "CLEAR", "control")' => hand'[c].n = n
      BY <1>1, <3>2 DEF InHand
    <3>5. \A i \in DOMAIN todo[c] : Answers(todo[c][i], "CLEAR", "control") => todo[c][i].n = n
      BY <1>3, <2>2 DEF ForRequest
    <3> QED BY <2>2, <3>3, <3>4, <3>5 DEF ForRequest
  <2> QED BY <2>1, <2>2
<1> QED BY <1>2, <1>3 DEF Fewer

\* A frame nobody has asked for is taken from those that came early.
LEMMA EarlyFlow ==
  ASSUME TypeOK, TypeOK', NEW c \in Chan, UNCHANGED <<net, todo>>,
         \A d \in Chan \ {c} : wpc'[d] = wpc[d] /\ hand'[d] = hand[d],
         wpc'[c] = "frame" => ~Asks(hand'[c])
  PROVE  Fewer
<1>1. ASSUME NEW d \in Chan, NEW code, NEW by \in Askers
      PROVE  InHand(d, code, by)' => InHand(d, code, by) /\ hand'[d] = hand[d]
  BY DEF InHand, Answers, Asks, Askers
<1>2. ASSUME NEW d \in Chan, NEW code \in Codes, NEW by \in Askers
      PROVE  Coming(d, code, by)' <= Coming(d, code, by)
  <2>1. /\ Number(net[d], code, by) \in Nat /\ Number(todo[d], code, by) \in Nat
    BY ComingType
  <2> QED BY <1>1, <2>1 DEF Coming
<1>3. ASSUME NEW d \in Chan, NEW n, ForRequest(d, n)
      PROVE  ForRequest(d, n)'
  <2>1. InHand(d, "CLEAR", "control")' => InHand(d, "CLEAR", "control") /\ hand'[d] = hand[d]
    BY <1>1 DEF Askers
  <2> QED BY <1>3, <2>1 DEF ForRequest
<1> QED BY <1>2, <1>3 DEF Fewer

\* What is taken from the front was proper.
LEMMA KindTaken ==
  ASSUME TypeOK, KindInv, NEW c \in Chan, UNCHANGED <<mode, todo, workers>>,
         \A d \in Chan : net'[d] = net[d] \/ (net[d] # <<>> /\ net'[d] = Tail(net[d])),
         \A d \in Chan : Proper(d, hand'[d]),
         \A i \in 1 .. Len(buffered') : \/ \E j \in 1 .. Len(buffered) : buffered'[i] = buffered[j]
                                        \/ /\ Proper(Normal("receive"), buffered'[i])
                                           /\ ~Asks(buffered'[i]),
         pc'[Owner] \in {"opening", "spawn"} => pc[Owner] \in {"opening", "spawn"},
         pc'[Owner] = "spawn2" => pc[Owner] = "spawn2"
  PROVE  KindInv'
<1>1. PICK R \in Chan : R = Normal("receive") /\ Normal("receive")' = R
  BY NormalIsChan DEF Normal, Chan
<1>2. Polling' = Polling /\ Channels' = Channels
  BY DEF Polling, Channels
<1>3. ASSUME NEW d \in Chan, NEW i \in 1 .. Len(net'[d])
      PROVE  \E j \in 1 .. Len(net[d]) : net'[d][i] = net[d][j]
  <2>1. CASE net'[d] = net[d]
    BY <2>1
  <2>2. CASE net[d] # <<>> /\ net'[d] = Tail(net[d])
    <3>1. net[d] \in Seq(FrameSet)
      BY DEF TypeOK, NetOK
    <3>2. /\ Len(net[d]) \in Nat /\ Len(net'[d]) = Len(net[d]) - 1
          /\ \A k \in 1 .. Len(net[d]) - 1 : net'[d][k] = net[d][k + 1]
      BY <2>2, <3>1, Popped
    <3>3. i + 1 \in 1 .. Len(net[d]) /\ net'[d][i] = net[d][i + 1]
      BY <3>2
    <3> QED BY <3>3
  <2> QED BY <2>1, <2>2
<1>4. \A d \in Chan : /\ Proper(d, hand'[d])
                      /\ \A i \in 1 .. Len(net'[d]) : Proper(d, net'[d][i])
                      /\ \A i \in 1 .. Len(todo'[d]) : Proper(d, todo'[d][i])
  BY <1>3 DEF KindInv
<1>5. \A i \in 1 .. Len(buffered') : Proper(R, buffered'[i]) /\ ~Asks(buffered'[i])
  BY <1>1 DEF KindInv
<1>6. pc'[Owner] \in {"opening", "spawn"} =>
        \A d \in Chan : /\ \A i \in 1 .. Len(net'[d]) : ~Asks(net'[d][i])
                        /\ \A i \in 1 .. Len(todo'[d]) : ~Asks(todo'[d][i])
  BY <1>3 DEF KindInv
<1>7. workers' \subseteq Channels /\ (pc'[Owner] = "spawn2" => mode' = "two")
  BY DEF KindInv
<1>8. \A d \in Chan : \A m : (Proper(d, m)' <=> Proper(d, m)) /\ (Asks(m)' <=> Asks(m))
  BY <1>1, <1>2 DEF Proper, Asks
<1> QED BY <1>1, <1>2, <1>4, <1>5, <1>6, <1>7, <1>8 DEF KindInv, Proper, Asks

\* A worker takes a frame.
LEMMA WorkerReadsReplies ==
  ASSUME IInv, IInv', ReplyInv, NEW c \in Chan, WorkerReads(c)
  PROVE  ReplyInv'
<1>1. UNCHANGED <<mode, running, workers, todo, rawPending, pollPending, control, asked, answer,
                  cmd, ctl, pc, arg>>
  BY DEF WorkerReads
<1>2. /\ wpc[c] = "top" /\ wpc'[c] \in {"frame", "done"}
      /\ \A d \in Chan \ {c} : wpc'[d] = wpc[d] /\ hand'[d] = hand[d]
      /\ wpc'[c] = "done" => hand'[c] = NoFrame
  BY DEF WorkerReads, WGoto, HoldsFrame, IInv, TypeOK, WorkersOK
<1>3. \A d \in Chan : Proper(d, NoFrame)
  BY DEF Proper, NoFrame
<1>4. net \in [Chan -> Seq(FrameSet)] /\ buffered \in Seq(FrameSet)
  BY DEF IInv, TypeOK, NetOK, WorkersOK
<1>5. CASE Early(c)
  <2>1. /\ c = Normal("receive") /\ buffered # <<>> /\ buffered' = Tail(buffered)
        /\ UNCHANGED net /\ (wpc'[c] = "frame" => hand'[c] = Head(buffered))
    BY <1>2, <1>5 DEF WorkerReads, WGoto, Early, IInv, TypeOK, WorkersOK
  <2>2. /\ Head(buffered) = buffered[1] /\ 1 \in 1 .. Len(buffered)
        /\ \A i \in 1 .. Len(buffered') :
             i + 1 \in 1 .. Len(buffered) /\ buffered'[i] = buffered[i + 1]
    <3>1. /\ Len(buffered) \in Nat /\ Len(buffered) >= 1 /\ Len(buffered') = Len(buffered) - 1
          /\ \A i \in 1 .. Len(buffered) - 1 : buffered'[i] = buffered[i + 1]
          /\ Head(buffered) = buffered[1]
      BY <1>4, <2>1, Popped
    <3> QED BY <3>1
  <2>3. Proper(c, Head(buffered)) /\ ~Asks(Head(buffered))
    BY <2>1, <2>2 DEF ReplyInv, KindInv
  <2>4. \A d \in Chan : Proper(d, hand'[d])
    BY <1>2, <1>3, <2>1, <2>3 DEF ReplyInv, KindInv
  <2>5. KindInv'
    BY <1>1, <2>1, <2>2, <2>4, KindTaken DEF IInv, ReplyInv
  <2>6. Fewer
    BY <1>1, <1>2, <2>1, <2>3, EarlyFlow DEF IInv
  <2> QED BY <1>1, <1>2, <2>5, <2>6, RestKeeps DEF IInv, ReplyInv
<1>6. CASE ~Early(c)
  <2>1. /\ net[c] # <<>> /\ net'[c] = Tail(net[c]) /\ (wpc'[c] = "frame" => hand'[c] = Head(net[c]))
        /\ UNCHANGED buffered /\ \A d \in Chan \ {c} : net'[d] = net[d]
    BY <1>2, <1>4, <1>6 DEF WorkerReads, WGoto, IInv, TypeOK, WorkersOK
  <2>2. Head(net[c]) = net[c][1] /\ 1 \in 1 .. Len(net[c])
    <3>1. Len(net[c]) \in Nat /\ Len(net[c]) >= 1 /\ Head(net[c]) = net[c][1]
      BY <1>4, <2>1, Popped
    <3> QED BY <3>1
  <2>3. \A d \in Chan : Proper(d, hand'[d])
    BY <1>2, <1>3, <2>1, <2>2 DEF ReplyInv, KindInv
  <2>4. KindInv'
    BY <1>1, <2>1, <2>3, KindTaken DEF IInv, ReplyInv
  <2>5. Fewer
    BY <1>1, <1>2, <2>1, TakenFlow DEF IInv
  <2> QED BY <1>1, <1>2, <2>4, <2>5, RestKeeps DEF IInv, ReplyInv
<1> QED BY <1>5, <1>6

\* A frame is read before the workers are started.
LEMMA OpenReadsReplies ==
  ASSUME IInv, IInv', ReplyInv, OpenReads
  PROVE  ReplyInv'
<1>1. PICK c \in Chan : c = Normal("receive")
  BY NormalIsChan DEF Chan
<1>2. /\ UNCHANGED <<mode, running, workers, wpc, hand, todo, rawPending, pollPending, control,
                     asked, answer, cmd, ctl>>
      /\ pc[Owner] = "opening" /\ net[c] # <<>> /\ net' = [net EXCEPT ![c] = Tail(@)]
      /\ buffered' = buffered \/ buffered' = Append(buffered, Head(net[c]))
  BY <1>1 DEF OpenReads
<1>3. /\ pc'[Owner] \in {"opening", "spawn", "closeFailed"}
      /\ \A u \in Threads \ {Owner} : pc'[u] = pc[u] /\ arg'[u] = arg[u]
  BY <1>2 DEF OpenReads, Goto, GotoWith, IInv, TypeOK, ThreadsOK
<1>4. /\ net[c] \in Seq(FrameSet) /\ net'[c] = Tail(net[c]) /\ buffered \in Seq(FrameSet)
      /\ \A d \in Chan \ {c} : net'[d] = net[d]
  BY <1>2 DEF IInv, TypeOK, NetOK, WorkersOK
<1>5. workers = {} /\ \A d \in Chan : wpc[d] = "done"
  BY <1>2 DEF IInv, LifeInv
<1>6. Fewer
  BY <1>2, <1>4, <1>5, TakenFlow DEF IInv
<1>7. KindInv'
  <2>1. Head(net[c]) \in FrameSet /\ Head(net[c]) = net[c][1] /\ 1 \in 1 .. Len(net[c])
    <3>1. /\ Len(net[c]) \in Nat /\ Len(net[c]) >= 1 /\ Head(net[c]) = net[c][1]
          /\ Head(net[c]) \in FrameSet
      BY <1>2, <1>4, Popped
    <3> QED BY <3>1
  <2>2. Proper(c, Head(net[c])) /\ ~Asks(Head(net[c]))
    BY <1>2, <2>1 DEF ReplyInv, KindInv
  <2>3. \A i \in 1 .. Len(buffered') : \/ \E j \in 1 .. Len(buffered) : buffered'[i] = buffered[j]
                                       \/ Proper(c, buffered'[i]) /\ ~Asks(buffered'[i])
    <3>1. CASE buffered' = buffered
      BY <3>1
    <3>2. CASE buffered' = Append(buffered, Head(net[c]))
      <4>1. /\ Len(buffered) \in Nat /\ Len(buffered') = Len(buffered) + 1
            /\ \A i \in 1 .. Len(buffered) : buffered'[i] = buffered[i]
            /\ buffered'[Len(buffered) + 1] = Head(net[c])
        BY <1>4, <2>1, <3>2, Appended
      <4>2. \A i \in 1 .. Len(buffered') : i \in 1 .. Len(buffered) \/ i = Len(buffered) + 1
        BY <4>1
      <4> QED BY <2>2, <4>1, <4>2
    <3> QED BY <1>2, <3>1, <3>2
  <2>4. \A d \in Chan : Proper(d, hand'[d])
    BY <1>2 DEF ReplyInv, KindInv
  <2>5. \A d \in Chan : net'[d] = net[d] \/ (net[d] # <<>> /\ net'[d] = Tail(net[d]))
    BY <1>2, <1>4
  <2> QED BY <1>1, <1>2, <1>3, <2>3, <2>4, <2>5, KindTaken DEF IInv, ReplyInv
<1>8. MutexInv'
  <2>1. cmd = None /\ pc[Owner] \notin CmdPlaces \cup CtlPlaces /\ cmd # Owner /\ ctl # Owner
    BY <1>2, <1>5 DEF ReplyInv, MutexInv, CmdPlaces, CtlPlaces
  <2>2. pc'[Owner] \notin CmdPlaces \cup CtlPlaces
    BY <1>3 DEF CmdPlaces, CtlPlaces
  <2>3. control # "none" => ctl # None /\ pc[ctl] \in {"ctlWrite", "ctlUnset", "ctlWait"}
    BY DEF ReplyInv, MutexInv
  <2>4. pc' \in [Threads -> Places] /\ ctl \in Threads \cup {None}
    BY DEF IInv, TypeOK, ThreadsOK, LocksOK
  <2> QED BY <1>2, <1>3, <2>1, <2>2, <2>3, <2>4, MutexFrame DEF IInv, ReplyInv
<1>9. /\ \A d \in Chan, code \in Codes : Writing(d, code)' => Writing(d, code)
      /\ Asking' => Asking
      /\ TimedOut => TimedOut'
  BY <1>2, <1>3, ThreadGoes DEF IInv, ReplyInv
<1>10. \A k \in Keys : rawPending[k] <= rawPending'[k]
  BY <1>2 DEF IInv, TypeOK, QueuesOK
<1> QED BY <1>2, <1>6, <1>7, <1>8, <1>9, <1>10, FewerKeeps DEF IInv, ReplyInv

\* Nothing that is on its way to anybody: no reply comes, and none for another.
LEMMA NothingComes ==
  ASSUME TypeOK', NEW d \in Chan, wpc'[d] # "frame",
         \A i \in 1 .. Len(net'[d]) : ~Asks(net'[d][i]),
         \A i \in 1 .. Len(todo'[d]) : ~Asks(todo'[d][i])
  PROVE  /\ \A code \in Codes, by \in Askers : Coming(d, code, by)' = 0
         /\ \A n : ForRequest(d, n)'
<1>1. /\ net'[d] \in Seq(FrameSet) /\ todo'[d] \in Seq(RequestSet)
      /\ DOMAIN net'[d] = 1 .. Len(net'[d]) /\ DOMAIN todo'[d] = 1 .. Len(todo'[d])
  BY DEF TypeOK, NetOK
<1>2. \A m, code : \A by \in Askers : ~Asks(m) => ~Answers(m, code, by)
  BY DEF Asks, Answers, Askers
<1>3. ASSUME NEW code \in Codes, NEW by \in Askers
      PROVE  Coming(d, code, by)' = 0
  <2>1. /\ \A i \in 1 .. Len(net'[d]) : ~Answers(net'[d][i], code, by)
        /\ \A i \in 1 .. Len(todo'[d]) : ~Answers(todo'[d][i], code, by)
    BY <1>2
  <2>2. Number(net'[d], code, by) = 0 /\ Number(todo'[d], code, by) = 0
    BY <1>1, <2>1, NumberType
  <2> QED BY <2>2 DEF Coming, InHand
<1>4. ASSUME NEW n PROVE ForRequest(d, n)'
  <2>1. /\ \A i \in 1 .. Len(net'[d]) : ~Answers(net'[d][i], "CLEAR", "control")
        /\ \A i \in 1 .. Len(todo'[d]) : ~Answers(todo'[d][i], "CLEAR", "control")
    BY <1>2 DEF Askers
  <2> QED BY <1>1, <2>1 DEF ForRequest, InHand
<1> QED BY <1>3, <1>4

\* connect opens the connections.
LEMMA ConnectReplies ==
  ASSUME IInv, IInv', ReplyInv, Connect
  PROVE  ReplyInv'
<1>1. /\ UNCHANGED <<mode, running, workers, wpc, hand, rawPending, pollPending, control, asked,
                     answer, cmd, ctl>>
      /\ pc[Owner] = "idle" /\ workers = {} /\ buffered' = <<>>
      /\ \A d \in Chan : net'[d] = <<>>
      /\ \A d \in Chan : todo'[d] = <<>> \/ todo'[d] = <<Request(d, "OPEN", "open", 0)>>
  BY DEF Connect, Call, CallWith
<1>2. /\ pc'[Owner] \in {"opening", "spawn"}
      /\ \A u \in Threads \ {Owner} : pc'[u] = pc[u] /\ arg'[u] = arg[u]
      /\ pc' \in [Threads -> Places]
  BY DEF Connect, Call, CallWith, GotoWith, IInv, TypeOK, ThreadsOK
<1>3. \A d \in Chan : wpc[d] = "done"
  BY <1>1 DEF IInv, LifeInv
<1>4. ASSUME NEW d \in Chan
      PROVE  /\ 1 .. Len(net'[d]) = {}
             /\ \A i \in 1 .. Len(todo'[d]) : ~Asks(todo'[d][i]) /\ Proper(d, todo'[d][i])
  <2>1. 1 .. Len(net'[d]) = {}
    BY <1>1
  <2>2. CASE todo'[d] = <<>>
    BY <2>1, <2>2
  <2>3. CASE todo'[d] = <<Request(d, "OPEN", "open", 0)>>
    <3>1. Len(todo'[d]) = 1 /\ todo'[d][1] = Request(d, "OPEN", "open", 0)
      BY <2>3
    <3>2. ~Asks(Request(d, "OPEN", "open", 0)) /\ Proper(d, Request(d, "OPEN", "open", 0))
      BY DEF Asks, Proper, Request
    <3>3. \A i \in 1 .. Len(todo'[d]) : i = 1
      BY <3>1
    <3> QED BY <2>1, <3>1, <3>2, <3>3
  <2> QED BY <1>1, <2>2, <2>3
<1>5. Fewer
  <2>1. \A d \in Chan : /\ \A code \in Codes, by \in Askers : Coming(d, code, by)' = 0
                        /\ \A n : ForRequest(d, n)'
    BY <1>1, <1>3, <1>4, NothingComes DEF IInv
  <2>2. \A d \in Chan, code \in Codes, by \in Askers : Coming(d, code, by) \in Nat
    BY ComingType DEF IInv
  <2> QED BY <2>1, <2>2 DEF Fewer
<1>6. KindInv'
  <2>1. PICK R \in Chan : R = Normal("receive") /\ Normal("receive")' = R
    BY <1>1, NormalIsChan DEF Normal, Chan
  <2>2. Polling' = Polling /\ Channels' = Channels
    BY <1>1 DEF Polling, Channels
  <2>3. \A d \in Chan : \A m : (Proper(d, m)' <=> Proper(d, m)) /\ (Asks(m)' <=> Asks(m))
    BY <2>1, <2>2 DEF Proper, Asks
  <2>4. \A d \in Chan : /\ Proper(d, hand'[d])
                        /\ \A i \in 1 .. Len(net'[d]) : Proper(d, net'[d][i])
                        /\ \A i \in 1 .. Len(todo'[d]) : Proper(d, todo'[d][i])
    BY <1>1, <1>4 DEF ReplyInv, KindInv
  <2>5. 1 .. Len(buffered') = {}
    BY <1>1
  <2>6. \A d \in Chan : /\ \A i \in 1 .. Len(net'[d]) : ~Asks(net'[d][i])
                        /\ \A i \in 1 .. Len(todo'[d]) : ~Asks(todo'[d][i])
    BY <1>4
  <2>7. workers' \subseteq Channels /\ pc'[Owner] # "spawn2"
    BY <1>1, <1>2
  <2> QED BY <2>2, <2>3, <2>4, <2>5, <2>6, <2>7 DEF KindInv, Proper, Asks
<1>7. MutexInv'
  <2>1. cmd = None /\ cmd # Owner /\ ctl # Owner
    BY <1>1 DEF ReplyInv, MutexInv, CmdPlaces, CtlPlaces
  <2>2. pc'[Owner] \notin CmdPlaces \cup CtlPlaces
    BY <1>2 DEF CmdPlaces, CtlPlaces
  <2>3. control # "none" => ctl # None /\ pc[ctl] \in {"ctlWrite", "ctlUnset", "ctlWait"}
    BY DEF ReplyInv, MutexInv
  <2>4. ctl \in Threads \cup {None}
    BY DEF IInv, TypeOK, LocksOK
  <2> QED BY <1>1, <1>2, <2>1, <2>2, <2>3, <2>4, MutexFrame DEF IInv, ReplyInv
<1>8. /\ \A d \in Chan, code \in Codes : Writing(d, code)' => Writing(d, code)
      /\ Asking' => Asking
      /\ TimedOut => TimedOut'
  BY <1>1, <1>2, ThreadGoes DEF IInv, ReplyInv
<1>9. \A k \in Keys : rawPending[k] <= rawPending'[k]
  BY <1>1 DEF IInv, TypeOK, QueuesOK
<1> QED BY <1>1, <1>5, <1>6, <1>7, <1>8, <1>9, FewerKeeps DEF IInv, ReplyInv

\* The send worker is started.
LEMMA SpawnSendReplies ==
  ASSUME IInv, IInv', ReplyInv, SpawnSend
  PROVE  ReplyInv'
<1>1. /\ UNCHANGED <<mode, net, todo, hand, buffered, rawPending, pollPending, control, asked,
                     answer, cmd, ctl>>
      /\ pc[Owner] = "spawn2" /\ (running' => running)
      /\ workers' = Chan \/ workers' = workers
  BY DEF SpawnSend
<1>2. /\ pc'[Owner] \in {"idle", "joinFailed"}
      /\ \A u \in Threads \ {Owner} : pc'[u] = pc[u] /\ arg'[u] = arg[u]
      /\ pc' \in [Threads -> Places]
      /\ \A d \in Chan : wpc'[d] = wpc[d] \/ wpc'[d] = "top"
  BY DEF SpawnSend, Goto, GotoWith, IInv, TypeOK, ThreadsOK, WorkersOK
<1>3. Fewer
  BY <1>1, <1>2, LeftOut DEF IInv
<1>4. KindInv'
  <2>1. mode = "two" /\ Channels = Chan /\ Channels' = Chan
    BY <1>1 DEF ReplyInv, KindInv, Channels
  <2>2. PICK R \in Chan : R = Normal("receive") /\ Normal("receive")' = R
    BY <1>1, NormalIsChan DEF Normal, Chan
  <2>3. Polling' = Polling
    BY <1>1 DEF Polling
  <2>4. \A d \in Chan : \A m : (Proper(d, m)' <=> Proper(d, m)) /\ (Asks(m)' <=> Asks(m))
    BY <2>2, <2>3 DEF Proper, Asks
  <2>5. /\ \A d \in Chan : /\ Proper(d, hand'[d])
                           /\ \A i \in 1 .. Len(net'[d]) : Proper(d, net'[d][i])
                           /\ \A i \in 1 .. Len(todo'[d]) : Proper(d, todo'[d][i])
        /\ \A i \in 1 .. Len(buffered') : Proper(R, buffered'[i]) /\ ~Asks(buffered'[i])
    BY <1>1, <2>2 DEF ReplyInv, KindInv
  <2>6. workers' \subseteq Chan
    BY <1>1 DEF IInv, TypeOK, WorkersOK
  <2> QED BY <1>2, <2>1, <2>2, <2>4, <2>5, <2>6 DEF KindInv, Proper, Asks
<1>5. MutexInv'
  <2>1. cmd # Owner /\ ctl # Owner /\ workers # {}
    BY <1>1 DEF ReplyInv, MutexInv, CmdPlaces, CtlPlaces, IInv, LifeInv
  <2>2. pc'[Owner] \notin CmdPlaces \cup CtlPlaces /\ workers' # {}
    BY <1>1, <1>2, <2>1 DEF CmdPlaces, CtlPlaces, Chan
  <2>3. control # "none" => ctl # None /\ pc[ctl] \in {"ctlWrite", "ctlUnset", "ctlWait"}
    BY DEF ReplyInv, MutexInv
  <2>4. ctl \in Threads \cup {None}
    BY DEF IInv, TypeOK, LocksOK
  <2> QED BY <1>1, <1>2, <2>1, <2>2, <2>3, <2>4, MutexFrame DEF IInv, ReplyInv
<1>6. /\ \A d \in Chan, code \in Codes : Writing(d, code)' => Writing(d, code)
      /\ Asking' => Asking
      /\ TimedOut => TimedOut'
  BY <1>1, <1>2, ThreadGoes DEF IInv, ReplyInv
<1>7. \A k \in Keys : rawPending[k] <= rawPending'[k]
  BY <1>1 DEF IInv, TypeOK, QueuesOK
<1> QED BY <1>1, <1>2, <1>3, <1>4, <1>5, <1>6, <1>7, FewerKeeps DEF IInv, ReplyInv

-----------------------------------------------------------------------------
(* Writes.                                                                  *)

\* With a request that is written one more reply comes, to that request.
LEMMA WriteFlow ==
  ASSUME TypeOK, TypeOK', NEW c \in Chan, NEW r \in RequestSet, Write(c, r),
         \A d \in Chan : wpc'[d] = "frame" => wpc[d] = "frame" /\ hand'[d] = hand[d]
  PROVE  /\ \A d \in Chan, code \in Codes, by \in Askers :
              Coming(d, code, by)' <= Coming(d, code, by)
                + (IF d = c /\ Answers(r, code, by) THEN 1 ELSE 0)
         /\ \A d \in Chan : \A n :
              ForRequest(d, n) /\ (d = c /\ Answers(r, "CLEAR", "control") => r.n = n) =>
                ForRequest(d, n)'
<1>1. /\ net' = net /\ todo[c] \in Seq(RequestSet) /\ todo'[c] \in Seq(RequestSet)
      /\ \A d \in Chan \ {c} : todo'[d] = todo[d]
      /\ todo'[c] = todo[c] \/ todo'[c] = Append(todo[c], r)
  BY DEF Write, TypeOK, NetOK
<1>2. /\ Len(todo[c]) \in Nat
      /\ \A i \in 1 .. Len(todo'[c]) : (i \in 1 .. Len(todo[c]) /\ todo'[c][i] = todo[c][i])
                                       \/ todo'[c][i] = r
  <2>1. CASE todo'[c] = todo[c]
    BY <1>1, <2>1
  <2>2. CASE todo'[c] = Append(todo[c], r)
    <3>1. /\ Len(todo[c]) \in Nat /\ Len(todo'[c]) = Len(todo[c]) + 1
          /\ \A i \in 1 .. Len(todo[c]) : todo'[c][i] = todo[c][i]
          /\ todo'[c][Len(todo[c]) + 1] = r
      BY <1>1, <2>2, Appended
    <3>2. \A i \in 1 .. Len(todo'[c]) : i \in 1 .. Len(todo[c]) \/ i = Len(todo[c]) + 1
      BY <3>1
    <3> QED BY <3>1, <3>2
  <2> QED BY <1>1, <2>1, <2>2
<1>3. \A d \in Chan : \A code, by : InHand(d, code, by)' => InHand(d, code, by) /\ hand'[d] = hand[d]
  BY DEF InHand
<1>4. ASSUME NEW d \in Chan, NEW code \in Codes, NEW by \in Askers
      PROVE  Coming(d, code, by)' <= Coming(d, code, by)
               + (IF d = c /\ Answers(r, code, by) THEN 1 ELSE 0)
  <2>1. /\ Number(net[d], code, by) \in Nat /\ Number(todo[d], code, by) \in Nat
        /\ Number(todo'[d], code, by) \in Nat
    BY ComingType, ComingTypeNext
  <2>2. Number(todo'[d], code, by) <= Number(todo[d], code, by)
          + (IF d = c /\ Answers(r, code, by) THEN 1 ELSE 0)
    <3>1. CASE todo'[d] = todo[d]
      BY <2>1, <3>1
    <3>2. CASE d = c /\ todo'[c] = Append(todo[c], r)
      <4>1. Number(Append(todo[c], r), code, by) =
              Number(todo[c], code, by) + (IF Answers(r, code, by) THEN 1 ELSE 0)
        BY <1>1, NumberAppended
      <4> QED BY <2>1, <3>2, <4>1
    <3> QED BY <1>1, <3>1, <3>2
  <2>3. /\ Coming(d, code, by)' = Number(net[d], code, by) + Number(todo'[d], code, by)
                                    + (IF InHand(d, code, by)' THEN 1 ELSE 0)
        /\ Coming(d, code, by) = Number(net[d], code, by) + Number(todo[d], code, by)
                                   + (IF InHand(d, code, by) THEN 1 ELSE 0)
    BY <1>1 DEF Coming
  <2>4. InHand(d, code, by)' => InHand(d, code, by)
    BY <1>3
  <2> QED BY <2>1, <2>2, <2>3, <2>4
<1>5. ASSUME NEW d \in Chan, NEW n, ForRequest(d, n),
             d = c /\ Answers(r, "CLEAR", "control") => r.n = n
      PROVE  ForRequest(d, n)'
  <2>1. InHand(d, "CLEAR", "control")' => hand'[d].n = n
    BY <1>3, <1>5 DEF ForRequest
  <2>2. \A i \in DOMAIN net'[d] : Answers(net'[d][i], "CLEAR", "control") => net'[d][i].n = n
    BY <1>1, <1>5 DEF ForRequest
  <2>3. \A i \in DOMAIN todo[d] : Answers(todo[d][i], "CLEAR", "control") => todo[d][i].n = n
    BY <1>5 DEF ForRequest
  <2>4. \A i \in DOMAIN todo'[d] : Answers(todo'[d][i], "CLEAR", "control") => todo'[d][i].n = n
    <3>1. CASE d # c
      BY <1>1, <2>3, <3>1
    <3>2. CASE d = c
      <4>1. DOMAIN todo[c] = 1 .. Len(todo[c]) /\ DOMAIN todo'[c] = 1 .. Len(todo'[c])
        BY <1>1
      <4> QED BY <1>2, <1>5, <2>3, <3>2, <4>1
    <3> QED BY <3>1, <3>2
  <2> QED BY <2>1, <2>2, <2>4 DEF ForRequest
<1> QED BY <1>4, <1>5

\* A request nobody waits for brings no reply that is waited for.
LEMMA OtherFlow ==
  ASSUME TypeOK, TypeOK', NEW c \in Chan, NEW r \in RequestSet, Write(c, r), ~Asks(r),
         \A d \in Chan : wpc'[d] = "frame" => wpc[d] = "frame" /\ hand'[d] = hand[d]
  PROVE  Fewer
<1>1. \A code : \A by \in Askers : ~Answers(r, code, by)
  BY DEF Asks, Answers, Askers
<1>2. \A d \in Chan, code \in Codes, by \in Askers :
        Coming(d, code, by) \in Nat /\ Coming(d, code, by)' \in Nat
  BY ComingType, ComingTypeNext
<1>3. ASSUME NEW d \in Chan, NEW code \in Codes, NEW by \in Askers
      PROVE  Coming(d, code, by)' <= Coming(d, code, by)
  <2>1. Coming(d, code, by)' <= Coming(d, code, by)
          + (IF d = c /\ Answers(r, code, by) THEN 1 ELSE 0)
    BY WriteFlow
  <2> QED BY <1>1, <1>2, <2>1
<1>4. ASSUME NEW d \in Chan, NEW n, ForRequest(d, n)
      PROVE  ForRequest(d, n)'
  <2>1. ~Answers(r, "CLEAR", "control")
    BY <1>1 DEF Askers
  <2> QED BY <1>4, <2>1, WriteFlow
<1> QED BY <1>3, <1>4 DEF Fewer

\* A proper request is written to its connection, or the connection closed.
LEMMA KindWrite ==
  ASSUME TypeOK, KindInv, NEW c \in Chan, NEW r \in RequestSet, Write(c, r) \/ WriteFails(c),
         Proper(c, r), Asks(r) => pc'[Owner] \notin {"opening", "spawn"},
         UNCHANGED <<mode, buffered, workers>>,
         \A d \in Chan : hand'[d] = hand[d] \/ hand'[d] = NoFrame,
         pc'[Owner] \in {"opening", "spawn", "spawn2"} => pc'[Owner] = pc[Owner]
  PROVE  KindInv'
<1>1. CASE WriteFails(c)
  <2>1. \A d \in Chan : /\ net'[d] = net[d] \/ net'[d] = <<>>
                        /\ todo'[d] = todo[d] \/ todo'[d] = <<>>
    BY <1>1 DEF WriteFails, TypeOK, NetOK
  <2> QED BY <2>1, KindFrame
<1>2. CASE Write(c, r)
  <2>1. PICK R \in Chan : R = Normal("receive") /\ Normal("receive")' = R
    BY NormalIsChan DEF Normal, Chan
  <2>2. Polling' = Polling /\ Channels' = Channels
    BY DEF Polling, Channels
  <2>3. \A d \in Chan : \A m : (Proper(d, m)' <=> Proper(d, m)) /\ (Asks(m)' <=> Asks(m))
    BY <2>1, <2>2 DEF Proper, Asks
  <2>4. /\ net' = net /\ todo[c] \in Seq(RequestSet)
        /\ \A d \in Chan \ {c} : todo'[d] = todo[d]
        /\ todo'[c] = todo[c] \/ todo'[c] = Append(todo[c], r)
    BY <1>2 DEF Write, TypeOK, NetOK
  <2>5. \A i \in 1 .. Len(todo'[c]) :
          (\E j \in 1 .. Len(todo[c]) : todo'[c][i] = todo[c][j]) \/ todo'[c][i] = r
    <3>1. CASE todo'[c] = todo[c]
      BY <3>1
    <3>2. CASE todo'[c] = Append(todo[c], r)
      <4>1. /\ Len(todo[c]) \in Nat /\ Len(todo'[c]) = Len(todo[c]) + 1
            /\ \A i \in 1 .. Len(todo[c]) : todo'[c][i] = todo[c][i]
            /\ todo'[c][Len(todo[c]) + 1] = r
        BY <2>4, <3>2, Appended
      <4>2. \A i \in 1 .. Len(todo'[c]) : i \in 1 .. Len(todo[c]) \/ i = Len(todo[c]) + 1
        BY <4>1
      <4> QED BY <4>1, <4>2
    <3> QED BY <2>4, <3>1, <3>2
  <2>6. Proper(c, NoFrame) /\ \A d \in Chan : Proper(d, NoFrame)
    BY DEF Proper, NoFrame
  <2>7. \A d \in Chan : /\ Proper(d, hand'[d])
                        /\ \A i \in 1 .. Len(net'[d]) : Proper(d, net'[d][i])
                        /\ \A i \in 1 .. Len(todo'[d]) : Proper(d, todo'[d][i])
    <3> SUFFICES ASSUME NEW d \in Chan
                 PROVE  /\ Proper(d, hand'[d])
                        /\ \A i \in 1 .. Len(net'[d]) : Proper(d, net'[d][i])
                        /\ \A i \in 1 .. Len(todo'[d]) : Proper(d, todo'[d][i])
      OBVIOUS
    <3>1. Proper(d, hand'[d])
      BY <2>6 DEF KindInv
    <3>2. \A i \in 1 .. Len(net'[d]) : Proper(d, net'[d][i])
      BY <2>4 DEF KindInv
    <3>3. \A i \in 1 .. Len(todo[d]) : Proper(d, todo[d][i])
      BY DEF KindInv
    <3>4. \A i \in 1 .. Len(todo'[d]) : Proper(d, todo'[d][i])
      <4>1. CASE d = c
        BY <2>5, <3>3, <4>1
      <4>2. CASE d # c
        BY <2>4, <3>3, <4>2
      <4> QED BY <4>1, <4>2
    <3> QED BY <3>1, <3>2, <3>4
  <2>8. \A i \in 1 .. Len(buffered') : Proper(R, buffered'[i]) /\ ~Asks(buffered'[i])
    BY <2>1 DEF KindInv
  <2>9. pc'[Owner] \in {"opening", "spawn"} =>
          \A d \in Chan : /\ \A i \in 1 .. Len(net'[d]) : ~Asks(net'[d][i])
                          /\ \A i \in 1 .. Len(todo'[d]) : ~Asks(todo'[d][i])
    <3> SUFFICES ASSUME pc'[Owner] \in {"opening", "spawn"}, NEW d \in Chan
                 PROVE  /\ \A i \in 1 .. Len(net'[d]) : ~Asks(net'[d][i])
                        /\ \A i \in 1 .. Len(todo'[d]) : ~Asks(todo'[d][i])
      OBVIOUS
    <3>1. /\ \A i \in 1 .. Len(net[d]) : ~Asks(net[d][i])
          /\ \A i \in 1 .. Len(todo[d]) : ~Asks(todo[d][i])
          /\ ~Asks(r)
      BY DEF KindInv
    <3>2. CASE d = c
      BY <2>4, <2>5, <3>1, <3>2
    <3>3. CASE d # c
      BY <2>4, <3>1, <3>3
    <3> QED BY <3>2, <3>3
  <2>10. workers' \subseteq Channels /\ (pc'[Owner] = "spawn2" => mode' = "two")
    BY DEF KindInv
  <2> QED BY <2>1, <2>2, <2>3, <2>7, <2>8, <2>9, <2>10 DEF KindInv, Proper, Asks
<1> QED BY <1>1, <1>2

\* send writes its event.
LEMMA SendWriteReplies ==
  ASSUME IInv, IInv', ReplyInv, NEW t \in Threads, SendWrite(t)
  PROVE  ReplyInv'
<1>1. /\ UNCHANGED <<mode, running, workers, wpc, hand, buffered, rawPending, pollPending, control,
                     asked, answer, ctl>>
      /\ pc[t] = "sendWrite" /\ cmd' = None /\ "send" \in Chan
  BY DEF SendWrite, Chan
<1>2. /\ pc'[t] \in {"idle", "fail"}
      /\ \A u \in Threads \ {t} : pc'[u] = pc[u] /\ arg'[u] = arg[u]
      /\ pc' \in [Threads -> Places]
  BY DEF SendWrite, Goto, GotoWith, IInv, TypeOK, ThreadsOK
<1>3. PICK r \in RequestSet : /\ r = Request("send", "CONFIRM", "event", 0)
                              /\ Write("send", r) \/ WriteFails("send")
  BY DEF SendWrite, Request, RequestSet, Chan
<1>4. ~Asks(r) /\ Proper("send", r)
  BY <1>3 DEF Asks, Proper, Request
<1>5. Fewer
  <2>1. CASE Write("send", r)
    BY <1>1, <1>4, <2>1, OtherFlow DEF IInv
  <2>2. CASE WriteFails("send")
    BY <1>1, <2>2, LeftOut DEF WriteFails, IInv, TypeOK, NetOK
  <2> QED BY <1>3, <2>1, <2>2
<1>6. KindInv'
  <2>1. pc'[Owner] \in {"opening", "spawn", "spawn2"} => pc'[Owner] = pc[Owner]
    BY <1>2
  <2> QED BY <1>1, <1>3, <1>4, <2>1, KindWrite DEF IInv, ReplyInv
<1>7. MutexInv'
  <2>1. cmd = t /\ ctl # t
    BY <1>1 DEF ReplyInv, MutexInv, CmdPlaces, CtlPlaces
  <2>2. pc'[t] \notin CmdPlaces \cup CtlPlaces
    BY <1>2 DEF CmdPlaces, CtlPlaces
  <2>3. control # "none" => ctl # None /\ pc[ctl] \in {"ctlWrite", "ctlUnset", "ctlWait"}
    BY DEF ReplyInv, MutexInv
  <2>4. ctl \in Threads \cup {None} /\ None # t
    BY DEF IInv, TypeOK, LocksOK
  <2> QED BY <1>1, <1>2, <2>1, <2>2, <2>3, <2>4, MutexFrame DEF IInv, ReplyInv
<1>8. /\ \A d \in Chan, code \in Codes : Writing(d, code)' => Writing(d, code)
      /\ Asking' => Asking
      /\ TimedOut => TimedOut'
  BY <1>1, <1>2, ThreadGoes DEF IInv, ReplyInv
<1>9. \A k \in Keys : rawPending[k] <= rawPending'[k]
  BY <1>1 DEF IInv, TypeOK, QueuesOK
<1> QED BY <1>1, <1>5, <1>6, <1>7, <1>8, <1>9, FewerKeeps DEF IInv, ReplyInv

\* What is to be written by the holder of the command mutex.
LEMMA WritingOf ==
  ASSUME TypeOK, MutexInv, NEW t \in Threads, pc[t] \in {"rawWrite", "rawUnsend"},
         NEW c \in Chan, NEW code \in Codes
  PROVE  Writing(c, code) <=> Key(arg[t]) = <<c, code>>
BY DEF MutexInv, CmdPlaces, Writing

\* A raw request is counted before it is written.
LEMMA RawLockReplies ==
  ASSUME IInv, IInv', ReplyInv, NEW t \in Threads, RawLock(t)
  PROVE  ReplyInv'
<1> DEFINE r == arg[t]
<1>1. /\ UNCHANGED <<mode, running, workers, wpc, hand, buffered, net, todo, pollPending, control,
                     asked, answer, ctl>>
      /\ pc[t] = "rawLock" /\ cmd = None /\ t # None
      /\ r \in [ch : Chan, code : Codes]
  BY DEF RawLock, IInv, TypeOK, ThreadsOK
<1>2. /\ \A u \in Threads \ {t} : pc'[u] = pc[u] /\ arg'[u] = arg[u]
      /\ pc' \in [Threads -> Places]
  BY DEF RawLock, Goto, GotoWith, IInv, TypeOK, ThreadsOK
<1>3. \/ pc'[t] = "idle" /\ UNCHANGED <<cmd, rawPending>>
      \/ /\ running /\ ~(Tracked(r.code) /\ Conflicts(r))
         /\ pc'[t] = "rawWrite" /\ cmd' = t /\ arg' = arg
         /\ rawPending' = IF Tracked(r.code) THEN [rawPending EXCEPT ![Key(r)] = @ + 1]
                                             ELSE rawPending
  BY DEF RawLock, Goto, GotoWith, IInv, TypeOK, ThreadsOK
<1>4. /\ Key(r) = <<r.ch, r.code>> /\ Key(r) \in Keys /\ rawPending \in [Keys -> Nat]
      /\ r.ch \in Chan /\ r.code \in Codes
  BY <1>1 DEF Key, Keys, IInv, TypeOK, QueuesOK
<1>5. \A k \in Keys : rawPending[k] \in Nat /\ rawPending[k] <= rawPending'[k]
  BY <1>3, <1>4
<1>6. Fewer
  BY <1>1, LeftOut DEF IInv
<1>7. KindInv'
  <2>1. pc'[Owner] \in {"opening", "spawn", "spawn2"} => pc'[Owner] = pc[Owner]
    BY <1>2, <1>3
  <2> QED BY <1>1, <2>1, KindFrame DEF ReplyInv
<1>8. MutexInv'
  <2>1. pc[t] \notin CmdPlaces \cup CtlPlaces /\ ctl # t
    BY <1>1 DEF ReplyInv, MutexInv, CmdPlaces, CtlPlaces
  <2>2. /\ cmd' = cmd \/ (cmd = None /\ cmd' = t)
        /\ cmd' = t <=> pc'[t] \in CmdPlaces
        /\ pc'[t] \notin CtlPlaces
    BY <1>1, <1>3 DEF CmdPlaces, CtlPlaces
  <2>3. control # "none" => ctl # None /\ pc[ctl] \in {"ctlWrite", "ctlUnset", "ctlWait"}
    BY DEF ReplyInv, MutexInv
  <2>4. ctl \in Threads \cup {None}
    BY DEF IInv, TypeOK, LocksOK
  <2>5. workers = {} => cmd' = None
    BY <1>1, <1>3 DEF IInv, LifeInv
  <2> QED BY <1>1, <1>2, <2>1, <2>2, <2>3, <2>4, <2>5, MutexFrame DEF IInv, ReplyInv
<1>9. ctl # t
  BY <1>1 DEF ReplyInv, MutexInv, CtlPlaces
<1>10. (Asking' => Asking) /\ (TimedOut => TimedOut')
  BY <1>1, <1>2, <1>9 DEF Asking, TimedOut, IInv, TypeOK, LocksOK
<1>11. CASE pc'[t] = "idle" /\ UNCHANGED <<cmd, rawPending>>
  <2>1. \A d \in Chan, code \in Codes : Writing(d, code)' => Writing(d, code)
    BY <1>1, <1>2, <1>11, ThreadGoes DEF IInv, ReplyInv
  <2> QED BY <1>1, <1>5, <1>6, <1>7, <1>8, <1>10, <2>1, FewerKeeps DEF IInv, ReplyInv
<1>12. CASE /\ running /\ ~(Tracked(r.code) /\ Conflicts(r))
            /\ pc'[t] = "rawWrite" /\ cmd' = t /\ arg' = arg
            /\ rawPending' = IF Tracked(r.code) THEN [rawPending EXCEPT ![Key(r)] = @ + 1]
                                                ELSE rawPending
  <2>1. \A d \in Chan, code \in Codes : /\ ~Writing(d, code)
                                        /\ Writing(d, code)' <=> Key(r) = <<d, code>>
    BY <1>1, <1>12 DEF Writing, Key
  <2>2. PICK R \in Chan : R = Normal("receive") /\ Normal("receive")' = R
    BY <1>1, NormalIsChan DEF Normal, Chan
  <2>3. "CLEAR" \in Codes /\ "RETR" \in Codes /\ "send" \in Chan /\ "receive" \in Chan
    BY DEF Codes, Chan
  <2>4. \A d \in Chan, code \in Codes, by \in Askers :
          /\ Coming(d, code, by) \in Nat /\ Coming(d, code, by)' \in Nat
          /\ Coming(d, code, by)' <= Coming(d, code, by)
    BY <1>6, ComingType, ComingTypeNext DEF Fewer, IInv
  <2>5. \A n : ForRequest(R, n) => ForRequest(R, n)'
    BY <1>6 DEF Fewer
  <2>6. {"raw", "control", "poll"} = Askers
    BY DEF Askers
  <2>7. control # "none" => ~Writing(R, "CLEAR")'
    <3>1. control # "none" => Key(r) # <<R, "CLEAR">>
      BY <1>4, <1>12, <2>2 DEF Conflicts, Tracked
    <3> QED BY <2>1, <2>3, <3>1
  <2>8. ControlInv'
    <3>1. UNCHANGED <<control, asked, answer, running>>
      BY <1>1
    <3>2. /\ Coming(R, "CLEAR", "control")' <= Coming(R, "CLEAR", "control")
          /\ Coming(R, "CLEAR", "control")' \in Nat /\ Coming(R, "CLEAR", "control") \in Nat
          /\ Coming(R, "CLEAR", "raw")' <= Coming(R, "CLEAR", "raw")
          /\ Coming(R, "CLEAR", "raw")' \in Nat /\ Coming(R, "CLEAR", "raw") \in Nat
      BY <2>3, <2>4, <2>6
    <3>3. /\ Coming(R, "CLEAR", "control") > 0 => ~running \/ control = "pending" \/ TimedOut
          /\ control = "pending" => /\ Coming(R, "CLEAR", "raw") = 0
                                    /\ Coming(R, "CLEAR", "control") <= 1
                                    /\ Asking => Coming(R, "CLEAR", "control") = 0
                                    /\ ForRequest(R, asked)
          /\ control = "complete" => answer = asked /\ Coming(R, "CLEAR", "control") = 0
          /\ Asking => control = "pending"
      BY <2>2 DEF ReplyInv, ControlInv
    <3>4. control = "pending" => ForRequest(R, asked)'
      <4>1. PICK n : n = asked /\ asked' = n
        BY <1>1
      <4>2. control = "pending" => ForRequest(R, n)'
        BY <2>5, <3>3, <4>1
      <4> QED BY <4>1, <4>2 DEF ForRequest
    <3>5. Coming(R, "CLEAR", "control")' > 0 => ~running' \/ control' = "pending" \/ TimedOut'
      BY <1>10, <3>1, <3>2, <3>3
    <3>6. control' = "pending" => /\ Coming(R, "CLEAR", "raw")' = 0 /\ ~Writing(R, "CLEAR")'
                                  /\ Coming(R, "CLEAR", "control")' <= 1
                                  /\ Asking' => Coming(R, "CLEAR", "control")' = 0
                                  /\ ForRequest(R, asked)'
      BY <1>10, <2>7, <3>1, <3>2, <3>3, <3>4
    <3>7. /\ control' = "complete" => answer' = asked' /\ Coming(R, "CLEAR", "control")' = 0
          /\ Asking' => control' = "pending"
      BY <1>10, <3>1, <3>2, <3>3
    <3> QED BY <2>2, <3>5, <3>6, <3>7 DEF ControlInv
  <2>9. RawInv'
    <3> SUFFICES ASSUME running', NEW d \in Chan, NEW code \in Codes, Tracked(code)',
                        ~(code = "CLEAR" /\ TimedOut')
                 PROVE  Coming(d, code, "raw")' + (IF Writing(d, code)' THEN 1 ELSE 0)
                          <= rawPending'[<<d, code>>]
      BY DEF RawInv
    <3>1. Tracked(code) /\ ~(code = "CLEAR" /\ TimedOut) /\ running
      BY <1>1, <1>10 DEF Tracked, Polling
    <3>2. Coming(d, code, "raw") + (IF Writing(d, code) THEN 1 ELSE 0) <= rawPending[<<d, code>>]
      BY <3>1 DEF RawInv, ReplyInv
    <3>3. Coming(d, code, "raw")' \in Nat /\ Coming(d, code, "raw") \in Nat
          /\ Coming(d, code, "raw")' <= Coming(d, code, "raw")
      BY <2>4, <2>6
    <3>4. <<d, code>> \in Keys /\ rawPending[<<d, code>>] \in Nat
      BY <1>4 DEF Keys
    <3>5. CASE Key(r) = <<d, code>>
      <4>1. rawPending'[<<d, code>>] = rawPending[<<d, code>>] + 1
        BY <1>4, <1>12, <3>1, <3>5
      <4> QED BY <2>1, <3>2, <3>3, <3>4, <4>1
    <3>6. CASE Key(r) # <<d, code>>
      <4>1. rawPending[<<d, code>>] <= rawPending'[<<d, code>>] /\ rawPending'[<<d, code>>] \in Nat
        BY <1>5, <3>4 DEF IInv, TypeOK, QueuesOK
      <4> QED BY <2>1, <3>2, <3>3, <3>4, <3>6, <4>1
    <3> QED BY <3>5, <3>6
  <2>10. PollInv'
    <3>1. pollPending => Polling /\ ~Writing("send", "RETR")'
      <4>1. pollPending => Polling
        BY DEF ReplyInv, PollInv
      <4>2. pollPending => Key(r) # <<"send", "RETR">>
        BY <1>4, <1>12, <4>1 DEF Conflicts, Tracked
      <4> QED BY <2>1, <2>3, <4>1, <4>2
    <3>2. Polling' = Polling
      BY <1>1 DEF Polling
    <3>3. \A by \in Askers : /\ Coming("send", "RETR", by) \in Nat
                             /\ Coming("send", "RETR", by)' \in Nat
                             /\ Coming("send", "RETR", by)' <= Coming("send", "RETR", by)
      BY <2>3, <2>4
    <3> QED BY <1>1, <2>6, <3>1, <3>2, <3>3 DEF ReplyInv, PollInv
  <2> QED BY <1>7, <1>8, <2>8, <2>9, <2>10 DEF ReplyInv
<1> QED BY <1>3, <1>11, <1>12

\* A raw request is written.
LEMMA RawWriteReplies ==
  ASSUME IInv, IInv', ReplyInv, NEW t \in Threads, RawWrite(t)
  PROVE  ReplyInv'
<1>1. /\ UNCHANGED <<mode, running, workers, wpc, hand, buffered, rawPending, pollPending, control,
                     asked, answer, ctl>>
      /\ pc[t] = "rawWrite" /\ t # None
      /\ arg[t] \in [ch : Chan, code : Codes]
  BY DEF RawWrite, IInv, TypeOK, ThreadsOK
<1>2. PICK c \in Chan, code \in Codes : Key(arg[t]) = <<c, code>> /\ c = arg[t].ch /\ code = arg[t].code
  BY <1>1 DEF Key
<1>3. PICK r \in RequestSet : r = Request(c, code, "raw", 0)
  BY DEF Request, RequestSet
<1>4. r.code = code /\ r.by = "raw" /\ Proper(c, r)
  BY <1>3 DEF Request, Proper
<1>5. /\ \A u \in Threads \ {t} : pc'[u] = pc[u] /\ arg'[u] = arg[u]
      /\ pc' \in [Threads -> Places]
      /\ \/ Write(c, r) /\ cmd' = None /\ pc'[t] = "idle"
         \/ WriteFails(c) /\ cmd' = cmd /\ pc'[t] = "rawUnsend" /\ arg' = arg
  BY <1>1, <1>2, <1>3 DEF RawWrite, Goto, GotoWith, IInv, TypeOK, ThreadsOK
<1>6. cmd = t /\ ctl # t
  BY <1>1 DEF ReplyInv, MutexInv, CmdPlaces, CtlPlaces
<1>7. \A d \in Chan, e \in Codes : Writing(d, e) <=> <<c, code>> = <<d, e>>
  BY <1>1, <1>2, WritingOf DEF IInv, ReplyInv
<1>8. (Asking' <=> Asking) /\ (TimedOut <=> TimedOut')
  BY <1>1, <1>5, <1>6 DEF Asking, TimedOut, IInv, TypeOK, LocksOK
<1>9. KindInv'
  <2>1. pc'[Owner] \in {"opening", "spawn", "spawn2"} => pc'[Owner] = pc[Owner]
    BY <1>5
  <2>2. pc'[Owner] \notin {"opening", "spawn"}
    <3>1. workers # {} \/ pc[Owner] \notin {"idle", "opening", "spawn"}
      BY <1>1, <1>6 DEF ReplyInv, MutexInv
    <3> QED BY <2>1, <3>1 DEF IInv, LifeInv
  <2> QED BY <1>1, <1>4, <1>5, <2>1, <2>2, KindWrite DEF IInv, ReplyInv
<1>10. MutexInv'
  <2>1. /\ cmd' = cmd \/ (cmd = t /\ cmd' = None)
        /\ cmd' = t <=> pc'[t] \in CmdPlaces
        /\ pc'[t] \notin CtlPlaces
    BY <1>1, <1>5, <1>6 DEF CmdPlaces, CtlPlaces
  <2>2. control # "none" => ctl # None /\ pc[ctl] \in {"ctlWrite", "ctlUnset", "ctlWait"}
    BY DEF ReplyInv, MutexInv
  <2>3. ctl \in Threads \cup {None}
    BY DEF IInv, TypeOK, LocksOK
  <2>4. workers = {} /\ pc'[Owner] \in {"idle", "opening", "spawn"} => cmd' = None
    <3>1. workers = {} => pc[Owner] # "rawWrite"
      BY DEF IInv, LifeInv
    <3> QED BY <1>1, <1>5, <1>6, <3>1 DEF ReplyInv, MutexInv
  <2> QED BY <1>1, <1>5, <1>6, <2>1, <2>2, <2>3, <2>4, MutexFrame DEF IInv, ReplyInv
<1>11. CASE WriteFails(c) /\ cmd' = cmd /\ pc'[t] = "rawUnsend" /\ arg' = arg
  <2>1. Fewer
    BY <1>1, <1>11, LeftOut DEF WriteFails, IInv, TypeOK, NetOK
  <2>2. \A d \in Chan, e \in Codes : Writing(d, e)' => Writing(d, e)
    BY <1>1, <1>6, <1>11 DEF Writing, Key
  <2>3. \A k \in Keys : rawPending[k] <= rawPending'[k]
    BY <1>1 DEF IInv, TypeOK, QueuesOK
  <2> QED BY <1>1, <1>8, <1>9, <1>10, <2>1, <2>2, <2>3, FewerKeeps DEF IInv, ReplyInv
<1>12. CASE Write(c, r) /\ cmd' = None /\ pc'[t] = "idle"
  <2>1. \A d \in Chan, e \in Codes : ~Writing(d, e)'
    BY <1>12 DEF Writing
  <2>2. \A d \in Chan, e \in Codes, by \in Askers :
          /\ Coming(d, e, by) \in Nat /\ Coming(d, e, by)' \in Nat
          /\ Coming(d, e, by)' <= Coming(d, e, by)
               + (IF d = c /\ e = code /\ by = "raw" THEN 1 ELSE 0)
    <3> SUFFICES ASSUME NEW d \in Chan, NEW e \in Codes, NEW by \in Askers
                 PROVE  /\ Coming(d, e, by) \in Nat /\ Coming(d, e, by)' \in Nat
                        /\ Coming(d, e, by)' <= Coming(d, e, by)
                             + (IF d = c /\ e = code /\ by = "raw" THEN 1 ELSE 0)
      OBVIOUS
    <3>1. Coming(d, e, by) \in Nat /\ Coming(d, e, by)' \in Nat
      BY ComingType, ComingTypeNext DEF IInv
    <3>2. Coming(d, e, by)' <= Coming(d, e, by) + (IF d = c /\ Answers(r, e, by) THEN 1 ELSE 0)
      BY <1>1, <1>12, WriteFlow DEF IInv
    <3>3. Answers(r, e, by) <=> e = code /\ by = "raw"
      BY <1>4 DEF Answers
    <3> QED BY <3>1, <3>2, <3>3
  <2>3. \A d \in Chan : \A n : ForRequest(d, n) => ForRequest(d, n)'
    <3>1. ~Answers(r, "CLEAR", "control")
      BY <1>4 DEF Answers
    <3> QED BY <1>1, <1>12, <3>1, WriteFlow DEF IInv
  <2>4. PICK R \in Chan : R = Normal("receive") /\ Normal("receive")' = R
    BY <1>1, NormalIsChan DEF Normal, Chan
  <2>5. "CLEAR" \in Codes /\ "RETR" \in Codes /\ "send" \in Chan /\ {"raw", "control", "poll"} = Askers
    BY DEF Codes, Chan, Askers
  <2>6. ControlInv'
    <3>1. /\ Coming(R, "CLEAR", "control") > 0 => ~running \/ control = "pending" \/ TimedOut
          /\ control = "pending" => /\ Coming(R, "CLEAR", "raw") = 0 /\ ~Writing(R, "CLEAR")
                                    /\ Coming(R, "CLEAR", "control") <= 1
                                    /\ Asking => Coming(R, "CLEAR", "control") = 0
                                    /\ ForRequest(R, asked)
          /\ control = "complete" => answer = asked /\ Coming(R, "CLEAR", "control") = 0
          /\ Asking => control = "pending"
      BY <2>4 DEF ReplyInv, ControlInv
    <3>2. /\ Coming(R, "CLEAR", "control")' <= Coming(R, "CLEAR", "control")
          /\ Coming(R, "CLEAR", "control")' \in Nat /\ Coming(R, "CLEAR", "control") \in Nat
      BY <2>2, <2>5
    <3>3. control = "pending" => Coming(R, "CLEAR", "raw")' = 0
      <4>1. control = "pending" => ~(R = c /\ "CLEAR" = code)
        BY <1>7, <2>5, <3>1
      <4>2. /\ Coming(R, "CLEAR", "raw") \in Nat /\ Coming(R, "CLEAR", "raw")' \in Nat
            /\ Coming(R, "CLEAR", "raw")' <= Coming(R, "CLEAR", "raw")
                 + (IF R = c /\ "CLEAR" = code THEN 1 ELSE 0)
        BY <2>2, <2>5
      <4> QED BY <3>1, <4>1, <4>2
    <3>4. control = "pending" => ForRequest(R, asked)'
      <4>1. PICK n : n = asked /\ asked' = n
        BY <1>1
      <4>2. control = "pending" => ForRequest(R, n)'
        BY <2>3, <3>1, <4>1
      <4> QED BY <4>1, <4>2 DEF ForRequest
    <3>5. UNCHANGED <<control, asked, answer, running>> /\ ~Writing(R, "CLEAR")'
      BY <1>1, <2>1, <2>5
    <3>6. Coming(R, "CLEAR", "control")' > 0 => ~running' \/ control' = "pending" \/ TimedOut'
      BY <1>8, <3>1, <3>2, <3>5
    <3>7. control' = "pending" => /\ Coming(R, "CLEAR", "raw")' = 0 /\ ~Writing(R, "CLEAR")'
                                  /\ Coming(R, "CLEAR", "control")' <= 1
                                  /\ Asking' => Coming(R, "CLEAR", "control")' = 0
                                  /\ ForRequest(R, asked)'
      BY <1>8, <3>1, <3>2, <3>3, <3>4, <3>5
    <3>8. /\ control' = "complete" => answer' = asked' /\ Coming(R, "CLEAR", "control")' = 0
          /\ Asking' => control' = "pending"
      BY <1>8, <3>1, <3>2, <3>5
    <3> QED BY <2>4, <3>6, <3>7, <3>8 DEF ControlInv
  <2>7. RawInv'
    <3> SUFFICES ASSUME running', NEW d \in Chan, NEW e \in Codes, Tracked(e)',
                        ~(e = "CLEAR" /\ TimedOut')
                 PROVE  Coming(d, e, "raw")' + (IF Writing(d, e)' THEN 1 ELSE 0)
                          <= rawPending'[<<d, e>>]
      BY DEF RawInv
    <3>1. Tracked(e) /\ ~(e = "CLEAR" /\ TimedOut) /\ running
      BY <1>1, <1>8 DEF Tracked, Polling
    <3>2. Coming(d, e, "raw") + (IF Writing(d, e) THEN 1 ELSE 0) <= rawPending[<<d, e>>]
      BY <3>1 DEF RawInv, ReplyInv
    <3>3. /\ Coming(d, e, "raw")' \in Nat /\ Coming(d, e, "raw") \in Nat
          /\ Coming(d, e, "raw")' <= Coming(d, e, "raw") + (IF d = c /\ e = code THEN 1 ELSE 0)
      BY <2>2, <2>5
    <3>4. <<d, e>> \in Keys /\ rawPending[<<d, e>>] \in Nat /\ rawPending' = rawPending
      BY <1>1 DEF Keys, IInv, TypeOK, QueuesOK
    <3>5. Writing(d, e) <=> d = c /\ e = code
      BY <1>7
    <3> QED BY <2>1, <3>2, <3>3, <3>4, <3>5
  <2>8. PollInv'
    <3>1. pollPending => Polling /\ Coming("send", "RETR", "raw") = 0 /\ ~Writing("send", "RETR")
      BY DEF ReplyInv, PollInv
    <3>2. Polling' = Polling
      BY <1>1 DEF Polling
    <3>3. pollPending => Coming("send", "RETR", "raw")' = 0
      <4>1. pollPending => ~("send" = c /\ "RETR" = code)
        BY <1>7, <2>5, <3>1
      <4>2. /\ Coming("send", "RETR", "raw") \in Nat /\ Coming("send", "RETR", "raw")' \in Nat
            /\ Coming("send", "RETR", "raw")' <= Coming("send", "RETR", "raw")
                 + (IF "send" = c /\ "RETR" = code THEN 1 ELSE 0)
        BY <2>2, <2>5
      <4> QED BY <3>1, <4>1, <4>2
    <3>4. /\ Coming("send", "RETR", "poll")' <= Coming("send", "RETR", "poll")
          /\ Coming("send", "RETR", "poll") \in Nat /\ Coming("send", "RETR", "poll")' \in Nat
      BY <2>2, <2>5
    <3>5. ~Writing("send", "RETR")'
      BY <2>1, <2>5
    <3> QED BY <1>1, <3>1, <3>2, <3>3, <3>4, <3>5 DEF ReplyInv, PollInv
  <2> QED BY <1>9, <1>10, <2>6, <2>7, <2>8 DEF ReplyInv
<1> QED BY <1>5, <1>11, <1>12

\* A raw request that could not be written is not counted.
LEMMA RawUnsendReplies ==
  ASSUME IInv, IInv', ReplyInv, NEW t \in Threads, RawUnsend(t)
  PROVE  ReplyInv'
<1>1. /\ UNCHANGED <<mode, running, workers, wpc, hand, buffered, net, todo, pollPending, control,
                     asked, answer, ctl>>
      /\ pc[t] = "rawUnsend" /\ cmd' = None /\ t # None
      /\ arg[t] \in [ch : Chan, code : Codes]
  BY DEF RawUnsend, IInv, TypeOK, ThreadsOK
<1>2. PICK c \in Chan, code \in Codes : Key(arg[t]) = <<c, code>> /\ code = arg[t].code
  BY <1>1 DEF Key
<1>3. /\ \A u \in Threads \ {t} : pc'[u] = pc[u] /\ arg'[u] = arg[u]
      /\ pc' \in [Threads -> Places] /\ pc'[t] = "fail"
  BY DEF RawUnsend, Goto, GotoWith, IInv, TypeOK, ThreadsOK
<1>4. rawPending' = IF Tracked(code) /\ rawPending[<<c, code>>] > 0
                    THEN [rawPending EXCEPT ![<<c, code>>] = @ - 1] ELSE rawPending
  BY <1>2 DEF RawUnsend
<1>5. cmd = t /\ ctl # t
  BY <1>1 DEF ReplyInv, MutexInv, CmdPlaces, CtlPlaces
<1>6. \A d \in Chan, e \in Codes : (Writing(d, e) <=> <<c, code>> = <<d, e>>) /\ ~Writing(d, e)'
  <2>1. \A d \in Chan, e \in Codes : Writing(d, e) <=> <<c, code>> = <<d, e>>
    BY <1>1, <1>2, WritingOf DEF IInv, ReplyInv
  <2> QED BY <1>1, <2>1 DEF Writing
<1>7. (Asking' => Asking) /\ (TimedOut => TimedOut')
  BY <1>1, <1>3, <1>5 DEF Asking, TimedOut, IInv, TypeOK, LocksOK
<1>8. Fewer
  BY <1>1, LeftOut DEF IInv
<1>9. KindInv'
  <2>1. pc'[Owner] \in {"opening", "spawn", "spawn2"} => pc'[Owner] = pc[Owner]
    BY <1>3
  <2> QED BY <1>1, <2>1, KindFrame DEF ReplyInv
<1>10. MutexInv'
  <2>1. pc'[t] \notin CmdPlaces \cup CtlPlaces
    BY <1>3 DEF CmdPlaces, CtlPlaces
  <2>2. control # "none" => ctl # None /\ pc[ctl] \in {"ctlWrite", "ctlUnset", "ctlWait"}
    BY DEF ReplyInv, MutexInv
  <2>3. ctl \in Threads \cup {None}
    BY DEF IInv, TypeOK, LocksOK
  <2> QED BY <1>1, <1>3, <1>5, <2>1, <2>2, <2>3, MutexFrame DEF IInv, ReplyInv
<1>11. ControlInv' /\ PollInv'
  <2>1. \A d \in Chan, e \in Codes : Writing(d, e)' => Writing(d, e)
    BY <1>6
  <2> QED BY <1>1, <1>7, <1>8, <2>1, FewerMeans, ControlKeeps, PollKeeps DEF IInv, ReplyInv
<1>12. RawInv'
  <2> SUFFICES ASSUME running', NEW d \in Chan, NEW e \in Codes, Tracked(e)',
                      ~(e = "CLEAR" /\ TimedOut')
               PROVE  Coming(d, e, "raw")' + (IF Writing(d, e)' THEN 1 ELSE 0)
                        <= rawPending'[<<d, e>>]
    BY DEF RawInv
  <2>1. Tracked(e) /\ ~(e = "CLEAR" /\ TimedOut) /\ running
    BY <1>1, <1>7 DEF Tracked, Polling
  <2>2. Coming(d, e, "raw") + (IF Writing(d, e) THEN 1 ELSE 0) <= rawPending[<<d, e>>]
    BY <2>1 DEF RawInv, ReplyInv
  <2>3. /\ Coming(d, e, "raw")' \in Nat /\ Coming(d, e, "raw") \in Nat
        /\ Coming(d, e, "raw")' <= Coming(d, e, "raw")
    BY <1>8, ComingType, ComingTypeNext DEF Fewer, Askers, IInv
  <2>4. /\ <<d, e>> \in Keys /\ rawPending[<<d, e>>] \in Nat /\ rawPending \in [Keys -> Nat]
        /\ <<c, code>> \in Keys
    BY DEF Keys, IInv, TypeOK, QueuesOK
  <2>5. CASE <<c, code>> = <<d, e>>
    <3>1. rawPending[<<d, e>>] > 0
      BY <1>6, <2>2, <2>3, <2>4, <2>5
    <3>2. rawPending'[<<d, e>>] = rawPending[<<d, e>>] - 1
      BY <1>4, <2>1, <2>4, <2>5, <3>1
    <3> QED BY <1>6, <2>2, <2>3, <2>4, <2>5, <3>2
  <2>6. CASE <<c, code>> # <<d, e>>
    <3>1. rawPending'[<<d, e>>] = rawPending[<<d, e>>]
      BY <1>4, <2>4, <2>6
    <3> QED BY <1>6, <2>2, <2>3, <2>4, <2>6, <3>1
  <2> QED BY <2>5, <2>6
<1> QED BY <1>9, <1>10, <1>11, <1>12 DEF ReplyInv

\* Where no reply to a control request comes, none comes for another one.
LEMMA NoControl ==
  ASSUME TypeOK, NEW d \in Chan, Coming(d, "CLEAR", "control") = 0
  PROVE  \A n : ForRequest(d, n)
<1>1. /\ net[d] \in Seq(FrameSet) /\ todo[d] \in Seq(RequestSet)
      /\ DOMAIN net[d] = 1 .. Len(net[d]) /\ DOMAIN todo[d] = 1 .. Len(todo[d])
  BY DEF TypeOK, NetOK
<1>2. /\ Number(net[d], "CLEAR", "control") \in Nat /\ Number(todo[d], "CLEAR", "control") \in Nat
  BY ComingType
<1>3. /\ Number(net[d], "CLEAR", "control") = 0 /\ Number(todo[d], "CLEAR", "control") = 0
      /\ ~InHand(d, "CLEAR", "control")
  BY <1>2 DEF Coming
<1>4. /\ \A i \in 1 .. Len(net[d]) : ~Answers(net[d][i], "CLEAR", "control")
      /\ \A i \in 1 .. Len(todo[d]) : ~Answers(todo[d][i], "CLEAR", "control")
  BY <1>1, <1>3, NumberType
<1> QED BY <1>1, <1>3, <1>4 DEF ForRequest

\* clear has the command mutex, and registers its request.
LEMMA ControlBeginReplies ==
  ASSUME IInv, IInv', ReplyInv, NEW t \in Threads, ControlBegin(t)
  PROVE  ReplyInv'
<1>1. /\ UNCHANGED <<mode, running, workers, wpc, hand, buffered, net, todo, rawPending,
                     pollPending>>
      /\ pc[t] = "ctlCmd" /\ cmd = None /\ t # None
  BY DEF ControlBegin
<1>2. /\ \A u \in Threads \ {t} : pc'[u] = pc[u] /\ arg'[u] = arg[u]
      /\ pc' \in [Threads -> Places]
  BY DEF ControlBegin, Goto, GotoWith, IInv, TypeOK, ThreadsOK
<1>3. \/ pc'[t] = "idle" /\ ctl' = None /\ UNCHANGED <<cmd, control, asked, answer>>
      \/ /\ running /\ ~RawIsPending
         /\ pc'[t] = "ctlWrite" /\ cmd' = t /\ ctl' = ctl /\ control' = "pending"
  BY DEF ControlBegin, Goto, GotoWith, IInv, TypeOK, ThreadsOK
<1>4. ctl = t /\ control = "none" /\ ~TimedOut
  <2>1. ctl = t
    BY <1>1 DEF ReplyInv, MutexInv, CtlPlaces
  <2>2. control # "none" => pc[ctl] \in {"ctlWrite", "ctlUnset", "ctlWait"}
    BY DEF ReplyInv, MutexInv
  <2> QED BY <1>1, <2>1, <2>2 DEF TimedOut
<1>5. Fewer
  BY <1>1, LeftOut DEF IInv
<1>6. KindInv'
  <2>1. pc'[Owner] \in {"opening", "spawn", "spawn2"} => pc'[Owner] = pc[Owner]
    BY <1>2, <1>3
  <2> QED BY <1>1, <2>1, KindFrame DEF ReplyInv
<1>7. MutexInv'
  <2>1. /\ cmd' = cmd \/ (cmd = None /\ cmd' = t)
        /\ cmd' = t <=> pc'[t] \in CmdPlaces
        /\ pc'[t] \in CtlPlaces => ctl' = t
        /\ ctl' = t => pc'[t] \in CtlPlaces
        /\ ctl' = ctl \/ (ctl = t /\ ctl' = None)
    BY <1>1, <1>3, <1>4 DEF CmdPlaces, CtlPlaces
  <2>2. control' # "none" => ctl' # None /\ pc'[ctl'] \in {"ctlWrite", "ctlUnset", "ctlWait"}
    BY <1>1, <1>3, <1>4
  <2>3. workers = {} => cmd' = None
    BY <1>1, <1>3 DEF IInv, LifeInv
  <2> QED BY <1>1, <1>2, <2>1, <2>2, <2>3, MutexFrame DEF IInv, ReplyInv
<1>8. \A d \in Chan, code \in Codes : ~Writing(d, code) /\ ~Writing(d, code)'
  BY <1>1, <1>3 DEF Writing
<1>9. RawInv' /\ PollInv'
  <2>1. \A k \in Keys : rawPending[k] <= rawPending'[k]
    BY <1>1 DEF IInv, TypeOK, QueuesOK
  <2> QED BY <1>1, <1>4, <1>5, <1>8, <2>1, FewerMeans, RawKeeps, PollKeeps DEF IInv, ReplyInv
<1>10. CASE pc'[t] = "idle" /\ ctl' = None /\ UNCHANGED <<cmd, control, asked, answer>>
  <2>1. ~Asking'
    BY <1>10 DEF Asking
  <2>2. ControlInv'
    BY <1>1, <1>4, <1>5, <1>8, <1>10, <2>1, FewerMeans, ControlKeeps DEF IInv, ReplyInv
  <2> QED BY <1>6, <1>7, <1>9, <2>2 DEF ReplyInv
<1>11. CASE /\ running /\ ~RawIsPending
            /\ pc'[t] = "ctlWrite" /\ cmd' = t /\ ctl' = ctl /\ control' = "pending"
  <2>1. PICK R \in Chan : R = Normal("receive") /\ Normal("receive")' = R
    BY <1>1, NormalIsChan DEF Normal, Chan
  <2>2. "CLEAR" \in Codes /\ <<R, "CLEAR">> \in Keys
    BY DEF Codes, Keys
  <2>3. /\ Coming(R, "CLEAR", "raw") \in Nat /\ Coming(R, "CLEAR", "raw")' \in Nat
        /\ Coming(R, "CLEAR", "control") \in Nat /\ Coming(R, "CLEAR", "control")' \in Nat
        /\ Coming(R, "CLEAR", "raw")' <= Coming(R, "CLEAR", "raw")
        /\ Coming(R, "CLEAR", "control")' <= Coming(R, "CLEAR", "control")
    BY <1>5, <2>2, FewerMeans, ComingType, ComingTypeNext DEF NoMore, IInv
  <2>4. Coming(R, "CLEAR", "control") = 0
    <3>1. Coming(R, "CLEAR", "control") > 0 => ~running \/ control = "pending" \/ TimedOut
      BY <2>1 DEF ReplyInv, ControlInv
    <3> QED BY <1>4, <1>11, <2>3, <3>1
  <2>5. Coming(R, "CLEAR", "raw") = 0
    <3>1. rawPending[<<R, "CLEAR">>] = 0
      BY <1>11, <2>1, <2>2 DEF RawIsPending, IInv, TypeOK, QueuesOK
    <3>2. Coming(R, "CLEAR", "raw") + (IF Writing(R, "CLEAR") THEN 1 ELSE 0)
            <= rawPending[<<R, "CLEAR">>]
      BY <1>4, <1>11, <2>2 DEF ReplyInv, RawInv, Tracked
    <3> QED BY <1>8, <2>2, <2>3, <3>1, <3>2
  <2>6. ForRequest(R, asked)'
    <3>1. \A n : ForRequest(R, n)
      BY <2>4, NoControl DEF IInv
    <3>2. PICK n : n = asked'
      OBVIOUS
    <3>3. ForRequest(R, n)'
      BY <1>5, <3>1, FewerMeans DEF SameRequest
    <3> QED BY <3>2, <3>3 DEF ForRequest
  <2>7. ControlInv'
    BY <1>8, <1>11, <2>1, <2>2, <2>3, <2>4, <2>5, <2>6 DEF ControlInv
  <2> QED BY <1>6, <1>7, <1>9, <2>7 DEF ReplyInv
<1> QED BY <1>3, <1>10, <1>11

\* The request is written.
LEMMA ControlWriteReplies ==
  ASSUME IInv, IInv', ReplyInv, NEW t \in Threads, ControlWrite(t)
  PROVE  ReplyInv'
<1>1. /\ UNCHANGED <<mode, running, workers, wpc, hand, buffered, rawPending, pollPending, control,
                     asked, answer, ctl>>
      /\ pc[t] = "ctlWrite" /\ cmd' = None /\ t # None
  BY DEF ControlWrite
<1>2. PICK R \in Chan : R = Normal("receive") /\ Normal("receive")' = R
  BY <1>1, NormalIsChan DEF Normal, Chan
<1>3. PICK r \in RequestSet : r = Request(R, "CLEAR", "control", asked)
  <2>1. asked \in Nat
    BY DEF IInv, TypeOK, ControlOK
  <2> QED BY <2>1 DEF Request, RequestSet, Codes
<1>4. r.code = "CLEAR" /\ r.by = "control" /\ r.n = asked /\ Proper(R, r)
  BY <1>2, <1>3 DEF Request, Proper
<1>5. /\ \A u \in Threads \ {t} : pc'[u] = pc[u] /\ arg'[u] = arg[u]
      /\ pc' \in [Threads -> Places]
      /\ \/ Write(R, r) /\ pc'[t] = "ctlWait"
         \/ WriteFails(R) /\ pc'[t] = "ctlUnset"
  BY <1>2, <1>3 DEF ControlWrite, Goto, GotoWith, IInv, TypeOK, ThreadsOK
<1>6. cmd = t /\ ctl = t
  BY <1>1 DEF ReplyInv, MutexInv, CmdPlaces, CtlPlaces
<1>7. Asking /\ ~Asking' /\ ~TimedOut /\ \A d \in Chan, e \in Codes : ~Writing(d, e)'
  BY <1>1, <1>5, <1>6 DEF Asking, TimedOut, Writing
<1>8. /\ control = "pending" /\ Coming(R, "CLEAR", "raw") = 0
      /\ Coming(R, "CLEAR", "control") = 0 /\ ForRequest(R, asked)
  BY <1>2, <1>7 DEF ReplyInv, ControlInv
<1>9. KindInv'
  <2>1. pc'[Owner] \in {"opening", "spawn", "spawn2"} => pc'[Owner] = pc[Owner]
    BY <1>5
  <2>2. pc'[Owner] \notin {"opening", "spawn"}
    <3>1. workers # {} \/ pc[Owner] \notin {"idle", "opening", "spawn"}
      BY <1>1, <1>6 DEF ReplyInv, MutexInv
    <3> QED BY <2>1, <3>1 DEF IInv, LifeInv
  <2> QED BY <1>1, <1>4, <1>5, <2>1, <2>2, KindWrite DEF IInv, ReplyInv
<1>10. MutexInv'
  <2>1. /\ cmd' = t <=> pc'[t] \in CmdPlaces
        /\ ctl' = t /\ pc'[t] \in CtlPlaces
    BY <1>1, <1>5, <1>6 DEF CmdPlaces, CtlPlaces
  <2>2. pc'[ctl'] \in {"ctlWrite", "ctlUnset", "ctlWait"}
    BY <1>5, <2>1
  <2> QED BY <1>1, <1>5, <1>6, <2>1, <2>2, MutexFrame DEF IInv, ReplyInv
<1>11. \A k \in Keys : rawPending[k] <= rawPending'[k]
  BY <1>1 DEF IInv, TypeOK, QueuesOK
<1>12. CASE WriteFails(R)
  <2>1. Fewer
    BY <1>1, <1>12, LeftOut DEF WriteFails, IInv, TypeOK, NetOK
  <2> QED BY <1>1, <1>7, <1>9, <1>10, <1>11, <2>1, FewerKeeps DEF IInv, ReplyInv
<1>13. CASE Write(R, r)
  <2>1. \A d \in Chan, e \in Codes, by \in Askers :
          Coming(d, e, by)' <= Coming(d, e, by) + (IF d = R /\ Answers(r, e, by) THEN 1 ELSE 0)
    BY <1>1, <1>13, WriteFlow DEF IInv
  <2>2. \A d \in Chan, e \in Codes, by \in Askers :
          Coming(d, e, by) \in Nat /\ Coming(d, e, by)' \in Nat
    BY ComingType, ComingTypeNext DEF IInv
  <2>3. "raw" \in Askers /\ "poll" \in Askers /\ "control" \in Askers /\ "CLEAR" \in Codes
    BY DEF Askers, Codes
  <2>4. NoMore("raw") /\ NoMore("poll")
    <3>1. \A e : ~Answers(r, e, "raw") /\ ~Answers(r, e, "poll")
      BY <1>4 DEF Answers
    <3> QED BY <2>1, <2>2, <2>3, <3>1 DEF NoMore
  <2>5. RawInv' /\ PollInv'
    BY <1>1, <1>7, <1>11, <2>4, RawKeeps, PollKeeps DEF IInv, ReplyInv
  <2>6. Coming(R, "CLEAR", "raw")' = 0 /\ Coming(R, "CLEAR", "control")' \in 0 .. 1
    <3>1. /\ Coming(R, "CLEAR", "raw")' \in Nat /\ Coming(R, "CLEAR", "control")' \in Nat
          /\ Coming(R, "CLEAR", "raw")' <= 0
          /\ Coming(R, "CLEAR", "control")' <= 0 + (IF R = R /\ Answers(r, "CLEAR", "control")
                                                    THEN 1 ELSE 0)
      BY <1>8, <2>1, <2>2, <2>3, <2>4 DEF NoMore
    <3> QED BY <3>1
  <2>7. ForRequest(R, asked)'
    <3>1. PICK n : n = asked /\ asked' = n
      BY <1>1
    <3>2. ForRequest(R, n)'
      BY <1>1, <1>4, <1>8, <1>13, <3>1, WriteFlow DEF IInv
    <3> QED BY <3>1, <3>2 DEF ForRequest
  <2>8. ControlInv'
    BY <1>1, <1>2, <1>7, <1>8, <2>3, <2>6, <2>7 DEF ControlInv
  <2> QED BY <1>9, <1>10, <2>5, <2>8 DEF ReplyInv
<1> QED BY <1>5, <1>12, <1>13

\* A poll is begun.
LEMMA WorkerPollsReplies ==
  ASSUME IInv, IInv', ReplyInv, NEW c \in Chan, WorkerPolls(c)
  PROVE  ReplyInv'
<1>1. /\ UNCHANGED <<mode, running, workers, net, todo, buffered, rawPending, control, asked,
                     answer, cmd, ctl, pc, arg>>
      /\ wpc[c] = "top" /\ running /\ Polling /\ pollPending = FALSE /\ pollPending' = TRUE
      /\ rawPending[<<c, "RETR">>] = 0
  BY DEF WorkerPolls, CanPoll, IInv, TypeOK, FlagsOK
<1>2. \A d \in Chan : /\ wpc'[d] = IF d = c THEN "poll" ELSE wpc[d]
                      /\ hand'[d] = hand[d] \/ hand'[d] = NoFrame
                      /\ wpc'[d] = "frame" => wpc[d] = "frame" /\ hand'[d] = hand[d]
  BY DEF WorkerPolls, WGoto, HoldsFrame, IInv, TypeOK, WorkersOK
<1>3. c = "send"
  <2>1. c \in workers
    BY <1>1 DEF IInv, LifeInv
  <2> QED BY <1>1, <2>1 DEF ReplyInv, KindInv, Channels, Polling
<1>4. Fewer
  BY <1>1, <1>2, LeftOut DEF IInv
<1>5. KindInv'
  BY <1>1, <1>2, KindFrame DEF ReplyInv
<1>6. MutexInv'
  BY <1>1 DEF ReplyInv, MutexInv
<1>7. /\ \A d \in Chan, code \in Codes : Writing(d, code)' => Writing(d, code)
      /\ Asking' => Asking
      /\ TimedOut => TimedOut'
  BY <1>1 DEF Writing, Asking, TimedOut, Key
<1>8. ControlInv' /\ RawInv'
  <2>1. \A k \in Keys : rawPending[k] <= rawPending'[k]
    BY <1>1 DEF IInv, TypeOK, QueuesOK
  <2> QED BY <1>1, <1>4, <1>7, <2>1, FewerMeans, ControlKeeps, RawKeeps DEF IInv, ReplyInv
<1>9. PollInv'
  <2>1. "RETR" \in Codes /\ "send" \in Chan
    BY DEF Codes, Chan
  <2>2. /\ Coming("send", "RETR", "raw") \in Nat /\ Coming("send", "RETR", "raw")' \in Nat
        /\ Coming("send", "RETR", "poll") \in Nat /\ Coming("send", "RETR", "poll")' \in Nat
        /\ Coming("send", "RETR", "raw")' <= Coming("send", "RETR", "raw")
        /\ Coming("send", "RETR", "poll")' <= Coming("send", "RETR", "poll")
    BY <1>4, <2>1, FewerMeans, ComingType, ComingTypeNext DEF NoMore, IInv
  <2>3. Coming("send", "RETR", "raw") + (IF Writing("send", "RETR") THEN 1 ELSE 0) <= 0
    <3>1. Coming("send", "RETR", "raw") + (IF Writing("send", "RETR") THEN 1 ELSE 0)
            <= rawPending[<<"send", "RETR">>]
      BY <1>1, <2>1 DEF ReplyInv, RawInv, Tracked
    <3> QED BY <1>1, <1>3, <3>1
  <2>4. Coming("send", "RETR", "raw")' = 0 /\ ~Writing("send", "RETR")'
    BY <1>7, <2>1, <2>2, <2>3
  <2>5. Coming("send", "RETR", "poll")' = 0
    BY <1>1, <2>2 DEF ReplyInv, PollInv
  <2>6. \A d \in Chan : wpc'[d] = "poll" => d = "send"
    BY <1>2, <1>3 DEF ReplyInv, PollInv
  <2>7. Polling'
    BY <1>1 DEF Polling
  <2> QED BY <1>1, <2>4, <2>5, <2>6, <2>7 DEF PollInv
<1> QED BY <1>5, <1>6, <1>8, <1>9 DEF ReplyInv

\* The poll is written.
LEMMA WorkerWritesPollReplies ==
  ASSUME IInv, IInv', ReplyInv, NEW c \in Chan, WorkerWritesPoll(c)
  PROVE  ReplyInv'
<1>1. /\ UNCHANGED <<mode, running, workers, buffered, rawPending, pollPending, control, asked,
                     answer, cmd, ctl, pc, arg>>
      /\ wpc[c] = "poll"
  BY DEF WorkerWritesPoll
<1>2. c = "send" /\ pollPending /\ Polling
  BY <1>1 DEF ReplyInv, PollInv
<1>3. PICK r \in RequestSet : r = Request(c, "RETR", "poll", polls)
  BY DEF Request, RequestSet, Codes, IInv, TypeOK, ControlOK
<1>4. r.code = "RETR" /\ r.by = "poll" /\ Proper(c, r)
  BY <1>2, <1>3 DEF Request, Proper
<1>5. /\ Write(c, r) \/ WriteFails(c)
      /\ \A d \in Chan : /\ hand'[d] = hand[d] \/ hand'[d] = NoFrame
                         /\ wpc'[d] = "frame" => wpc[d] = "frame" /\ hand'[d] = hand[d]
                         /\ wpc'[d] = "poll" => d # c /\ wpc[d] = "poll"
  BY <1>3 DEF WorkerWritesPoll, WGoto, HoldsFrame, IInv, TypeOK, WorkersOK
<1>6. KindInv'
  <2>1. workers # {}
    BY <1>1 DEF IInv, LifeInv
  <2>2. pc'[Owner] \notin {"opening", "spawn"}
    BY <1>1, <2>1 DEF IInv, LifeInv
  <2> QED BY <1>1, <1>4, <1>5, <2>2, KindWrite DEF IInv, ReplyInv
<1>7. MutexInv'
  BY <1>1 DEF ReplyInv, MutexInv
<1>8. /\ \A d \in Chan, code \in Codes : Writing(d, code)' => Writing(d, code)
      /\ Asking' => Asking
      /\ TimedOut => TimedOut'
      /\ \A k \in Keys : rawPending[k] <= rawPending'[k]
  BY <1>1 DEF Writing, Asking, TimedOut, Key, IInv, TypeOK, QueuesOK
<1>9. CASE WriteFails(c)
  <2>1. Fewer
    BY <1>5, <1>9, LeftOut DEF WriteFails, IInv, TypeOK, NetOK
  <2> QED BY <1>1, <1>5, <1>6, <1>7, <1>8, <2>1, FewerKeeps DEF IInv, ReplyInv
<1>10. CASE Write(c, r)
  <2>1. \A d \in Chan, e \in Codes, by \in Askers :
          Coming(d, e, by)' <= Coming(d, e, by) + (IF d = c /\ Answers(r, e, by) THEN 1 ELSE 0)
    BY <1>5, <1>10, WriteFlow DEF IInv
  <2>2. \A d \in Chan, e \in Codes, by \in Askers :
          Coming(d, e, by) \in Nat /\ Coming(d, e, by)' \in Nat
    BY ComingType, ComingTypeNext DEF IInv
  <2>3. /\ "raw" \in Askers /\ "poll" \in Askers /\ "control" \in Askers
        /\ "RETR" \in Codes /\ "send" \in Chan
    BY DEF Askers, Codes, Chan
  <2>4. NoMore("raw") /\ NoMore("control")
    <3>1. \A e : ~Answers(r, e, "raw") /\ ~Answers(r, e, "control")
      BY <1>4 DEF Answers
    <3> QED BY <2>1, <2>2, <2>3, <3>1 DEF NoMore
  <2>5. SameRequest
    <3>1. ~Answers(r, "CLEAR", "control")
      BY <1>4 DEF Answers
    <3> QED BY <1>5, <1>10, <3>1, WriteFlow DEF SameRequest, IInv
  <2>6. ControlInv' /\ RawInv'
    BY <1>1, <1>8, <2>4, <2>5, ControlKeeps, RawKeeps DEF IInv, ReplyInv
  <2>7. PollInv'
    <3>1. /\ Coming("send", "RETR", "raw") = 0 /\ ~Writing("send", "RETR")
          /\ Coming("send", "RETR", "poll") + 1 <= 1
      BY <1>1, <1>2 DEF ReplyInv, PollInv
    <3>2. /\ Coming("send", "RETR", "raw")' \in Nat /\ Coming("send", "RETR", "poll")' \in Nat
          /\ Coming("send", "RETR", "poll") \in Nat
          /\ Coming("send", "RETR", "raw")' <= Coming("send", "RETR", "raw")
          /\ Coming("send", "RETR", "poll")' <= Coming("send", "RETR", "poll") + 1
      BY <2>1, <2>2, <2>3, <2>4 DEF NoMore
    <3>3. /\ wpc'["send"] # "poll"
          /\ \A d \in Chan : wpc'[d] = "poll" => d = "send"
      BY <1>2, <1>5 DEF ReplyInv, PollInv
    <3>4. Polling' /\ pollPending'
      BY <1>1, <1>2 DEF Polling
    <3>5. ~Writing("send", "RETR")'
      BY <1>8, <2>3, <3>1
    <3>6. /\ Coming("send", "RETR", "raw")' = 0 /\ Coming("send", "RETR", "poll")' <= 1
      BY <3>1, <3>2
    <3> QED BY <3>2, <3>3, <3>4, <3>5, <3>6 DEF PollInv
  <2> QED BY <1>6, <1>7, <2>6, <2>7 DEF ReplyInv
<1> QED BY <1>5, <1>9, <1>10

-----------------------------------------------------------------------------
(* Replies that are processed.                                              *)

\* A reply that has been processed comes no more.
LEMMA HandDone ==
  ASSUME TypeOK, TypeOK', NEW c \in Chan, wpc[c] = "frame",
         NEW l \in WorkerPlaces \ {"poll", "frame"}, WGoto(c, l), UNCHANGED <<net, todo>>
  PROVE  /\ Fewer
         /\ \A code \in Codes, by \in Askers :
              /\ Coming(c, code, by) \in Nat /\ Coming(c, code, by)' \in Nat
              /\ Coming(c, code, by) =
                   Coming(c, code, by)' + (IF Answers(hand[c], code, by) THEN 1 ELSE 0)
<1>1. Fewer
  BY WorkerGoes, LeftOut
<1>2. ASSUME NEW code \in Codes, NEW by \in Askers
      PROVE  /\ Coming(c, code, by) \in Nat /\ Coming(c, code, by)' \in Nat
             /\ Coming(c, code, by) =
                  Coming(c, code, by)' + (IF Answers(hand[c], code, by) THEN 1 ELSE 0)
  <2>1. /\ Coming(c, code, by) \in Nat /\ Coming(c, code, by)' \in Nat
        /\ Number(net[c], code, by) \in Nat /\ Number(todo[c], code, by) \in Nat
    BY ComingType, ComingTypeNext
  <2>2. (InHand(c, code, by) <=> Answers(hand[c], code, by)) /\ ~InHand(c, code, by)'
    BY DEF InHand, WGoto, TypeOK, WorkersOK
  <2> QED BY <2>1, <2>2 DEF Coming
<1> QED BY <1>1, <1>2

\* The reply to a poll.
LEMMA ProcessPollReplyReplies ==
  ASSUME IInv, IInv', ReplyInv, NEW c \in Chan, ProcessPollReply(c)
  PROVE  ReplyInv'
<1>1. /\ UNCHANGED <<mode, running, workers, net, todo, buffered, rawPending, control, asked,
                     answer, cmd, ctl, pc, arg>>
      /\ wpc[c] = "frame" /\ hand[c].code = "RETR" /\ pollPending /\ c = "send"
      /\ ~pollPending'
  BY DEF ProcessPollReply, IsPollReply
<1>2. PICK l \in WorkerPlaces \ {"poll", "frame"} : WGoto(c, l)
  BY DEF ProcessPollReply, WorkerPlaces
<1>3. /\ Fewer
      /\ \A code \in Codes, by \in Askers :
           /\ Coming(c, code, by) \in Nat /\ Coming(c, code, by)' \in Nat
           /\ Coming(c, code, by) =
                Coming(c, code, by)' + (IF Answers(hand[c], code, by) THEN 1 ELSE 0)
  BY <1>1, <1>2, HandDone DEF IInv
<1>4. \A d \in Chan : /\ hand'[d] = hand[d] \/ hand'[d] = NoFrame
                      /\ wpc'[d] = "poll" => wpc[d] = "poll"
  BY <1>2, WorkerGoes DEF IInv
<1>5. KindInv'
  BY <1>1, <1>4, KindFrame DEF ReplyInv
<1>6. MutexInv'
  BY <1>1 DEF ReplyInv, MutexInv
<1>7. /\ \A d \in Chan, code \in Codes : Writing(d, code)' => Writing(d, code)
      /\ Asking' => Asking
      /\ TimedOut => TimedOut'
      /\ \A k \in Keys : rawPending[k] <= rawPending'[k]
  BY <1>1 DEF Writing, Asking, TimedOut, Key, IInv, TypeOK, QueuesOK
<1>8. ControlInv' /\ RawInv'
  BY <1>1, <1>3, <1>7, FewerMeans, ControlKeeps, RawKeeps DEF IInv, ReplyInv
<1>9. PollInv'
  <2>1. "RETR" \in Codes /\ "raw" \in Askers /\ "poll" \in Askers
    BY DEF Codes, Askers
  <2>2. hand[c].by = "poll"
    <3>1. hand[c].by \in {"raw", "poll"}
      BY <1>1 DEF ReplyInv, KindInv, Proper
    <3>2. Coming(c, "RETR", "raw") = 0
      BY <1>1 DEF ReplyInv, PollInv
    <3>3. /\ Coming(c, "RETR", "raw")' \in Nat
          /\ Coming(c, "RETR", "raw") =
               Coming(c, "RETR", "raw")' + (IF Answers(hand[c], "RETR", "raw") THEN 1 ELSE 0)
      BY <1>3, <2>1
    <3>4. ~Answers(hand[c], "RETR", "raw")
      BY <3>2, <3>3
    <3> QED BY <1>1, <3>1, <3>4 DEF Answers
  <2>3. Coming(c, "RETR", "poll")' = 0
    <3>1. Coming(c, "RETR", "poll") + (IF wpc[c] = "poll" THEN 1 ELSE 0) <= 1
      BY <1>1 DEF ReplyInv, PollInv
    <3>2. /\ Coming(c, "RETR", "poll")' \in Nat /\ Coming(c, "RETR", "poll") \in Nat
          /\ Coming(c, "RETR", "poll") =
               Coming(c, "RETR", "poll")' + (IF Answers(hand[c], "RETR", "poll") THEN 1 ELSE 0)
      BY <1>3, <2>1
    <3>3. Answers(hand[c], "RETR", "poll")
      BY <1>1, <2>2 DEF Answers
    <3> QED BY <1>1, <3>1, <3>2, <3>3
  <2>4. /\ \A d \in Chan : wpc'[d] = "poll" => d = "send"
        /\ wpc'["send"] # "poll"
    BY <1>1, <1>4 DEF ReplyInv, PollInv
  <2> QED BY <1>1, <2>3, <2>4 DEF PollInv
<1> QED BY <1>5, <1>6, <1>8, <1>9 DEF ReplyInv

\* The reply to a control request.
LEMMA ProcessControlReplyReplies ==
  ASSUME IInv, IInv', ReplyInv, NEW c \in Chan, ProcessControlReply(c)
  PROVE  ReplyInv'
<1>1. /\ UNCHANGED <<mode, running, workers, net, todo, buffered, rawPending, pollPending, asked,
                     cmd, ctl, pc, arg>>
      /\ wpc[c] = "frame" /\ hand[c].code = "CLEAR" /\ control = "pending"
      /\ c = Normal("receive") /\ Normal("receive")' = c
      /\ \/ UNCHANGED <<control, answer>>
         \/ control' = "complete" /\ answer' = hand[c].n
  BY DEF ProcessControlReply, IsControlReply, Normal
<1>2. PICK l \in WorkerPlaces \ {"poll", "frame"} : WGoto(c, l)
  BY DEF ProcessControlReply, WorkerPlaces
<1>3. /\ Fewer
      /\ \A code \in Codes, by \in Askers :
           /\ Coming(c, code, by) \in Nat /\ Coming(c, code, by)' \in Nat
           /\ Coming(c, code, by) =
                Coming(c, code, by)' + (IF Answers(hand[c], code, by) THEN 1 ELSE 0)
  BY <1>1, <1>2, HandDone DEF IInv
<1>4. \A d \in Chan : /\ hand'[d] = hand[d] \/ hand'[d] = NoFrame
                      /\ wpc'[d] = "poll" => wpc[d] = "poll"
  BY <1>2, WorkerGoes DEF IInv
<1>5. KindInv'
  BY <1>1, <1>4, KindFrame DEF ReplyInv
<1>6. MutexInv'
  BY <1>1 DEF ReplyInv, MutexInv
<1>7. /\ \A d \in Chan, code \in Codes : Writing(d, code)' => Writing(d, code)
      /\ Asking' <=> Asking
      /\ TimedOut => TimedOut'
      /\ \A k \in Keys : rawPending[k] <= rawPending'[k]
  BY <1>1 DEF Writing, Asking, TimedOut, Key, IInv, TypeOK, QueuesOK
<1>8. RawInv' /\ PollInv'
  BY <1>1, <1>3, <1>4, <1>7, FewerMeans, RawKeeps, PollKeeps DEF IInv, ReplyInv
<1>9. CASE UNCHANGED <<control, answer>>
  <2>1. ControlInv'
    BY <1>1, <1>3, <1>7, <1>9, FewerMeans, ControlKeeps DEF IInv, ReplyInv
  <2> QED BY <1>5, <1>6, <1>8, <2>1 DEF ReplyInv
<1>10. CASE control' = "complete" /\ answer' = hand[c].n
  <2>1. "CLEAR" \in Codes /\ "raw" \in Askers /\ "control" \in Askers
    BY DEF Codes, Askers
  <2>2. /\ Coming(c, "CLEAR", "raw") = 0 /\ Coming(c, "CLEAR", "control") <= 1
        /\ Asking => Coming(c, "CLEAR", "control") = 0
        /\ ForRequest(c, asked)
    BY <1>1 DEF ReplyInv, ControlInv
  <2>3. \A by \in {"raw", "control"} :
          /\ Coming(c, "CLEAR", by)' \in Nat /\ Coming(c, "CLEAR", by) \in Nat
          /\ Coming(c, "CLEAR", by) =
               Coming(c, "CLEAR", by)' + (IF Answers(hand[c], "CLEAR", by) THEN 1 ELSE 0)
    BY <1>3, <2>1
  <2>4. Answers(hand[c], "CLEAR", "control")
    <3>1. hand[c].by \in {"raw", "control"}
      BY <1>1 DEF ReplyInv, KindInv, Proper
    <3>2. ~Answers(hand[c], "CLEAR", "raw")
      BY <2>2, <2>3
    <3> QED BY <1>1, <3>1, <3>2 DEF Answers
  <2>5. Coming(c, "CLEAR", "control")' = 0 /\ ~Asking
    BY <2>2, <2>3, <2>4
  <2>6. hand[c].n = asked
    BY <1>1, <2>2, <2>4 DEF ForRequest, InHand
  <2>7. ControlInv'
    BY <1>1, <1>7, <1>10, <2>5, <2>6 DEF ControlInv
  <2> QED BY <1>5, <1>6, <1>8, <2>7 DEF ReplyInv
<1> QED BY <1>1, <1>9, <1>10

\* A reply to another request.
LEMMA ProcessOtherReplyReplies ==
  ASSUME IInv, IInv', ReplyInv, NEW c \in Chan, ProcessOtherReply(c)
  PROVE  ReplyInv'
<1> DEFINE f == hand[c]
           k == <<c, f.code>>
<1>1. /\ UNCHANGED <<mode, running, workers, net, todo, buffered, pollPending, control, answer,
                     asked, cmd, ctl, pc, arg>>
      /\ wpc[c] = "frame" /\ ~IsPollReply(c, f) /\ ~IsControlReply(c, f)
      /\ \/ rawPending' = rawPending
         \/ /\ f.code \in Codes /\ rawPending[k] > 0
            /\ rawPending' = [rawPending EXCEPT ![k] = @ - 1]
  BY DEF ProcessOtherReply
<1>2. PICK l \in WorkerPlaces \ {"poll", "frame"} : WGoto(c, l)
  BY DEF ProcessOtherReply, WorkerPlaces
<1>3. /\ Fewer
      /\ \A code \in Codes, by \in Askers :
           /\ Coming(c, code, by) \in Nat /\ Coming(c, code, by)' \in Nat
           /\ Coming(c, code, by) =
                Coming(c, code, by)' + (IF Answers(f, code, by) THEN 1 ELSE 0)
  BY <1>1, <1>2, HandDone DEF IInv
<1>4. \A d \in Chan : /\ hand'[d] = hand[d] \/ hand'[d] = NoFrame
                      /\ wpc'[d] = "poll" => wpc[d] = "poll"
  BY <1>2, WorkerGoes DEF IInv
<1>5. KindInv'
  BY <1>1, <1>4, KindFrame DEF ReplyInv
<1>6. MutexInv'
  BY <1>1 DEF ReplyInv, MutexInv
<1>7. /\ \A d \in Chan, code \in Codes : Writing(d, code)' <=> Writing(d, code)
      /\ Asking' => Asking
      /\ TimedOut <=> TimedOut'
  BY <1>1 DEF Writing, Asking, TimedOut, Key
<1>8. ControlInv' /\ PollInv'
  BY <1>1, <1>3, <1>4, <1>7, FewerMeans, ControlKeeps, PollKeeps DEF IInv, ReplyInv
<1>9. RawInv'
  <2> SUFFICES ASSUME running', NEW d \in Chan, NEW e \in Codes, Tracked(e)',
                      ~(e = "CLEAR" /\ TimedOut')
               PROVE  Coming(d, e, "raw")' + (IF Writing(d, e)' THEN 1 ELSE 0)
                        <= rawPending'[<<d, e>>]
    BY DEF RawInv
  <2>1. Tracked(e) /\ ~(e = "CLEAR" /\ TimedOut) /\ running
    BY <1>1, <1>7 DEF Tracked, Polling
  <2>2. Coming(d, e, "raw") + (IF Writing(d, e) THEN 1 ELSE 0) <= rawPending[<<d, e>>]
    BY <2>1 DEF RawInv, ReplyInv
  <2>3. /\ Coming(d, e, "raw")' \in Nat /\ Coming(d, e, "raw") \in Nat
        /\ Coming(d, e, "raw")' <= Coming(d, e, "raw")
    BY <1>3, FewerMeans, ComingType, ComingTypeNext DEF NoMore, IInv
  <2>4. <<d, e>> \in Keys /\ rawPending \in [Keys -> Nat] /\ rawPending[<<d, e>>] \in Nat
    BY DEF Keys, IInv, TypeOK, QueuesOK
  <2>5. CASE rawPending'[<<d, e>>] = rawPending[<<d, e>>]
    BY <1>7, <2>2, <2>3, <2>4, <2>5
  <2>6. CASE rawPending'[<<d, e>>] # rawPending[<<d, e>>]
    <3>1. d = c /\ e = f.code /\ rawPending'[<<d, e>>] = rawPending[<<d, e>>] - 1
      BY <1>1, <2>4, <2>6
    <3>2. f.by = "raw"
      <4>1. /\ f.code = "CLEAR" => f.by \in {"raw", "control"}
            /\ f.code = "RETR" => f.by \in {"raw", "poll"}
            /\ f.by = "control" => c = Normal("receive") /\ f.code = "CLEAR"
            /\ f.by = "poll" => c = "send" /\ f.code = "RETR"
        BY DEF ReplyInv, KindInv, Proper
      <4>2. f.by # "control"
        <5>1. SUFFICES ASSUME f.by = "control" PROVE FALSE
          OBVIOUS
        <5>2. c = Normal("receive") /\ f.code = "CLEAR"
          BY <4>1, <5>1
        <5>3. Coming(c, "CLEAR", "control") > 0
          <6>1. "CLEAR" \in Codes /\ "control" \in Askers /\ Answers(f, "CLEAR", "control")
            BY <5>1, <5>2 DEF Codes, Askers, Answers
          <6>2. /\ Coming(c, "CLEAR", "control")' \in Nat
                /\ Coming(c, "CLEAR", "control") = Coming(c, "CLEAR", "control")'
                     + (IF Answers(f, "CLEAR", "control") THEN 1 ELSE 0)
            BY <1>3, <6>1
          <6> QED BY <6>1, <6>2
        <5>4. control = "pending"
          BY <2>1, <3>1, <5>2, <5>3 DEF ReplyInv, ControlInv
        <5> QED BY <1>1, <5>2, <5>4 DEF IsControlReply
      <4>3. f.by # "poll"
        <5>1. SUFFICES ASSUME f.by = "poll" PROVE FALSE
          OBVIOUS
        <5>2. c = "send" /\ f.code = "RETR"
          BY <4>1, <5>1
        <5>3. Coming(c, "RETR", "poll") > 0
          <6>1. "RETR" \in Codes /\ "poll" \in Askers /\ Answers(f, "RETR", "poll")
            BY <5>1, <5>2 DEF Codes, Askers, Answers
          <6>2. /\ Coming(c, "RETR", "poll")' \in Nat
                /\ Coming(c, "RETR", "poll") = Coming(c, "RETR", "poll")'
                     + (IF Answers(f, "RETR", "poll") THEN 1 ELSE 0)
            BY <1>3, <6>1
          <6> QED BY <6>1, <6>2
        <5>4. pollPending
          BY <5>2, <5>3 DEF ReplyInv, PollInv
        <5> QED BY <1>1, <5>2, <5>4 DEF IsPollReply
      <4> QED BY <3>1, <4>1, <4>2, <4>3 DEF Codes
    <3>3. Coming(d, e, "raw") = Coming(d, e, "raw")' + 1
      <4>1. Answers(f, e, "raw") /\ "raw" \in Askers
        BY <3>1, <3>2 DEF Answers, Askers
      <4> QED BY <1>3, <3>1, <4>1
    <3> QED BY <1>7, <2>2, <2>3, <2>4, <3>1, <3>3
  <2> QED BY <2>5, <2>6
<1> QED BY <1>5, <1>6, <1>8, <1>9 DEF ReplyInv

\* The receive worker is started, on connections nobody has asked anything on.
LEMMA SpawnReplies ==
  ASSUME IInv, IInv', ReplyInv, Spawn
  PROVE  ReplyInv'
<1>1. /\ UNCHANGED <<mode, net, todo, hand, buffered, cmd, ctl>>
      /\ pc[Owner] = "spawn" /\ control' = "none" /\ ~pollPending'
      /\ \A k \in Keys : rawPending'[k] = 0
      /\ workers' = workers \/ workers' = {Normal("receive")}
  BY DEF Spawn, ResetState, EndControl
<1>2. /\ pc'[Owner] \in {"idle", "closeFailed"} \/ (mode = "two" /\ pc'[Owner] = "spawn2")
      /\ \A u \in Threads \ {Owner} : pc'[u] = pc[u]
      /\ pc' \in [Threads -> Places]
  BY DEF Spawn, Goto, GotoWith, IInv, TypeOK, ThreadsOK
<1>3. \A d \in Chan : wpc'[d] \in {"done", "top"}
  <2>1. \A d \in Chan : wpc[d] = "done"
    BY <1>1 DEF IInv, LifeInv
  <2>2. \A d \in Chan : wpc'[d] = wpc[d] \/ wpc'[d] = "top"
    BY DEF Spawn, IInv, TypeOK, WorkersOK
  <2> QED BY <2>1, <2>2
<1>4. cmd = None /\ ctl # Owner /\ ~Asking'
  <2>1. cmd = None
    BY <1>1 DEF ReplyInv, MutexInv, IInv, LifeInv
  <2>2. ctl # Owner
    BY <1>1 DEF ReplyInv, MutexInv, CtlPlaces
  <2>3. ctl # None => pc[ctl] # "ctlWrite"
    BY <2>1 DEF ReplyInv, MutexInv, CmdPlaces, IInv, TypeOK, LocksOK
  <2>4. ctl # None => pc'[ctl] = pc[ctl]
    BY <1>2, <2>2 DEF IInv, TypeOK, LocksOK
  <2> QED BY <1>1, <2>1, <2>2, <2>3, <2>4 DEF Asking
<1>5. \A d \in Chan, code \in Codes, by \in Askers : Coming(d, code, by)' = 0
  <2>1. ASSUME NEW d \in Chan
        PROVE  /\ wpc'[d] # "frame"
               /\ \A i \in 1 .. Len(net'[d]) : ~Asks(net'[d][i])
               /\ \A i \in 1 .. Len(todo'[d]) : ~Asks(todo'[d][i])
    BY <1>1, <1>3 DEF ReplyInv, KindInv
  <2> QED BY <2>1, NothingComes DEF IInv
<1>6. \A d \in Chan, code \in Codes : ~Writing(d, code)'
  BY <1>1, <1>4 DEF Writing
<1>7. PICK R \in Chan : R = Normal("receive") /\ Normal("receive")' = R
  BY <1>1, NormalIsChan DEF Normal, Chan
<1>8. KindInv'
  <2>1. Polling' = Polling /\ Channels' = Channels /\ R \in Channels
    BY <1>1, <1>7 DEF Polling, Channels, Normal
  <2>2. \A d \in Chan : \A m : (Proper(d, m)' <=> Proper(d, m)) /\ (Asks(m)' <=> Asks(m))
    BY <1>7, <2>1 DEF Proper, Asks
  <2>3. /\ \A d \in Chan : /\ Proper(d, hand'[d])
                           /\ \A i \in 1 .. Len(net'[d]) : Proper(d, net'[d][i])
                           /\ \A i \in 1 .. Len(todo'[d]) : Proper(d, todo'[d][i])
        /\ \A i \in 1 .. Len(buffered') : Proper(R, buffered'[i]) /\ ~Asks(buffered'[i])
        /\ workers \subseteq Channels
    BY <1>1, <1>7 DEF ReplyInv, KindInv
  <2> QED BY <1>1, <1>2, <1>7, <2>1, <2>2, <2>3 DEF KindInv, Proper, Asks
<1>9. MutexInv'
  <2>1. pc'[Owner] \notin CmdPlaces \cup CtlPlaces /\ cmd # Owner
    BY <1>2, <1>4 DEF CmdPlaces, CtlPlaces
  <2> QED BY <1>1, <1>2, <1>4, <2>1, MutexFrame DEF IInv, ReplyInv
<1>10. ControlInv'
  <2>1. Coming(R, "CLEAR", "control")' = 0
    <3>1. "CLEAR" \in Codes /\ "control" \in Askers
      BY DEF Codes, Askers
    <3> QED BY <1>5, <3>1
  <2> QED BY <1>1, <1>4, <1>7, <2>1 DEF ControlInv
<1>11. RawInv'
  <2> SUFFICES ASSUME NEW d \in Chan, NEW e \in Codes
               PROVE  Coming(d, e, "raw")' + (IF Writing(d, e)' THEN 1 ELSE 0)
                        <= rawPending'[<<d, e>>]
    BY DEF RawInv
  <2>1. <<d, e>> \in Keys /\ "raw" \in Askers
    BY DEF Keys, Askers
  <2> QED BY <1>1, <1>5, <1>6, <2>1
<1>12. PollInv'
  <2>1. Coming("send", "RETR", "poll")' = 0 /\ "send" \in Chan
    <3>1. "RETR" \in Codes /\ "poll" \in Askers /\ "send" \in Chan
      BY DEF Codes, Askers, Chan
    <3> QED BY <1>5, <3>1
  <2> QED BY <1>1, <1>3, <2>1 DEF PollInv
<1> QED BY <1>8, <1>9, <1>10, <1>11, <1>12 DEF ReplyInv

-----------------------------------------------------------------------------
(* The invariant, and what it says of the replies.                          *)

\* In the beginning nobody has asked anything.
LEMMA InitReplyInv == Init => ReplyInv
<1> SUFFICES ASSUME Init PROVE ReplyInv
  OBVIOUS
<1>1. TypeOK
  BY InitIInv DEF IInv
<1>2. \A d \in Chan : net[d] = <<>> /\ todo[d] = <<>> /\ hand[d] = NoFrame /\ wpc[d] = "done"
  BY DEF Init
<1>3. 1 .. Len(<<>>) = {}
  OBVIOUS
<1>4. \A d \in Chan : \A code, by : Coming(d, code, by) = 0
  BY <1>2, NumberEmpty DEF Coming, InHand
<1>5. KindInv
  <2>1. /\ \A d \in Chan : Proper(d, NoFrame)
        /\ buffered = <<>> /\ pc[Owner] = "idle" /\ workers = {}
    BY DEF Init, Proper, NoFrame
  <2> QED BY <1>2, <1>3, <2>1 DEF KindInv
<1>6. MutexInv
  BY DEF Init, MutexInv, CmdPlaces, CtlPlaces
<1>7. Normal("receive") \in Chan /\ "send" \in Chan
  BY NormalIsChan DEF Chan
<1>8. ControlInv
  <2>1. control = "none" /\ ctl = None
    BY DEF Init
  <2> QED BY <1>4, <1>7, <2>1 DEF ControlInv, Asking
<1>9. RawInv
  BY DEF Init, RawInv
<1>10. PollInv
  <2>1. ~pollPending
    BY DEF Init
  <2> QED BY <1>2, <1>4, <1>7, <2>1 DEF PollInv
<1> QED BY <1>5, <1>6, <1>8, <1>9, <1>10 DEF ReplyInv

\* Every step preserves it.
LEMMA NextReplyInv == IInv /\ ReplyInv /\ [Next]_vars => ReplyInv'
<1> SUFFICES ASSUME IInv, ReplyInv, [Next]_vars PROVE ReplyInv'
  OBVIOUS
<1>i. IInv'
  BY NextIInv
<1>1. ASSUME NEW c \in Chan, ServerEvent(c) \/ ServerReplies(c) \/ ConnectionLost(c)
      PROVE  ReplyInv'
  BY <1>i, <1>1, ServerEventReplies, ServerRepliesReplies, ConnectionLostReplies
<1>2. CASE Expire
  BY <1>i, <1>2, ExpireReplies
<1>3. ASSUME NEW c \in Chan, Worker(c) PROVE ReplyInv'
  BY <1>i, <1>3, WorkerTopReplies, WorkerPollsReplies, WorkerWritesPollReplies, WorkerReadsReplies,
    WorkerReadFailsReplies, ProcessEventReplies, ProcessPollReplyReplies,
    ProcessControlReplyReplies, ProcessOtherReplyReplies, DispatchReplies, CallbackBeginsReplies,
    CallbackReturnsReplies, WorkerFailsReplies DEF Worker
<1>4. CASE Connect \/ Disconnect
  BY <1>i, <1>4, ConnectReplies, DisconnectReplies
<1>5. CASE InOwnerCall
  BY <1>i, <1>5, OpenReadsReplies, OpenFailsReplies, SpawnReplies, SpawnSendReplies, JoinReplies,
    CloseReplies DEF InOwnerCall
<1>6. ASSUME NEW t \in Threads, Begins(t) PROVE ReplyInv'
  BY <1>i, <1>6, ReceiveReplies, ReceiveRawReplies, SendReplies, SendRawReplies, ClearReplies
    DEF Begins
<1>7. ASSUME NEW t \in Threads, InCall(t) PROVE ReplyInv'
  BY <1>i, <1>7, SendLockReplies, SendWriteReplies, CallFailsReplies, RawLockReplies,
    RawWriteReplies, RawUnsendReplies, ControlLockReplies, ControlBeginReplies,
    ControlWriteReplies, ControlUnsetReplies, ControlReturnsReplies, ControlTimeoutReplies
    DEF InCall
<1>8. CASE UNCHANGED vars
  <2>1. KindInv'
    BY <1>8, KindFrame DEF ReplyInv, vars
  <2>2. MutexInv'
    BY <1>8 DEF ReplyInv, MutexInv, vars
  <2>3. Fewer
    BY <1>i, <1>8, LeftOut DEF IInv, vars
  <2>4. /\ UNCHANGED <<mode, pollPending, control, asked, answer, running, rawPending, wpc>>
        /\ \A c \in Chan, code \in Codes : Writing(c, code)' => Writing(c, code)
        /\ Asking' => Asking
        /\ TimedOut => TimedOut'
    BY <1>8 DEF vars, Writing, Asking, TimedOut, Key
  <2>5. \A k \in Keys : rawPending[k] <= rawPending'[k]
    BY <2>4 DEF IInv, TypeOK, QueuesOK
  <2> QED BY <1>i, <2>1, <2>2, <2>3, <2>4, <2>5, FewerKeeps DEF IInv, ReplyInv
<1> QED BY <1>1, <1>2, <1>3, <1>4, <1>5, <1>6, <1>7, <1>8 DEF Next, Server

\* A reply to a control request comes on the receive connection, the reply to
\* a poll on the other one.
LEMMA ComesOn ==
  ASSUME IInv, ReplyInv, NEW c \in Chan
  PROVE  /\ Coming(c, "CLEAR", "control") > 0 => c = Normal("receive")
         /\ Coming(c, "RETR", "poll") > 0 => c = "send" /\ Polling
<1>1. /\ net[c] \in Seq(FrameSet) /\ todo[c] \in Seq(RequestSet)
  BY DEF IInv, TypeOK, NetOK
<1>2. ASSUME NEW code, NEW by, Coming(c, code, by) > 0
      PROVE  \E m : Answers(m, code, by) /\ Proper(c, m)
  <2>1. /\ Number(net[c], code, by) \in Nat /\ Number(todo[c], code, by) \in Nat
    BY ComingType DEF IInv
  <2>2. \/ Number(net[c], code, by) # 0 \/ Number(todo[c], code, by) # 0
        \/ InHand(c, code, by)
    BY <1>2, <2>1 DEF Coming
  <2>3. CASE Number(net[c], code, by) # 0
    <3>1. PICK i \in 1 .. Len(net[c]) : Answers(net[c][i], code, by)
      BY <1>1, <2>3, NumberType
    <3> QED BY <3>1 DEF ReplyInv, KindInv
  <2>4. CASE Number(todo[c], code, by) # 0
    <3>1. PICK i \in 1 .. Len(todo[c]) : Answers(todo[c][i], code, by)
      BY <1>1, <2>4, NumberType
    <3> QED BY <3>1 DEF ReplyInv, KindInv
  <2>5. CASE InHand(c, code, by)
    BY <2>5 DEF InHand, ReplyInv, KindInv
  <2> QED BY <2>2, <2>3, <2>4, <2>5
<1>3. \A m : /\ Answers(m, "CLEAR", "control") /\ Proper(c, m) => c = Normal("receive")
             /\ Answers(m, "RETR", "poll") /\ Proper(c, m) => c = "send" /\ Polling
  BY DEF Answers, Proper
<1> QED BY <1>2, <1>3

\* In a state like that every reply is expected.
LEMMA ExpectedReplies == IInv /\ ReplyInv => RepliesAreExpected
<1> SUFFICES ASSUME IInv, ReplyInv PROVE RepliesAreExpected
  OBVIOUS
<1>1. control = "complete" => answer = asked
  BY DEF ReplyInv, ControlInv
<1>2. ASSUME running, ~Stopping, NEW c \in Channels
      PROVE  /\ Coming(c, "CLEAR", "control") > 0 =>
                  /\ control = "pending"
                  /\ Coming(c, "CLEAR", "raw") = 0
                  /\ ForRequest(c, asked)
             /\ Coming(c, "RETR", "poll") > 0 =>
                  pollPending /\ (Polling => Coming(c, "RETR", "raw") = 0)
             /\ \A code \in Codes :
                  Tracked(code) => Coming(c, code, "raw") <= rawPending[<<c, code>>]
  <2>1. c \in Chan
    BY DEF Channels, Chan
  <2>2. ~TimedOut
    BY <1>2 DEF TimedOut, Stopping, IInv, TypeOK, LocksOK
  <2>3. Coming(c, "CLEAR", "control") > 0 => /\ control = "pending"
                                             /\ Coming(c, "CLEAR", "raw") = 0
                                             /\ ForRequest(c, asked)
    <3>1. Coming(c, "CLEAR", "control") > 0 => c = Normal("receive")
      BY <2>1, ComesOn
    <3> QED BY <1>2, <2>2, <3>1 DEF ReplyInv, ControlInv
  <2>4. Coming(c, "RETR", "poll") > 0 =>
          pollPending /\ (Polling => Coming(c, "RETR", "raw") = 0)
    <3>1. Coming(c, "RETR", "poll") > 0 => c = "send"
      BY <2>1, ComesOn
    <3> QED BY <3>1 DEF ReplyInv, PollInv
  <2>5. ASSUME NEW code \in Codes, Tracked(code)
        PROVE  Coming(c, code, "raw") <= rawPending[<<c, code>>]
    <3>1. Coming(c, code, "raw") + (IF Writing(c, code) THEN 1 ELSE 0) <= rawPending[<<c, code>>]
      BY <1>2, <2>1, <2>2, <2>5 DEF ReplyInv, RawInv
    <3>2. Coming(c, code, "raw") \in Nat /\ rawPending[<<c, code>>] \in Nat
      BY <2>1, ComingType DEF IInv, TypeOK, QueuesOK, Keys
    <3> QED BY <3>1, <3>2
  <2> QED BY <2>3, <2>4, <2>5
<1> QED BY <1>1, <1>2 DEF RepliesAreExpected

\* The replies that come belong to requests that are waited for, in every
\* state that can be reached.
THEOREM BinaryReplies == Spec => []ReplyInv
<1>1. Init => IInv /\ ReplyInv
  BY InitIInv, InitReplyInv
<1>2. IInv /\ ReplyInv /\ [Next]_vars => IInv' /\ ReplyInv'
  BY NextIInv, NextReplyInv
<1> QED BY <1>1, <1>2, PTL DEF Spec

\* processBinaryFrame can go by channel and code alone: while the client runs,
\* each reply that is still to come belongs to a request that waits for it,
\* and clear() never returns with the reply to another request.
THEOREM BinaryRepliesAreExpected == Spec => []RepliesAreExpected
BY BinaryInvariant, BinaryReplies, ExpectedReplies, PTL
=============================================================================

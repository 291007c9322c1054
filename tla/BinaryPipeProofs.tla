-------------------------- MODULE BinaryPipeProofs --------------------------
(***************************************************************************)
(* The binary mode implements EventPipe on each of its connections: what   *)
(* is read from a connection is handed over once, in order, and is lost    *)
(* only with an excuse.  PipeInv says how events follow each other in the  *)
(* stages; PipeStep is a step of the pipe of one connection.               *)
(***************************************************************************)
EXTENDS BinaryRepliesProofs

USE BinaryAssumption
USE DEF netVars, rawVars, pollVars, controlVars, workerVars, lockVars, threadVars, historyVars,
        config, serverKeeps, callKeeps, workerKeeps, ownerKeeps, Threads

\* The steps of the pipe of connection c.
Enters(c) == /\ seen'[c] > seen[c] /\ last'[c] = last[c]
             /\ PipeOf(c)' = PipeOf(c) \cup {seen'[c]}
Leaves(c) == /\ \E e \in PipeOf(c) : /\ e > last[c] /\ e \in Wanted
                                     /\ \A f \in PipeOf(c) : e <= f
                                     /\ last'[c] = e
                                     /\ PipeOf(c)' = PipeOf(c) \ {e}
             /\ seen'[c] = seen[c]
Rejects(c) == /\ \E e \in PipeOf(c) : e \notin Wanted /\ PipeOf(c)' = PipeOf(c) \ {e}
              /\ seen'[c] = seen[c] /\ last'[c] = last[c]
Discards(c) == /\ Excused \/ Excused'
               /\ PipeOf(c)' \subseteq PipeOf(c)
               /\ seen'[c] = seen[c] /\ last'[c] = last[c]
Keeps(c) == PipeOf(c)' = PipeOf(c) /\ seen'[c] = seen[c] /\ last'[c] = last[c]

PipeStep(c) == Enters(c) \/ Leaves(c) \/ Rejects(c) \/ Discards(c) \/ Keeps(c)

\* What each step is shown to do.
Piped == PipeInv' /\ \A c \in Chan : PipeStep(c)

\* The number of the event in a frame, if there is one.
LEMMA EventInType ==
  ASSUME NEW f \in FrameSet \cup {NoFrame}
  PROVE  /\ EventIn(f) \in Nat /\ f.ev \in Nat
         /\ EventIn(f) = 0 \/ (EventIn(f) > 0 /\ EventIn(f) = f.ev)
BY DEF EventIn, FrameSet, NoFrame

\* No frame brings no event.
LEMMA NoFrameBrings == EventIn(NoFrame) = 0
BY DEF EventIn, NoFrame

\* The elements of a sequence.
LEMMA Elements ==
  ASSUME NEW S, NEW s \in Seq(S)
  PROVE  Len(s) \in Nat /\ DOMAIN s = 1 .. Len(s) /\ \A i \in 1 .. Len(s) : s[i] \in S
OBVIOUS

\* What the stages hold, one by one.
LEMMA StageTypes ==
  ASSUME TypeOK
  PROVE  /\ Normal("receive") \in Chan
         /\ \A c \in Chan :
              /\ {seen[c], last[c], sent[c]} \subseteq Nat
              /\ hand[c] \in FrameSet \cup {NoFrame} /\ net[c] \in Seq(FrameSet)
              /\ \A i \in 1 .. Len(net[c]) : net[c][i] \in FrameSet
         /\ \A i \in 1 .. Len(buffered) : buffered[i] \in FrameSet
         /\ \A i \in 1 .. Len(events) : events[i] \in [ch : Chan, n : Nat]
         /\ Len(events) \in Nat /\ Len(buffered) \in Nat
         /\ DOMAIN events = 1 .. Len(events) /\ DOMAIN buffered = 1 .. Len(buffered)
<1>1. Normal("receive") \in Chan
  BY NormalIsChan DEF Chan
<1>2. \A c \in Chan : /\ {seen[c], last[c], sent[c]} \subseteq Nat
                      /\ hand[c] \in FrameSet \cup {NoFrame} /\ net[c] \in Seq(FrameSet)
                      /\ \A i \in 1 .. Len(net[c]) : net[c][i] \in FrameSet
  BY DEF TypeOK, NetOK, WorkersOK, HistoryOK
<1>3. events \in Seq([ch : Chan, n : Nat]) /\ buffered \in Seq(FrameSet)
  BY DEF TypeOK, WorkersOK, QueuesOK
<1>4. /\ Len(events) \in Nat /\ DOMAIN events = 1 .. Len(events)
      /\ \A i \in 1 .. Len(events) : events[i] \in [ch : Chan, n : Nat]
  BY <1>3, Elements
<1>5. /\ Len(buffered) \in Nat /\ DOMAIN buffered = 1 .. Len(buffered)
      /\ \A i \in 1 .. Len(buffered) : buffered[i] \in FrameSet
  BY <1>3, Elements
<1> QED BY <1>1, <1>2, <1>4, <1>5

\* The same of the next state.
LEMMA StageTypesNext ==
  ASSUME TypeOK'
  PROVE  /\ \A c \in Chan :
              /\ {seen'[c], last'[c], sent'[c]} \subseteq Nat
              /\ hand'[c] \in FrameSet \cup {NoFrame} /\ net'[c] \in Seq(FrameSet)
              /\ \A i \in 1 .. Len(net'[c]) : net'[c][i] \in FrameSet
         /\ \A i \in 1 .. Len(buffered') : buffered'[i] \in FrameSet
         /\ \A i \in 1 .. Len(events') : events'[i] \in [ch : Chan, n : Nat]
         /\ Len(events') \in Nat /\ Len(buffered') \in Nat
         /\ DOMAIN events' = 1 .. Len(events') /\ DOMAIN buffered' = 1 .. Len(buffered')
<1>2. \A c \in Chan : /\ {seen'[c], last'[c], sent'[c]} \subseteq Nat
                      /\ hand'[c] \in FrameSet \cup {NoFrame} /\ net'[c] \in Seq(FrameSet)
                      /\ \A i \in 1 .. Len(net'[c]) : net'[c][i] \in FrameSet
  BY DEF TypeOK, NetOK, WorkersOK, HistoryOK
<1>3. events' \in Seq([ch : Chan, n : Nat]) /\ buffered' \in Seq(FrameSet)
  BY DEF TypeOK, WorkersOK, QueuesOK
<1>4. /\ Len(events') \in Nat /\ DOMAIN events' = 1 .. Len(events')
      /\ \A i \in 1 .. Len(events') : events'[i] \in [ch : Chan, n : Nat]
  BY <1>3, Elements
<1>5. /\ Len(buffered') \in Nat /\ DOMAIN buffered' = 1 .. Len(buffered')
      /\ \A i \in 1 .. Len(buffered') : buffered'[i] \in FrameSet
  BY <1>3, Elements
<1> QED BY <1>2, <1>4, <1>5

\* What is in the pipe of a connection.
LEMMA InPipe ==
  ASSUME TypeOK, NEW c \in Chan, NEW e
  PROVE  e \in PipeOf(c) <=>
           \/ \E i \in 1 .. Len(events) : events[i].ch = c /\ events[i].n = e
           \/ e # 0 /\ EventIn(hand[c]) = e
           \/ /\ c = Normal("receive") /\ e # 0
              /\ \E i \in 1 .. Len(buffered) : EventIn(buffered[i]) = e
<1>1. e \in EventsOf(c) <=> \E i \in 1 .. Len(events) : events[i].ch = c /\ events[i].n = e
  BY StageTypes DEF EventsOf
<1>2. e \in Bring(buffered) <=> e # 0 /\ \E i \in 1 .. Len(buffered) : EventIn(buffered[i]) = e
  BY StageTypes DEF Bring
<1> QED BY <1>1, <1>2 DEF PipeOf

\* The same of the next state.
LEMMA InPipeNext ==
  ASSUME TypeOK', UNCHANGED mode, NEW c \in Chan, NEW e
  PROVE  e \in PipeOf(c)' <=>
           \/ \E i \in 1 .. Len(events') : events'[i].ch = c /\ events'[i].n = e
           \/ e # 0 /\ EventIn(hand'[c]) = e
           \/ /\ c = Normal("receive") /\ e # 0
              /\ \E i \in 1 .. Len(buffered') : EventIn(buffered'[i]) = e
<1>1. e \in EventsOf(c)' <=> \E i \in 1 .. Len(events') : events'[i].ch = c /\ events'[i].n = e
  BY StageTypesNext DEF EventsOf
<1>2. e \in Bring(buffered)' <=> e # 0 /\ \E i \in 1 .. Len(buffered') : EventIn(buffered'[i]) = e
  BY StageTypesNext DEF Bring, EventIn
<1>3. Normal("receive")' = Normal("receive")
  BY DEF Normal
<1> QED BY <1>1, <1>2, <1>3 DEF PipeOf, EventIn
\* What is on its way was there, brings no event, or a new one.
NetGoesOn == \A c \in Chan :
  /\ sent[c] <= sent'[c]
  /\ \A i \in 1 .. Len(net'[c]) : EventIn(net'[c][i]) > 0 =>
       net'[c][i].ev > sent[c] \/ \E j \in 1 .. Len(net[c]) : net'[c][i] = net[c][j]

\* A worker keeps the event it holds, or holds none.
HandGoesOn(c) == \/ EventIn(hand'[c]) = 0 /\ wpc'[c] # "call"
                 \/ /\ hand'[c] = hand[c]
                    /\ wpc'[c] = wpc[c] \/ wpc'[c] \in HoldsFrame \ {"call"}

\* The queues stay or lose something.
QueuesGoOn == /\ events' = events \/ events' = <<>>
              /\ \A i \in 1 .. Len(buffered') : \E j \in 1 .. Len(buffered) : buffered'[i] = buffered[j]

\* Where nothing enters and nothing is handed over the order stays.
LEMMA PipeFrame ==
  ASSUME TypeOK, TypeOK', PipeInv, UNCHANGED <<mode, active, seen, last>>,
         NetGoesOn, QueuesGoOn, \A c \in Chan : HandGoesOn(c)
  PROVE  PipeInv'
<1>1. Normal("receive")' = Normal("receive") /\ Normal("receive") \in Chan
  BY StageTypes DEF Normal
<1>2. ASSUME NEW c \in Chan, EventIn(hand'[c]) > 0
      PROVE  /\ hand'[c] = hand[c] /\ EventIn(hand[c]) > 0
             /\ wpc'[c] = wpc[c] \/ wpc'[c] \in HoldsFrame \ {"call"}
  BY <1>2 DEF HandGoesOn
<1>3. ASSUME NEW c \in Chan
      PROVE  /\ last'[c] <= seen'[c] /\ seen'[c] <= sent'[c]
             /\ Between(c, hand[c])'
             /\ EventIn(hand'[c]) > 0 => wpc'[c] \in HoldsFrame
             /\ wpc'[c] = "call" => EventIn(hand'[c]) > 0 /\ hand'[c].ev \in Wanted /\ active'
  <2>1. last'[c] <= seen'[c] /\ seen'[c] <= sent'[c]
    <3>1. {seen[c], sent[c], sent'[c]} \subseteq Nat /\ sent[c] <= sent'[c] /\ seen[c] <= sent[c]
      BY StageTypes, StageTypesNext DEF NetGoesOn, PipeInv, HandOrder
    <3> QED BY <3>1 DEF PipeInv, HandOrder
  <2>2. Between(c, hand[c])'
    BY <1>2 DEF PipeInv, HandOrder, Between
  <2>3. EventIn(hand'[c]) > 0 => wpc'[c] \in HoldsFrame
    BY <1>2 DEF PipeInv, HandOrder
  <2>4. wpc'[c] = "call" => hand'[c] = hand[c] /\ wpc[c] = "call"
    BY DEF HandGoesOn
  <2> QED BY <2>1, <2>2, <2>3, <2>4 DEF PipeInv, HandOrder
<1>4. ASSUME NEW c \in Chan, NEW i \in 1 .. Len(net'[c]), EventIn(net'[c][i]) > 0
      PROVE  seen'[c] < net'[c][i].ev
  <2>1. {seen[c], sent[c]} \subseteq Nat /\ net'[c][i].ev \in Nat /\ seen[c] <= sent[c]
    BY StageTypes, StageTypesNext, EventInType DEF PipeInv, HandOrder
  <2>2. CASE net'[c][i].ev > sent[c]
    BY <2>1, <2>2
  <2>3. CASE \E j \in 1 .. Len(net[c]) : net'[c][i] = net[c][j]
    BY <1>4, <2>3 DEF PipeInv, HandOrder
  <2> QED BY <1>4, <2>2, <2>3 DEF NetGoesOn
<1>5. HandOrder'
  BY <1>3, <1>4 DEF HandOrder
<1>6. EventsOrder'
  <2>1. CASE events' = <<>>
    BY <2>1 DEF EventsOrder
  <2>2. CASE events' = events
    <3>1. ASSUME NEW i \in 1 .. Len(events)
          PROVE  LET c == events[i].ch
                     n == events[i].n
                 IN /\ n \in Wanted /\ last'[c] < n /\ n <= seen'[c]
                    /\ EventIn(hand'[c]) > 0 => n < hand'[c].ev
                    /\ c = Normal("receive") =>
                         \A j \in 1 .. Len(buffered') : EventIn(buffered'[j]) > 0 => n < buffered'[j].ev
                    /\ \A j \in 1 .. Len(events) : i < j /\ events[j].ch = c => n < events[j].n
      <4>1. events[i].ch \in Chan
        BY StageTypes
      <4> QED BY <1>2, <4>1 DEF PipeInv, EventsOrder, QueuesGoOn
    <3> QED BY <1>1, <2>2, <3>1 DEF EventsOrder
  <2> QED BY <2>1, <2>2 DEF QueuesGoOn
<1>7. \A i \in 1 .. Len(buffered') : Between(Normal("receive"), buffered[i])'
  BY <1>1 DEF PipeInv, QueuesGoOn, Between
<1>8. active' => events' = <<>>
  BY DEF PipeInv, QueuesGoOn
<1> QED BY <1>1, <1>5, <1>6, <1>7, <1>8 DEF PipeInv
\* Then what is in the pipe stays, too.
LEMMA KeepsFrame ==
  ASSUME TypeOK, TypeOK', PipeInv, UNCHANGED <<mode, active, seen, last, events, buffered>>,
         NetGoesOn, \A c \in Chan : HandGoesOn(c),
         \A c \in Chan : hand'[c] = hand[c] \/ EventIn(hand[c]) = 0
  PROVE  Piped
<1>1. QueuesGoOn
  BY StageTypes DEF QueuesGoOn
<1>2. \A c \in Chan : EventIn(hand'[c]) = EventIn(hand[c])
  BY DEF HandGoesOn
<1>3. ASSUME NEW c \in Chan PROVE Keeps(c)
  <2>1. \A e : e \in PipeOf(c)' <=> e \in PipeOf(c)
    BY <1>2, InPipe, InPipeNext
  <2> QED BY <2>1 DEF Keeps
<1> QED BY <1>1, <1>3, PipeFrame DEF Piped, PipeStep

\* Or it is discarded, with an excuse.
LEMMA DiscardsFrame ==
  ASSUME TypeOK, TypeOK', PipeInv, UNCHANGED <<mode, active, seen, last>>,
         NetGoesOn, QueuesGoOn, \A c \in Chan : HandGoesOn(c),
         Excused \/ Excused'
  PROVE  Piped
<1>1. \A c \in Chan : EventIn(hand'[c]) = 0 \/ EventIn(hand'[c]) = EventIn(hand[c])
  BY DEF HandGoesOn
<1>2. ASSUME NEW c \in Chan PROVE Discards(c)
  <2>1. ASSUME NEW e, e \in PipeOf(c)' PROVE e \in PipeOf(c)
    <3>1. CASE \E i \in 1 .. Len(events') : events'[i].ch = c /\ events'[i].n = e
      <4>1. events' = events
        BY <3>1 DEF QueuesGoOn
      <4> QED BY <3>1, <4>1, InPipe
    <3>2. CASE e # 0 /\ EventIn(hand'[c]) = e
      BY <1>1, <3>2, InPipe
    <3>3. CASE /\ c = Normal("receive") /\ e # 0
               /\ \E i \in 1 .. Len(buffered') : EventIn(buffered'[i]) = e
      <4>1. \E i \in 1 .. Len(buffered) : EventIn(buffered[i]) = e
        BY <3>3 DEF QueuesGoOn
      <4> QED BY <3>3, <4>1, InPipe
    <3> QED BY <2>1, <3>1, <3>2, <3>3, InPipeNext
  <2> QED BY <2>1 DEF Discards
<1> QED BY <1>2, PipeFrame DEF Piped, PipeStep

\* Nothing moves, or a write closes a connection.
LEMMA NetStays ==
  ASSUME TypeOK, UNCHANGED netVars \/ \E c \in Chan : WriteFails(c) \/ \E r : Write(c, r)
  PROVE  NetGoesOn
<1>1. ASSUME NEW d \in Chan PROVE sent'[d] = sent[d] /\ sent[d] \in Nat
  BY StageTypes DEF Write, WriteFails
<1>2. ASSUME NEW d \in Chan PROVE net'[d] = net[d] \/ net'[d] = <<>>
  BY DEF TypeOK, NetOK, Write, WriteFails
<1> QED BY <1>1, <1>2 DEF NetGoesOn

\* A worker goes on without a frame, with the one it has, or gives it up with
\* an excuse.
LEMMA GoesOn ==
  ASSUME IInv, IInv', PipeInv, UNCHANGED <<config, events, buffered, seen, last>>, NetGoesOn,
         NEW c \in Chan, NEW l \in WorkerPlaces \ {"call"}, WGoto(c, l),
         l \in HoldsFrame \/ EventIn(hand[c]) = 0 \/ Excused \/ Excused'
  PROVE  Piped
<1>1. TypeOK /\ TypeOK'
  BY DEF IInv
<1>2. /\ wpc'[c] = l /\ \A d \in Chan \ {c} : wpc'[d] = wpc[d] /\ hand'[d] = hand[d]
      /\ IF l \in HoldsFrame THEN hand'[c] = hand[c] ELSE hand'[c] = NoFrame
  BY <1>1 DEF TypeOK, WorkersOK, WGoto
<1>3. \A d \in Chan : HandGoesOn(d)
  BY <1>2, NoFrameBrings DEF HandGoesOn, HoldsFrame
<1>4. QueuesGoOn
  BY <1>1, StageTypes DEF QueuesGoOn
<1>5. CASE Excused \/ Excused'
  BY <1>1, <1>3, <1>4, <1>5, DiscardsFrame
<1>6. CASE l \in HoldsFrame \/ EventIn(hand[c]) = 0
  <2>1. \A d \in Chan : hand'[d] = hand[d] \/ EventIn(hand[d]) = 0
    BY <1>2, <1>6
  <2> QED BY <1>1, <1>3, <2>1, KeepsFrame
<1> QED BY <1>5, <1>6

\* A worker that is not at a frame has none.
LEMMA NoneHeld ==
  ASSUME TypeOK, PipeInv, NEW c \in Chan, wpc[c] \notin HoldsFrame
  PROVE  EventIn(hand[c]) = 0
BY StageTypes, EventInType DEF PipeInv, HandOrder

\* What leaves the stages and the workers alone, and at most closes a connection.
LEMMA Aside ==
  ASSUME IInv, IInv', PipeInv, UNCHANGED <<config, workerVars, events, seen, last>>, NetGoesOn
  PROVE  Piped
<1>1. \A c \in Chan : HandGoesOn(c)
  BY StageTypes, EventInType DEF HandGoesOn
<1> QED BY <1>1, KeepsFrame DEF IInv
\* The calls do not touch the stages, but for receive and those of the owner.
LEMMA CallsAside ==
  ASSUME IInv, IInv', PipeInv, NEW t \in Threads, InCall(t)
  PROVE  Piped
<1>t. TypeOK
  BY DEF IInv
<1>1. CASE SendLock(t) \/ CallFails(t) \/ RawLock(t) \/ RawUnsend(t)
  BY <1>t, <1>1, NetStays, Aside DEF SendLock, CallFails, RawLock, RawUnsend
<1>2. CASE ControlLock(t) \/ ControlBegin(t) \/ ControlUnset(t)
  BY <1>t, <1>2, NetStays, Aside DEF ControlLock, ControlBegin, ControlUnset
<1>3. CASE ControlReturns(t) \/ ControlTimeout(t)
  BY <1>t, <1>3, NetStays, Aside DEF ControlReturns, ControlTimeout
<1>4. CASE SendWrite(t)
  <2>1. "send" \in Chan
    BY DEF Chan
  <2> QED BY <1>t, <1>4, <2>1, NetStays, Aside DEF SendWrite
<1>5. CASE RawWrite(t)
  <2>1. arg[t].ch \in Chan
    BY <1>t DEF TypeOK, ThreadsOK
  <2> QED BY <1>t, <1>5, <2>1, NetStays, Aside DEF RawWrite
<1>6. CASE ControlWrite(t)
  <2>1. Normal("receive") \in Chan
    BY <1>t, StageTypes
  <2> QED BY <1>t, <1>6, <2>1, NetStays, Aside DEF ControlWrite
<1> QED BY <1>1, <1>2, <1>3, <1>4, <1>5, <1>6 DEF InCall

\* Nor do the calls that begin.
LEMMA BeginsAside ==
  ASSUME IInv, IInv', PipeInv, NEW t \in Threads,
         ReceiveRaw(t) \/ Send(t) \/ SendRaw(t) \/ Clear(t)
  PROVE  Piped
<1>t. TypeOK
  BY DEF IInv
<1> QED BY <1>t, NetStays, Aside DEF ReceiveRaw, Send, SendRaw, Clear

\* What the server sends is new.
LEMMA ServerPipe ==
  ASSUME IInv, IInv', PipeInv, NEW c \in Chan,
         ServerEvent(c) \/ ServerReplies(c) \/ ConnectionLost(c)
  PROVE  Piped
<1>t. TypeOK
  BY DEF IInv
<1>1. CASE ConnectionLost(c)
  <2>1. NetGoesOn
    <3>1. net' = net /\ sent' = sent
      BY <1>1 DEF ConnectionLost
    <3> QED BY <3>1, StageTypes DEF NetGoesOn, IInv
  <2> QED BY <1>1, <2>1, Aside DEF ConnectionLost
<1>2. CASE ServerEvent(c) \/ ServerReplies(c)
  <2>1. ReplyArrives(c)
    BY <1>2, ServerRepliesArrive, ServerEventArrives
  <2>2. NetGoesOn
    <3>1. ASSUME NEW d \in Chan PROVE sent[d] <= sent'[d]
      <4>1. sent[d] \in Nat
        BY <1>t, StageTypes
      <4>2. sent'[d] = sent[d] \/ sent[d] <= sent'[d]
        BY <2>1 DEF ReplyArrives
      <4> QED BY <4>1, <4>2
    <3>2. ASSUME NEW d \in Chan, NEW i \in 1 .. Len(net'[d]), EventIn(net'[d][i]) > 0
          PROVE  net'[d][i].ev > sent[d] \/ \E j \in 1 .. Len(net[d]) : net'[d][i] = net[d][j]
      <4>1. CASE d # c
        BY <2>1, <4>1 DEF ReplyArrives
      <4>2. CASE d = c /\ i > Len(net[c])
        BY <2>1, <3>2, <4>2 DEF ReplyArrives
      <4>3. CASE d = c /\ ~(i > Len(net[c]))
        <5>1. Len(net[c]) \in Nat /\ Len(net'[c]) \in Nat
          BY StageTypes, StageTypesNext DEF IInv
        <5>2. i \in 1 .. Len(net[c])
          BY <4>3, <5>1
        <5> QED BY <2>1, <4>3, <5>2 DEF ReplyArrives
      <4> QED BY <4>1, <4>2, <4>3
    <3> QED BY <3>1, <3>2 DEF NetGoesOn
  <2> QED BY <1>2, <2>2, Aside DEF ServerEvent, ServerReplies
<1> QED BY <1>1, <1>2

\* The worker's steps that change neither queue.
LEMMA WorkerGoesOn ==
  ASSUME IInv, IInv', ReplyInv, PipeInv, NEW c \in Chan,
         \/ WorkerTop(c) \/ WorkerPolls(c) \/ WorkerWritesPoll(c) \/ WorkerReadFails(c)
         \/ ProcessEvent(c) \/ ProcessPollReply(c) \/ ProcessOtherReply(c)
         \/ CallbackReturns(c) \/ WorkerFails(c)
  PROVE  Piped
<1>t. TypeOK /\ "frame" \in HoldsFrame
  BY DEF IInv, HoldsFrame
<1>h. wpc[c] \notin HoldsFrame => EventIn(hand[c]) = 0
  BY <1>t, NoneHeld
<1>l. {"fail", "done", "poll", "top", "dispatch"} \subseteq WorkerPlaces \ {"call"}
      /\ "fail" \in HoldsFrame /\ "dispatch" \in HoldsFrame
  BY DEF WorkerPlaces, HoldsFrame
<1>1. CASE WorkerTop(c) \/ WorkerPolls(c) \/ CallbackReturns(c)
  <2>1. EventIn(hand[c]) = 0 /\ NetGoesOn
    BY <1>t, <1>1, <1>h, NetStays DEF WorkerTop, WorkerPolls, CallbackReturns, HoldsFrame
  <2> QED BY <1>1, <1>l, <2>1, GoesOn DEF WorkerTop, WorkerPolls, CallbackReturns
<1>2. CASE WorkerWritesPoll(c)
  <2>1. EventIn(hand[c]) = 0 /\ NetGoesOn
    BY <1>t, <1>2, <1>h, NetStays DEF WorkerWritesPoll, HoldsFrame
  <2> QED BY <1>2, <1>l, <2>1, GoesOn DEF WorkerWritesPoll
<1>3. CASE WorkerReadFails(c)
  <2>1. EventIn(hand[c]) = 0
    BY <1>3, <1>h DEF WorkerReadFails, HoldsFrame
  <2>2. NetGoesOn
    <3>1. net' = net /\ sent' = sent
      BY <1>3 DEF WorkerReadFails
    <3> QED BY <1>t, <3>1, StageTypes DEF NetGoesOn
  <2> QED BY <1>3, <1>l, <2>1, <2>2, GoesOn DEF WorkerReadFails
<1>4. CASE ProcessEvent(c)
  <2>1. NetGoesOn
    BY <1>t, <1>4, NetStays DEF ProcessEvent
  <2> QED BY <1>4, <1>l, <2>1, GoesOn DEF ProcessEvent
<1>5. CASE ProcessPollReply(c)
  <2>1. NetGoesOn
    BY <1>t, <1>5, NetStays DEF ProcessPollReply
  <2>2. hand[c].ok # "event" => EventIn(hand[c]) = 0
    BY <1>5 DEF ProcessPollReply, EventIn
  <2> QED BY <1>5, <1>l, <2>1, <2>2, GoesOn DEF ProcessPollReply
<1>6. CASE ProcessOtherReply(c)
  <2>1. NetGoesOn
    BY <1>t, <1>6, NetStays DEF ProcessOtherReply
  <2>2. EventIn(hand[c]) = 0
    <3>1. wpc[c] = "frame" /\ hand[c].kind = "reply" /\ ~IsPollReply(c, hand[c])
      BY <1>6 DEF ProcessOtherReply
    <3>2. hand[c].by # "poll"
      <4> SUFFICES ASSUME hand[c].by = "poll" PROVE FALSE
        OBVIOUS
      <4>1. c = "send" /\ hand[c].code = "RETR" /\ InHand(c, "RETR", "poll")
        BY <3>1 DEF ReplyInv, KindInv, Proper, InHand, Answers
      <4>2. Coming(c, "RETR", "poll") > 0
        BY <4>1, ComingType DEF IInv, Coming
      <4>3. pollPending
        BY <4>1, <4>2 DEF ReplyInv, PollInv
      <4> QED BY <3>1, <4>1, <4>3 DEF IsPollReply
    <3> QED BY <3>1, <3>2 DEF EventIn
  <2> QED BY <1>6, <1>l, <2>1, <2>2, GoesOn DEF ProcessOtherReply
<1>7. CASE WorkerFails(c)
  <2>1. NetGoesOn
    BY <1>t, <1>7, NetStays DEF WorkerFails
  <2>2. Excused'
    BY <1>7 DEF WorkerFails, Excused
  <2> QED BY <1>7, <1>l, <2>1, <2>2, GoesOn DEF WorkerFails
<1> QED BY <1>1, <1>2, <1>3, <1>4, <1>5, <1>6, <1>7
\* A worker is started only where none is running.
LEMMA NextSpawnInv == IInv /\ SpawnInv /\ [Next]_vars => SpawnInv'
<1> SUFFICES ASSUME IInv, SpawnInv, [Next]_vars PROVE SpawnInv'
  OBVIOUS
<1>o. Owner \in Threads /\ pc \in [Threads -> Places]
  BY DEF IInv, TypeOK, ThreadsOK
<1>f. ASSUME UNCHANGED <<mode, workers>>, pc'[Owner] = "spawn2" => pc[Owner] = "spawn2"
      PROVE  SpawnInv'
  BY <1>f DEF SpawnInv, Normal
<1>1. ASSUME NEW c \in Chan, ServerEvent(c) \/ ServerReplies(c) \/ ConnectionLost(c)
      PROVE  SpawnInv'
  BY <1>f, <1>1 DEF ServerEvent, ServerReplies, ConnectionLost
<1>2. CASE Expire
  BY <1>f, <1>2 DEF Expire
<1>3. ASSUME NEW c \in Chan, Worker(c) PROVE SpawnInv'
  <2>1. UNCHANGED <<mode, workers, pc>>
    BY <1>3 DEF Worker, WorkerTop, WorkerPolls, WorkerWritesPoll, WorkerReads, WorkerReadFails,
      ProcessEvent, ProcessPollReply, ProcessControlReply, ProcessOtherReply, Dispatch,
      CallbackBegins, CallbackReturns, WorkerFails
  <2> QED BY <1>f, <2>1
<1>4. CASE Connect \/ Disconnect
  BY <1>o, <1>f, <1>4 DEF Connect, Disconnect, Call, CallWith, GotoWith
<1>5. CASE OpenReads \/ OpenFails \/ Close
  BY <1>o, <1>f, <1>5 DEF OpenReads, OpenFails, Close, Goto, GotoWith
<1>6. CASE Spawn
  BY <1>o, <1>6 DEF Spawn, SpawnInv, Goto, GotoWith, Normal
<1>7. CASE SpawnSend \/ Join
  BY <1>o, <1>7 DEF SpawnSend, Join, SpawnInv, Goto, GotoWith
<1>8. ASSUME NEW t \in Threads, Begins(t) \/ InCall(t) PROVE SpawnInv'
  <2>1. UNCHANGED <<mode, workers>> /\ \E l \in Places \ {"spawn2"} : pc' = [pc EXCEPT ![t] = l]
    <3>1. CASE Receive(t) \/ ReceiveRaw(t) \/ Send(t)
      BY <3>1 DEF Receive, ReceiveRaw, Send, Call, CallWith, GotoWith, Places
    <3>2. CASE SendRaw(t) \/ Clear(t)
      BY <3>2 DEF SendRaw, Clear, Call, CallWith, GotoWith, Places
    <3>3. CASE SendLock(t) \/ SendWrite(t) \/ CallFails(t)
      BY <3>3 DEF SendLock, SendWrite, CallFails, Goto, GotoWith, Places
    <3>4. CASE RawLock(t) \/ RawWrite(t) \/ RawUnsend(t)
      BY <3>4 DEF RawLock, RawWrite, RawUnsend, Goto, GotoWith, Places
    <3>5. CASE ControlLock(t) \/ ControlBegin(t) \/ ControlWrite(t)
      BY <3>5 DEF ControlLock, ControlBegin, ControlWrite, Goto, GotoWith, Places
    <3>6. CASE ControlUnset(t) \/ ControlReturns(t) \/ ControlTimeout(t)
      BY <3>6 DEF ControlUnset, ControlReturns, ControlTimeout, Goto, GotoWith, Places
    <3> QED BY <1>8, <3>1, <3>2, <3>3, <3>4, <3>5, <3>6 DEF Begins, InCall
  <2> QED BY <1>o, <1>f, <2>1
<1>9. CASE UNCHANGED vars
  BY <1>f, <1>9 DEF vars
<1> QED BY <1>1, <1>2, <1>3, <1>4, <1>5, <1>6, <1>7, <1>8, <1>9 DEF Next, Server, InOwnerCall

\* A connection is opened and closed while the client does not run.
LEMMA OwnerPipe ==
  ASSUME IInv, IInv', ReplyInv, SpawnInv, PipeInv,
         Connect \/ Disconnect \/ OpenFails \/ Spawn \/ SpawnSend \/ Join \/ Close
  PROVE  Piped
<1>t. TypeOK /\ TypeOK' /\ Normal("receive") \in Chan
  BY StageTypes DEF IInv
<1>n. ASSUME sent' = sent, \A c \in Chan : net'[c] = net[c] \/ net'[c] = <<>> PROVE NetGoesOn
  <2>1. \A c \in Chan : sent[c] \in Nat
    BY <1>t, StageTypes
  <2> QED BY <1>n, <2>1 DEF NetGoesOn
<1>w. ASSUME UNCHANGED <<wpc, hand>> PROVE \A c \in Chan : HandGoesOn(c)
  BY <1>w, <1>t, StageTypes, EventInType DEF HandGoesOn
<1>d. ASSUME NEW c \in Chan, c \notin workers PROVE EventIn(hand[c]) = 0
  <2>1. wpc[c] \notin HoldsFrame
    BY <1>d DEF IInv, LifeInv, HoldsFrame
  <2> QED BY <1>t, <2>1, NoneHeld
<1>1. CASE Connect \/ OpenFails \/ Close
  <2>1. Excused
    BY <1>1 DEF Connect, OpenFails, Close, Excused, IInv, LifeInv
  <2>2. /\ UNCHANGED <<mode, active, seen, last, events, wpc, hand, sent>> /\ buffered' = <<>>
        /\ \A c \in Chan : net'[c] = net[c] \/ net'[c] = <<>>
    BY <1>1 DEF Connect, OpenFails, Close
  <2>3. QueuesGoOn
    BY <2>2 DEF QueuesGoOn
  <2> QED BY <1>t, <1>n, <1>w, <2>1, <2>2, <2>3, DiscardsFrame
<1>2. CASE Disconnect
  <2>1. Excused'
    BY <1>2 DEF Disconnect, Excused
  <2>2. UNCHANGED <<mode, active, seen, last, buffered, wpc, hand, sent, net>> /\ events' = <<>>
    BY <1>2 DEF Disconnect
  <2>3. QueuesGoOn
    BY <2>2 DEF QueuesGoOn
  <2> QED BY <1>t, <1>n, <1>w, <2>1, <2>2, <2>3, DiscardsFrame
<1>3. CASE Spawn
  <2>1. Excused /\ workers = {}
    BY <1>3 DEF Spawn, Excused, IInv, LifeInv
  <2>2. UNCHANGED <<mode, active, seen, last, buffered, hand, sent, net>> /\ events' = <<>>
    BY <1>3 DEF Spawn, ResetState
  <2>3. QueuesGoOn
    BY <2>2 DEF QueuesGoOn
  <2>4. \A c \in Chan : wpc'[c] # "call"
    BY <1>3, <1>t, <2>1 DEF Spawn, IInv, LifeInv, TypeOK, WorkersOK
  <2>5. \A c \in Chan : HandGoesOn(c)
    BY <1>d, <2>1, <2>2, <2>4 DEF HandGoesOn
  <2> QED BY <1>t, <1>n, <2>1, <2>2, <2>3, <2>5, DiscardsFrame
<1>4. CASE SpawnSend
  <2>1. "send" \in Chan /\ "send" \notin workers
    BY <1>4 DEF SpawnSend, SpawnInv, ReplyInv, KindInv, Normal, Chan
  <2>2. UNCHANGED <<mode, active, seen, last, buffered, events, hand, sent, net>>
    BY <1>4 DEF SpawnSend
  <2>3. \A c \in Chan : wpc'[c] = wpc[c] \/ (c = "send" /\ wpc'[c] = "top")
    BY <1>4, <1>t DEF SpawnSend, TypeOK, WorkersOK
  <2>4. \A c \in Chan : HandGoesOn(c)
    BY <1>d, <2>1, <2>2, <2>3 DEF HandGoesOn
  <2> QED BY <1>t, <1>n, <2>2, <2>4, KeepsFrame
<1>5. CASE Join
  <2>1. UNCHANGED <<mode, active, seen, last, buffered, events, hand, wpc, sent, net>>
    BY <1>5 DEF Join
  <2> QED BY <1>t, <1>n, <1>w, <2>1, KeepsFrame
<1> QED BY <1>1, <1>2, <1>3, <1>4, <1>5
\* With the reply to its clear a worker drops the local events.
LEMMA ProcessControlReplyPipe ==
  ASSUME IInv, IInv', PipeInv, ReplyInv, NEW c \in Chan, ProcessControlReply(c)
  PROVE  Piped
<1>t. TypeOK /\ TypeOK'
  BY DEF IInv
<1>1. Excused
  BY DEF ProcessControlReply, Excused
<1>2. /\ UNCHANGED <<mode, active, seen, last, buffered, sent, net>>
      /\ events' = events \/ events' = <<>>
      /\ WGoto(c, "fail") \/ WGoto(c, "top")
  BY DEF ProcessControlReply
<1>3. NetGoesOn
  BY <1>t, <1>2, StageTypes DEF NetGoesOn
<1>4. QueuesGoOn
  BY <1>t, <1>2, StageTypes DEF QueuesGoOn
<1>5. ASSUME NEW d \in Chan PROVE HandGoesOn(d)
  <2>1. \/ hand'[d] = NoFrame /\ wpc'[d] # "call"
        \/ hand'[d] = hand[d] /\ (wpc'[d] = wpc[d] \/ wpc'[d] = "fail")
    BY <1>t, <1>2 DEF TypeOK, WorkersOK, WGoto, HoldsFrame
  <2>2. "fail" \in HoldsFrame
    BY DEF HoldsFrame
  <2> QED BY <2>1, <2>2, NoFrameBrings DEF HandGoesOn
<1> QED BY <1>t, <1>1, <1>2, <1>3, <1>4, <1>5, DiscardsFrame

\* The application takes the oldest event.
LEMMA ReceiveTakes ==
  ASSUME IInv, IInv', PipeInv, NEW t \in Threads, Receive(t)
  PROVE  Piped
<1>t. TypeOK /\ TypeOK' /\ Normal("receive") \in Chan /\ Normal("receive")' = Normal("receive")
  BY StageTypes DEF IInv, Normal, Receive
<1>s. events \in Seq([ch : Chan, n : Nat]) /\ events # <<>> /\ events' = Tail(events)
  BY <1>t DEF TypeOK, QueuesOK, Receive
<1>p. /\ Len(events) \in Nat /\ Len(events) >= 1 /\ Len(events') = Len(events) - 1
      /\ \A i \in 1 .. Len(events) - 1 : events'[i] = events[i + 1]
      /\ Head(events) = events[1] /\ Head(events) \in [ch : Chan, n : Nat]
  <2>1. PICK S : S = [ch : Chan, n : Nat]
    OBVIOUS
  <2>2. events \in Seq(S)
    BY <1>s, <2>1
  <2>3. /\ Len(events) \in Nat /\ Len(events) >= 1 /\ Len(events') = Len(events) - 1
        /\ \A i \in 1 .. Len(events) - 1 : events'[i] = events[i + 1]
        /\ Head(events) = events[1] /\ Head(events) \in S
    BY <1>s, <2>2, Popped
  <2> QED BY <2>1, <2>3
<1>h. PICK d \in Chan, n \in Nat : events[1].ch = d /\ events[1].n = n
  BY <1>p
<1>u. /\ UNCHANGED <<mode, active, seen, buffered, hand, wpc, sent, net>>
      /\ last' = [last EXCEPT ![d] = n] /\ ~active
  BY <1>h, <1>p DEF Receive
<1>l. last'[d] = n /\ \A c \in Chan \ {d} : last'[c] = last[c]
  BY <1>t, <1>u DEF TypeOK, HistoryOK
<1>o. /\ n \in Wanted /\ last[d] < n /\ n <= seen[d]
      /\ EventIn(hand[d]) > 0 => n < hand[d].ev
      /\ d = Normal("receive") =>
           \A j \in 1 .. Len(buffered) : EventIn(buffered[j]) > 0 => n < buffered[j].ev
      /\ \A j \in 1 .. Len(events) : 1 < j /\ events[j].ch = d => n < events[j].n
  <2>1. 1 \in 1 .. Len(events)
    BY <1>p
  <2> QED BY <1>h, <2>1 DEF PipeInv, EventsOrder
<1>e. \A i \in 1 .. Len(events') : i + 1 \in 1 .. Len(events) /\ events'[i] = events[i + 1] /\ 1 < i + 1
  BY <1>p
<1>f. \A i \in 1 .. Len(events) : i = 1 \/ \E j \in 1 .. Len(events') : i = j + 1
  <2> SUFFICES ASSUME NEW i \in 1 .. Len(events), i # 1
               PROVE  \E j \in 1 .. Len(events') : i = j + 1
    OBVIOUS
  <2>1. i - 1 \in 1 .. Len(events') /\ i = (i - 1) + 1
    BY <1>p
  <2> QED BY <2>1
<1>1. PipeInv'
  <2>1. HandOrder'
    BY <1>u, <1>l, <1>o DEF PipeInv, HandOrder, Between
  <2>2. EventsOrder'
    <3> SUFFICES ASSUME NEW i \in 1 .. Len(events')
                 PROVE  LET c == events'[i].ch
                            m == events'[i].n
                        IN /\ m \in Wanted /\ last'[c] < m /\ m <= seen'[c]
                           /\ EventIn(hand'[c]) > 0 => m < hand'[c].ev
                           /\ c = Normal("receive") =>
                                \A j \in 1 .. Len(buffered') :
                                  EventIn(buffered'[j]) > 0 => m < buffered'[j].ev
                           /\ \A j \in 1 .. Len(events') :
                                i < j /\ events'[j].ch = c => m < events'[j].n
      BY <1>t DEF EventsOrder
    <3> DEFINE c == events[i + 1].ch
               m == events[i + 1].n
    <3>1. /\ i + 1 \in 1 .. Len(events) /\ events'[i] = events[i + 1] /\ 1 < i + 1
      BY <1>e
    <3>2. c \in Chan
      BY <1>t, <3>1, StageTypes
    <3>3. /\ m \in Wanted /\ last[c] < m /\ m <= seen[c]
          /\ EventIn(hand[c]) > 0 => m < hand[c].ev
          /\ c = Normal("receive") =>
               \A j \in 1 .. Len(buffered) : EventIn(buffered[j]) > 0 => m < buffered[j].ev
          /\ \A j \in 1 .. Len(events) : i + 1 < j /\ events[j].ch = c => m < events[j].n
      BY <3>1 DEF PipeInv, EventsOrder
    <3>4. last'[c] < m
      BY <1>l, <1>o, <3>1, <3>2, <3>3
    <3>5. \A j \in 1 .. Len(events') : i < j /\ events'[j].ch = c => m < events'[j].n
      <4> SUFFICES ASSUME NEW j \in 1 .. Len(events'), i < j, events'[j].ch = c
                   PROVE  m < events'[j].n
        OBVIOUS
      <4>1. j + 1 \in 1 .. Len(events) /\ events'[j] = events[j + 1]
        BY <1>e
      <4>2. i + 1 < j + 1
        BY <1>p
      <4> QED BY <3>3, <4>1, <4>2
    <3> QED BY <1>u, <3>1, <3>3, <3>4, <3>5
  <2>3. \A i \in 1 .. Len(buffered') : Between(Normal("receive"), buffered[i])'
    BY <1>t, <1>u, <1>l, <1>o DEF PipeInv, Between
  <2> QED BY <1>t, <1>u, <2>1, <2>2, <2>3 DEF PipeInv
<1>2. \A c \in Chan \ {d} : Keeps(c)
  <2> SUFFICES ASSUME NEW c \in Chan \ {d} PROVE Keeps(c)
    OBVIOUS
  <2>1. \A e : (\E i \in 1 .. Len(events') : events'[i].ch = c /\ events'[i].n = e)
               <=> \E i \in 1 .. Len(events) : events[i].ch = c /\ events[i].n = e
    <3>1. ASSUME NEW i \in 1 .. Len(events'), events'[i].ch = c
          PROVE  \E j \in 1 .. Len(events) : events[j].ch = c /\ events[j].n = events'[i].n
      BY <1>e, <3>1
    <3>2. ASSUME NEW i \in 1 .. Len(events), events[i].ch = c
          PROVE  \E j \in 1 .. Len(events') : events'[j].ch = c /\ events'[j].n = events[i].n
      <4>1. PICK j \in 1 .. Len(events') : i = j + 1
        BY <1>f, <1>h, <3>2
      <4> QED BY <1>e, <3>2, <4>1
    <3> SUFFICES ASSUME NEW e
                 PROVE  (\E i \in 1 .. Len(events') : events'[i].ch = c /\ events'[i].n = e)
                        <=> \E i \in 1 .. Len(events) : events[i].ch = c /\ events[i].n = e
      OBVIOUS
    <3>3. ASSUME \E i \in 1 .. Len(events') : events'[i].ch = c /\ events'[i].n = e
          PROVE  \E i \in 1 .. Len(events) : events[i].ch = c /\ events[i].n = e
      BY <3>1, <3>3
    <3>4. ASSUME \E i \in 1 .. Len(events) : events[i].ch = c /\ events[i].n = e
          PROVE  \E i \in 1 .. Len(events') : events'[i].ch = c /\ events'[i].n = e
      BY <3>2, <3>4
    <3> QED BY <3>3, <3>4
  <2>2. \A e : e \in PipeOf(c)' <=> e \in PipeOf(c)
    BY <1>t, <1>u, <2>1, InPipe, InPipeNext
  <2> QED BY <1>u, <1>l, <2>2 DEF Keeps
<1>3. Leaves(d)
  <2>1. n \in PipeOf(d) /\ \A f \in PipeOf(d) : n <= f
    <3>1. 1 \in 1 .. Len(events)
      BY <1>p
    <3>2. n \in PipeOf(d)
      BY <1>t, <1>h, <3>1, InPipe
    <3>3. ASSUME NEW f \in PipeOf(d) PROVE n <= f
      <4>1. CASE \E i \in 1 .. Len(events) : events[i].ch = d /\ events[i].n = f
        BY <1>h, <1>o, <1>p, <1>t, <4>1, StageTypes
      <4>2. CASE f # 0 /\ EventIn(hand[d]) = f
        BY <1>o, <1>t, <4>2, StageTypes, EventInType
      <4>3. CASE /\ d = Normal("receive") /\ f # 0
                 /\ \E i \in 1 .. Len(buffered) : EventIn(buffered[i]) = f
        <5>1. PICK i \in 1 .. Len(buffered) : EventIn(buffered[i]) = f
          BY <4>3
        <5>2. buffered[i] \in FrameSet
          BY <1>t, StageTypes
        <5>3. f > 0 /\ f = buffered[i].ev /\ f \in Nat
          BY <4>3, <5>1, <5>2, EventInType
        <5> QED BY <1>o, <4>3, <5>1, <5>3
      <4> QED BY <1>t, <4>1, <4>2, <4>3, InPipe
    <3> QED BY <3>2, <3>3
  <2>2. \A e : e \in PipeOf(d)' <=> e \in PipeOf(d) /\ e # n
    <3>1. \A e : (\E i \in 1 .. Len(events') : events'[i].ch = d /\ events'[i].n = e)
                 <=> e # n /\ \E i \in 1 .. Len(events) : events[i].ch = d /\ events[i].n = e
      <4>1. \A i \in 1 .. Len(events) : events[i].ch = d /\ 1 < i => events[i].n # n
        BY <1>o
      <4>2. ASSUME NEW i \in 1 .. Len(events'), events'[i].ch = d
            PROVE  /\ events'[i].n # n
                   /\ \E j \in 1 .. Len(events) : events[j].ch = d /\ events[j].n = events'[i].n
        BY <1>e, <4>1, <4>2
      <4>3. ASSUME NEW i \in 1 .. Len(events), events[i].ch = d, events[i].n # n
            PROVE  \E j \in 1 .. Len(events') : events'[j].ch = d /\ events'[j].n = events[i].n
        <5>1. PICK j \in 1 .. Len(events') : i = j + 1
          BY <1>f, <1>h, <4>3
        <5> QED BY <1>e, <4>3, <5>1
      <4> QED BY <4>2, <4>3
    <3>2. EventIn(hand[d]) # 0 => EventIn(hand[d]) # n
      BY <1>o, <1>t, StageTypes, EventInType
    <3>3. d = Normal("receive") =>
            \A i \in 1 .. Len(buffered) : EventIn(buffered[i]) # 0 => EventIn(buffered[i]) # n
      BY <1>o, <1>t, StageTypes, EventInType
    <3> QED BY <1>t, <1>u, <3>1, <3>2, <3>3, InPipe, InPipeNext
  <2>3. n > last[d]
    BY <1>o, <1>t, StageTypes
  <2> QED BY <1>u, <1>l, <1>o, <2>1, <2>2, <2>3 DEF Leaves
<1> QED BY <1>1, <1>2, <1>3 DEF Piped, PipeStep
\* A callback is called with the event its worker holds, which is the oldest.
LEMMA CallbackBeginsPipe ==
  ASSUME IInv, IInv', PipeInv, NEW c \in Chan, CallbackBegins(c)
  PROVE  Piped
<1>t. TypeOK /\ TypeOK' /\ Normal("receive") \in Chan /\ Normal("receive")' = Normal("receive")
  BY StageTypes DEF IInv, Normal, CallbackBegins
<1>1. UNCHANGED <<mode, active, seen, buffered, events, sent, net>> /\ wpc[c] = "call"
  BY DEF CallbackBegins
<1>2. NetGoesOn
  BY <1>t, <1>1, StageTypes DEF NetGoesOn
<1>3. CASE ~running
  <2>1. WGoto(c, "top") /\ UNCHANGED last /\ Excused
    BY <1>3 DEF CallbackBegins, Excused
  <2>2. "top" \in WorkerPlaces \ {"call"}
    BY DEF WorkerPlaces
  <2>3. UNCHANGED config
    BY DEF CallbackBegins
  <2> QED BY <1>1, <1>2, <2>1, <2>2, <2>3, GoesOn
<1>4. CASE running
  <2>1. last' = [last EXCEPT ![c] = hand[c].ev] /\ WGoto(c, "callback")
    BY <1>4 DEF CallbackBegins
  <2>2. /\ last'[c] = hand[c].ev /\ \A d \in Chan \ {c} : last'[d] = last[d]
        /\ hand'[c] = NoFrame /\ wpc'[c] = "callback"
        /\ \A d \in Chan \ {c} : hand'[d] = hand[d] /\ wpc'[d] = wpc[d]
    BY <1>t, <2>1 DEF TypeOK, WorkersOK, HistoryOK, WGoto, HoldsFrame
  <2> DEFINE n == hand[c].ev
  <2>3. /\ EventIn(hand[c]) = n /\ n > 0 /\ n \in Nat /\ n \in Wanted
        /\ last[c] < n /\ n <= seen[c] /\ events = <<>>
    <3>1. EventIn(hand[c]) > 0 /\ n \in Wanted /\ active
      BY <1>1 DEF PipeInv, HandOrder
    <3>2. EventIn(hand[c]) = n /\ n \in Nat
      BY <1>t, <3>1, StageTypes, EventInType
    <3>3. last[c] < n /\ n <= seen[c]
      BY <3>1 DEF PipeInv, HandOrder, Between
    <3> QED BY <3>1, <3>2, <3>3 DEF PipeInv
  <2>4. c = Normal("receive") =>
          \A i \in 1 .. Len(buffered) : EventIn(buffered[i]) > 0 => n < buffered[i].ev
    BY DEF IInv, OrderInv, Before
  <2>5. EventIn(hand'[c]) = 0
    BY <2>2, NoFrameBrings
  <2> HIDE DEF n
  <2>6. PipeInv'
    <3>1. HandOrder'
      <4>1. ASSUME NEW d \in Chan
            PROVE  /\ last'[d] <= seen'[d] /\ seen'[d] <= sent'[d]
                   /\ Between(d, hand[d])'
                   /\ EventIn(hand'[d]) > 0 => wpc'[d] \in HoldsFrame
                   /\ wpc'[d] = "call" =>
                        EventIn(hand'[d]) > 0 /\ hand'[d].ev \in Wanted /\ active'
                   /\ \A i \in 1 .. Len(net'[d]) : EventIn(net'[d][i]) > 0 => seen'[d] < net'[d][i].ev
        <5>1. CASE d = c
          BY <1>1, <2>2, <2>3, <2>5, <5>1 DEF PipeInv, HandOrder, Between, n
        <5>2. CASE d # c
          BY <1>1, <2>2, <5>2 DEF PipeInv, HandOrder, Between
        <5> QED BY <5>1, <5>2
      <4> QED BY <4>1 DEF HandOrder
    <3>2. EventsOrder'
      BY <1>1, <2>3 DEF EventsOrder
    <3>3. \A i \in 1 .. Len(buffered') : Between(Normal("receive"), buffered[i])'
      BY <1>1, <1>t, <2>2, <2>4 DEF PipeInv, Between, n
    <3> QED BY <1>1, <1>t, <2>3, <3>1, <3>2, <3>3 DEF PipeInv
  <2>7. \A d \in Chan \ {c} : Keeps(d)
    <3> SUFFICES ASSUME NEW d \in Chan \ {c} PROVE Keeps(d)
      OBVIOUS
    <3>1. \A e : e \in PipeOf(d)' <=> e \in PipeOf(d)
      BY <1>t, <1>1, <2>2, InPipe, InPipeNext
    <3> QED BY <1>1, <2>2, <3>1 DEF Keeps
  <2>8. Leaves(c)
    <3>1. n \in PipeOf(c)
      BY <1>t, <2>3, InPipe
    <3>2. \A f \in PipeOf(c) : n <= f
      <4>1. \A i \in 1 .. Len(buffered) : EventIn(buffered[i]) = 0 \/ EventIn(buffered[i]) = buffered[i].ev
        BY <1>t, StageTypes, EventInType
      <4>2. \A i \in 1 .. Len(buffered) : buffered[i].ev \in Nat /\ EventIn(buffered[i]) \in Nat
        BY <1>t, StageTypes, EventInType
      <4> SUFFICES ASSUME NEW f \in PipeOf(c) PROVE n <= f
        OBVIOUS
      <4>3. \/ f = n
            \/ /\ c = Normal("receive") /\ f # 0
               /\ \E i \in 1 .. Len(buffered) : EventIn(buffered[i]) = f
        BY <1>t, <2>3, InPipe
      <4> QED BY <2>3, <2>4, <4>1, <4>2, <4>3
    <3>3. \A e : e \in PipeOf(c)' <=> e \in PipeOf(c) /\ e # n
      <4>1. c = Normal("receive") => \A i \in 1 .. Len(buffered) : EventIn(buffered[i]) # n
        BY <1>t, <2>3, <2>4, StageTypes, EventInType
      <4> QED BY <1>t, <1>1, <2>2, <2>3, <2>5, <4>1, InPipe, InPipeNext
    <3>4. n > last[c]
      BY <1>t, <2>3, StageTypes
    <3>5. last'[c] = n /\ PipeOf(c)' = PipeOf(c) \ {n}
      BY <2>2, <3>3 DEF n
    <3> QED BY <1>1, <2>3, <3>1, <3>2, <3>4, <3>5 DEF Leaves
  <2> QED BY <2>6, <2>7, <2>8 DEF Piped, PipeStep
<1> QED BY <1>3, <1>4

\* An event that is not wanted is rejected, another is put into the local
\* queue or kept for the callback; without a connection it is lost.
LEMMA DispatchPipe ==
  ASSUME IInv, IInv', PipeInv, NEW c \in Chan, Dispatch(c)
  PROVE  Piped
<1>t. TypeOK /\ TypeOK' /\ Normal("receive") \in Chan /\ Normal("receive")' = Normal("receive")
  BY StageTypes DEF IInv, Normal, Dispatch
<1>1. UNCHANGED <<mode, active, seen, last, buffered, sent, net>> /\ wpc[c] = "dispatch"
      /\ UNCHANGED config
  BY DEF Dispatch
<1>2. NetGoesOn
  BY <1>t, <1>1, StageTypes DEF NetGoesOn
<1> DEFINE n == hand[c].ev
<1>3. /\ EventIn(hand[c]) = n /\ n > 0 /\ n \in Nat
      /\ last[c] < n /\ n <= seen[c]
  <2>1. EventIn(hand[c]) > 0
    BY <1>1 DEF IInv, DispatchInv
  <2>2. EventIn(hand[c]) = n /\ n \in Nat
    BY <1>t, <2>1, StageTypes, EventInType
  <2>3. last[c] < n /\ n <= seen[c]
    BY <2>1 DEF PipeInv, HandOrder, Between
  <2> QED BY <2>1, <2>2, <2>3 DEF PipeInv
<1>4. c = Normal("receive") =>
        \A i \in 1 .. Len(buffered) : EventIn(buffered[i]) > 0 => n < buffered[i].ev
  BY DEF IInv, OrderInv, Before
<1>b. c = Normal("receive") => \A i \in 1 .. Len(buffered) : EventIn(buffered[i]) # n
  BY <1>t, <1>3, <1>4, StageTypes, EventInType
<1>5. \A i \in 1 .. Len(events) : events[i].ch = c => events[i].n < n
  BY <1>3 DEF PipeInv, EventsOrder
<1>w. /\ {"top", "call"} \subseteq WorkerPlaces /\ "call" \in HoldsFrame /\ "top" \notin HoldsFrame
  BY DEF WorkerPlaces, HoldsFrame
<1>6. CASE ~running
  <2>1. WGoto(c, "top") /\ UNCHANGED events /\ Excused
    BY <1>6 DEF Dispatch, Excused
  <2> QED BY <1>1, <1>2, <1>w, <2>1, GoesOn
<1>7. CASE running /\ n \notin Wanted
  <2>1. WGoto(c, "top") /\ UNCHANGED events
    BY <1>7 DEF Dispatch
  <2>2. /\ hand'[c] = NoFrame /\ wpc'[c] = "top"
        /\ \A d \in Chan \ {c} : hand'[d] = hand[d] /\ wpc'[d] = wpc[d]
    BY <1>t, <1>w, <2>1 DEF TypeOK, WorkersOK, WGoto
  <2>3. EventIn(hand'[c]) = 0
    BY <2>2, NoFrameBrings
  <2>4. PipeInv'
    <3>1. \A d \in Chan : HandGoesOn(d)
      BY <2>2, <2>3 DEF HandGoesOn
    <3>2. QueuesGoOn
      BY <1>1, <2>1 DEF QueuesGoOn
    <3> QED BY <1>t, <1>1, <1>2, <3>1, <3>2, PipeFrame
  <2>5. \A d \in Chan \ {c} : Keeps(d)
    <3> SUFFICES ASSUME NEW d \in Chan \ {c} PROVE Keeps(d)
      OBVIOUS
    <3>1. \A e : e \in PipeOf(d)' <=> e \in PipeOf(d)
      BY <1>t, <1>1, <2>1, <2>2, InPipe, InPipeNext
    <3> QED BY <1>1, <3>1 DEF Keeps
  <2>6. Rejects(c)
    <3>1. n \in PipeOf(c)
      BY <1>t, <1>3, InPipe
    <3>2. \A e : e \in PipeOf(c)' <=> e \in PipeOf(c) /\ e # n
      <4>1. \A i \in 1 .. Len(events) : events[i].ch = c => events[i].n # n
        BY <1>3, <1>5, <1>t, StageTypes
      <4> QED BY <1>t, <1>1, <1>3, <1>b, <2>1, <2>3, <4>1, InPipe, InPipeNext
    <3>3. PipeOf(c)' = PipeOf(c) \ {n}
      BY <3>2
    <3> QED BY <1>1, <1>7, <3>1, <3>3 DEF Rejects
  <2> QED BY <2>4, <2>5, <2>6 DEF Piped, PipeStep
<1>8. CASE running /\ n \in Wanted /\ active
  <2>1. WGoto(c, "call") /\ UNCHANGED events
    BY <1>8 DEF Dispatch
  <2>2. /\ hand' = hand /\ wpc'[c] = "call" /\ \A d \in Chan \ {c} : wpc'[d] = wpc[d]
    BY <1>t, <1>w, <2>1 DEF TypeOK, WorkersOK, WGoto
  <2>3. HandOrder'
    <3>1. ASSUME NEW d \in Chan
          PROVE  /\ last'[d] <= seen'[d] /\ seen'[d] <= sent'[d]
                 /\ Between(d, hand[d])'
                 /\ EventIn(hand'[d]) > 0 => wpc'[d] \in HoldsFrame
                 /\ wpc'[d] = "call" =>
                      EventIn(hand'[d]) > 0 /\ hand'[d].ev \in Wanted /\ active'
                 /\ \A i \in 1 .. Len(net'[d]) : EventIn(net'[d][i]) > 0 => seen'[d] < net'[d][i].ev
      <4>1. CASE d = c
        BY <1>1, <1>3, <1>8, <1>w, <2>2, <4>1 DEF PipeInv, HandOrder, Between
      <4>2. CASE d # c
        BY <1>1, <2>2, <4>2 DEF PipeInv, HandOrder, Between
      <4> QED BY <4>1, <4>2
    <3> QED BY <3>1 DEF HandOrder
  <2>4. EventsOrder'
    BY <1>8, <2>1 DEF PipeInv, EventsOrder
  <2>5. \A i \in 1 .. Len(buffered') : Between(Normal("receive"), buffered[i])'
    BY <1>1, <1>t DEF PipeInv, Between
  <2>6. PipeInv'
    BY <1>1, <1>t, <2>1, <2>3, <2>4, <2>5 DEF PipeInv
  <2>7. ASSUME NEW d \in Chan PROVE Keeps(d)
    <3>1. \A e : e \in PipeOf(d)' <=> e \in PipeOf(d)
      BY <1>t, <1>1, <2>1, <2>2, InPipe, InPipeNext
    <3> QED BY <1>1, <3>1 DEF Keeps
  <2> QED BY <2>6, <2>7 DEF Piped, PipeStep
<1>9. CASE running /\ n \in Wanted /\ ~active
  <2>1. WGoto(c, "top") /\ events' = Append(events, [ch |-> c, n |-> n])
    BY <1>9 DEF Dispatch
  <2>2. /\ hand'[c] = NoFrame /\ wpc'[c] = "top"
        /\ \A d \in Chan \ {c} : hand'[d] = hand[d] /\ wpc'[d] = wpc[d]
    BY <1>t, <1>w, <2>1 DEF TypeOK, WorkersOK, WGoto
  <2>3. EventIn(hand'[c]) = 0
    BY <2>2, NoFrameBrings
  <2>4. /\ Len(events) \in Nat /\ Len(events') = Len(events) + 1
        /\ \A i \in 1 .. Len(events) : events'[i] = events[i]
        /\ events'[Len(events) + 1].ch = c /\ events'[Len(events) + 1].n = n
    <3>1. PICK e : e = [ch |-> c, n |-> n]
      OBVIOUS
    <3>2. PICK S : events \in Seq(S) /\ e \in S
      BY <1>t, <1>3, <3>1 DEF TypeOK, QueuesOK
    <3>3. events' = Append(events, e) /\ e.ch = c /\ e.n = n
      BY <2>1, <3>1
    <3> QED BY <3>2, <3>3, Appended
  <2>5. \A i \in 1 .. Len(events') : i \in 1 .. Len(events) \/ i = Len(events) + 1
    BY <2>4
  <2>6. HandOrder'
    <3>1. ASSUME NEW d \in Chan
          PROVE  /\ last'[d] <= seen'[d] /\ seen'[d] <= sent'[d]
                 /\ Between(d, hand[d])'
                 /\ EventIn(hand'[d]) > 0 => wpc'[d] \in HoldsFrame
                 /\ wpc'[d] = "call" =>
                      EventIn(hand'[d]) > 0 /\ hand'[d].ev \in Wanted /\ active'
                 /\ \A i \in 1 .. Len(net'[d]) : EventIn(net'[d][i]) > 0 => seen'[d] < net'[d][i].ev
      <4>1. CASE d = c
        BY <1>1, <2>2, <2>3, <4>1 DEF PipeInv, HandOrder, Between
      <4>2. CASE d # c
        BY <1>1, <2>2, <4>2 DEF PipeInv, HandOrder, Between
      <4> QED BY <4>1, <4>2
    <3> QED BY <3>1 DEF HandOrder
  <2>7. EventsOrder'
    <3>1. ASSUME NEW i \in 1 .. Len(events)
          PROVE  LET d == events[i].ch
                     m == events[i].n
                 IN /\ m \in Wanted /\ last'[d] < m /\ m <= seen'[d]
                    /\ EventIn(hand'[d]) > 0 => m < hand'[d].ev
                    /\ d = Normal("receive") =>
                         \A j \in 1 .. Len(buffered') : EventIn(buffered'[j]) > 0 => m < buffered'[j].ev
                    /\ \A j \in 1 .. Len(events') : i < j /\ events'[j].ch = d => m < events'[j].n
      <4> DEFINE d == events[i].ch
                 m == events[i].n
      <4>1. /\ m \in Wanted /\ last[d] < m /\ m <= seen[d]
            /\ EventIn(hand[d]) > 0 => m < hand[d].ev
            /\ d = Normal("receive") =>
                 \A j \in 1 .. Len(buffered) : EventIn(buffered[j]) > 0 => m < buffered[j].ev
            /\ \A j \in 1 .. Len(events) : i < j /\ events[j].ch = d => m < events[j].n
        BY DEF PipeInv, EventsOrder
      <4>2. d \in Chan
        BY <1>t, StageTypes
      <4>3. \A j \in 1 .. Len(events') : i < j /\ events'[j].ch = d => m < events'[j].n
        BY <1>5, <2>4, <2>5, <4>1
      <4> QED BY <1>1, <2>2, <2>3, <4>1, <4>2, <4>3
    <3>2. /\ n \in Wanted /\ last'[c] < n /\ n <= seen'[c] /\ ~(EventIn(hand'[c]) > 0)
          /\ c = Normal("receive") =>
               \A j \in 1 .. Len(buffered') : EventIn(buffered'[j]) > 0 => n < buffered'[j].ev
          /\ \A j \in 1 .. Len(events') : ~(Len(events) + 1 < j)
      BY <1>1, <1>3, <1>4, <1>9, <2>3, <2>4
    <3> HIDE DEF n
    <3>3. \A i \in 1 .. Len(events) : events'[i] = events[i]
      BY <2>4
    <3> QED BY <1>t, <2>4, <2>5, <3>1, <3>2, <3>3 DEF EventsOrder
  <2>8. \A i \in 1 .. Len(buffered') : Between(Normal("receive"), buffered[i])'
    BY <1>1, <1>t DEF PipeInv, Between
  <2>9. PipeInv'
    BY <1>1, <1>t, <1>9, <2>6, <2>7, <2>8 DEF PipeInv
  <2>10. ASSUME NEW d \in Chan PROVE Keeps(d)
    <3>1. ASSUME NEW e
          PROVE  (\E i \in 1 .. Len(events') : events'[i].ch = d /\ events'[i].n = e)
                 <=> \/ \E i \in 1 .. Len(events) : events[i].ch = d /\ events[i].n = e
                     \/ d = c /\ e = n
      <4>1. Len(events) + 1 \in 1 .. Len(events') /\ \A i \in 1 .. Len(events) : i \in 1 .. Len(events')
        BY <2>4
      <4> QED BY <2>4, <2>5, <4>1
    <3>2. ASSUME NEW e PROVE e \in PipeOf(d)' <=> e \in PipeOf(d)
      <4>1. CASE d = c
        <5>1. /\ (e # 0 /\ EventIn(hand[d]) = e) <=> e = n
              /\ ~(e # 0 /\ EventIn(hand'[d]) = e)
          BY <1>3, <2>3, <4>1
        <5> HIDE DEF n
        <5>2. e \in PipeOf(d) <=>
                \/ \E i \in 1 .. Len(events) : events[i].ch = d /\ events[i].n = e
                \/ e = n
                \/ /\ d = Normal("receive") /\ e # 0
                   /\ \E i \in 1 .. Len(buffered) : EventIn(buffered[i]) = e
          BY <1>t, <5>1, InPipe
        <5>3. e \in PipeOf(d)' <=>
                \/ \E i \in 1 .. Len(events') : events'[i].ch = d /\ events'[i].n = e
                \/ /\ d = Normal("receive") /\ e # 0
                   /\ \E i \in 1 .. Len(buffered) : EventIn(buffered[i]) = e
          BY <1>t, <1>1, <5>1, InPipeNext
        <5> QED BY <3>1, <4>1, <5>2, <5>3
      <4>2. CASE d # c
        BY <1>t, <1>1, <2>2, <3>1, <4>2, InPipe, InPipeNext
      <4> QED BY <4>1, <4>2
    <3> QED BY <1>1, <3>2 DEF Keeps
  <2> QED BY <2>9, <2>10 DEF Piped, PipeStep
<1> QED BY <1>6, <1>7, <1>8, <1>9
\* A worker reads: a frame that came early moves to its hand, one that has
\* just come is seen.
LEMMA WorkerReadsPipe ==
  ASSUME IInv, IInv', PipeInv, NEW c \in Chan, WorkerReads(c)
  PROVE  Piped
<1>t. TypeOK /\ TypeOK' /\ Normal("receive") \in Chan /\ Normal("receive")' = Normal("receive")
  BY StageTypes DEF IInv, Normal, WorkerReads
<1>1. UNCHANGED <<mode, active, last, events, sent>> /\ UNCHANGED config /\ wpc[c] = "top"
  BY DEF WorkerReads
<1>2. EventIn(hand[c]) = 0
  <2>1. wpc[c] \notin HoldsFrame
    BY <1>1 DEF HoldsFrame
  <2> QED BY <1>t, <2>1, NoneHeld
<1>n. ASSUME ~Early(c)
      PROVE  /\ Len(net[c]) \in Nat /\ Len(net[c]) >= 1 /\ Len(net'[c]) = Len(net[c]) - 1
             /\ \A i \in 1 .. Len(net'[c]) : i + 1 \in 1 .. Len(net[c]) /\ net'[c][i] = net[c][i + 1]
             /\ Head(net[c]) = net[c][1] /\ Head(net[c]) \in FrameSet
             /\ \A d \in Chan \ {c} : net'[d] = net[d]
             /\ buffered' = buffered
  <2>1. /\ net[c] \in Seq(FrameSet) /\ net[c] # <<>> /\ net'[c] = Tail(net[c]) /\ buffered' = buffered
        /\ \A d \in Chan \ {c} : net'[d] = net[d]
    BY <1>n, <1>t DEF WorkerReads, TypeOK, NetOK
  <2>2. /\ Len(net[c]) \in Nat /\ Len(net[c]) >= 1 /\ Len(net'[c]) = Len(net[c]) - 1
        /\ \A i \in 1 .. Len(net[c]) - 1 : net'[c][i] = net[c][i + 1]
        /\ Head(net[c]) = net[c][1] /\ Head(net[c]) \in FrameSet
    BY <2>1, Popped
  <2>3. \A i \in 1 .. Len(net'[c]) : i + 1 \in 1 .. Len(net[c]) /\ i \in 1 .. Len(net[c]) - 1
    BY <2>2
  <2> QED BY <2>1, <2>2, <2>3
<1>b. ASSUME Early(c)
      PROVE  /\ Len(buffered) \in Nat /\ Len(buffered) >= 1 /\ Len(buffered') = Len(buffered) - 1
             /\ \A i \in 1 .. Len(buffered') :
                  i + 1 \in 1 .. Len(buffered) /\ buffered'[i] = buffered[i + 1]
             /\ \A i \in 1 .. Len(buffered) : i = 1 \/ \E j \in 1 .. Len(buffered') : i = j + 1
             /\ Head(buffered) = buffered[1] /\ Head(buffered) \in FrameSet
             /\ net' = net /\ c = Normal("receive")
  <2>1. /\ buffered \in Seq(FrameSet) /\ buffered # <<>> /\ buffered' = Tail(buffered) /\ net' = net
        /\ c = Normal("receive")
    BY <1>b, <1>t DEF WorkerReads, Early, TypeOK, WorkersOK
  <2>2. /\ Len(buffered) \in Nat /\ Len(buffered) >= 1 /\ Len(buffered') = Len(buffered) - 1
        /\ \A i \in 1 .. Len(buffered) - 1 : buffered'[i] = buffered[i + 1]
        /\ Head(buffered) = buffered[1] /\ Head(buffered) \in FrameSet
    BY <2>1, Popped
  <2>3. \A i \in 1 .. Len(buffered') : i + 1 \in 1 .. Len(buffered) /\ i \in 1 .. Len(buffered) - 1
    BY <2>2
  <2>4. ASSUME NEW i \in 1 .. Len(buffered), i # 1
        PROVE  \E j \in 1 .. Len(buffered') : i = j + 1
    <3>1. i - 1 \in 1 .. Len(buffered') /\ i = (i - 1) + 1
      BY <2>2, <2>4
    <3> QED BY <3>1
  <2> QED BY <2>1, <2>2, <2>3, <2>4
<1>3. NetGoesOn
  <2>1. ASSUME NEW d \in Chan PROVE sent[d] <= sent'[d]
    BY <1>1, <1>t, StageTypes
  <2>2. ASSUME NEW d \in Chan, NEW i \in 1 .. Len(net'[d])
        PROVE  \E j \in 1 .. Len(net[d]) : net'[d][i] = net[d][j]
    BY <1>n, <1>b
  <2> QED BY <2>1, <2>2 DEF NetGoesOn
<1>4. CASE ~running
  <2>1. WGoto(c, "done") /\ UNCHANGED seen /\ Excused
    BY <1>4 DEF WorkerReads, Excused
  <2>2. QueuesGoOn
    BY <1>1, <1>n, <1>b DEF QueuesGoOn
  <2>3. \A d \in Chan : HandGoesOn(d)
    <3>1. /\ hand'[c] = NoFrame /\ wpc'[c] = "done"
          /\ \A d \in Chan \ {c} : hand'[d] = hand[d] /\ wpc'[d] = wpc[d]
      BY <1>t, <2>1 DEF TypeOK, WorkersOK, WGoto, HoldsFrame
    <3> QED BY <3>1, NoFrameBrings DEF HandGoesOn
  <2> QED BY <1>t, <1>1, <1>3, <2>1, <2>2, <2>3, DiscardsFrame
<1> DEFINE f == IF Early(c) THEN Head(buffered) ELSE Head(net[c])
<1>5. CASE running
  <2>1. /\ hand'[c] = f /\ wpc'[c] = "frame"
        /\ \A d \in Chan \ {c} : hand'[d] = hand[d] /\ wpc'[d] = wpc[d]
        /\ IF Early(c) THEN UNCHANGED seen ELSE Seen(c, f)
    BY <1>t, <1>5 DEF WorkerReads, TypeOK, WorkersOK
  <2>2. "frame" \in HoldsFrame /\ f \in FrameSet
    BY <1>n, <1>b DEF HoldsFrame
  <2> HIDE DEF f
  <2>f. /\ EventIn(f) \in Nat /\ f.ev \in Nat
        /\ EventIn(f) = 0 \/ (EventIn(f) > 0 /\ EventIn(f) = f.ev)
    BY <2>2, EventInType
  <2>3. CASE EventIn(f) = 0 /\ ~Early(c)
    <3>1. UNCHANGED <<seen, buffered>>
      BY <1>n, <2>1, <2>3 DEF Seen
    <3>2. \A d \in Chan : HandGoesOn(d)
      BY <2>1, <2>3 DEF HandGoesOn
    <3>3. \A d \in Chan : hand'[d] = hand[d] \/ EventIn(hand[d]) = 0
      BY <1>2, <2>1
    <3> QED BY <1>1, <1>t, <1>3, <3>1, <3>2, <3>3, KeepsFrame
  <2>4. CASE EventIn(f) > 0 /\ ~Early(c)
    <3>1. buffered' = buffered /\ seen'[c] = f.ev /\ \A d \in Chan \ {c} : seen'[d] = seen[d]
      BY <1>n, <1>t, <2>1, <2>4 DEF Seen, TypeOK, HistoryOK
    <3>2. seen[c] < f.ev /\ f.ev <= sent[c] /\ EventIn(f) = f.ev
      <4>1. f = net[c][1] /\ 1 \in 1 .. Len(net[c])
        BY <1>n, <2>4 DEF f
      <4> QED BY <2>f, <2>4, <4>1 DEF PipeInv, HandOrder, IInv, OrderInv
    <3>3. \A i \in 1 .. Len(net'[c]) : EventIn(net'[c][i]) > 0 => f.ev < net'[c][i].ev
      <4> SUFFICES ASSUME NEW i \in 1 .. Len(net'[c]), EventIn(net'[c][i]) > 0
                   PROVE  f.ev < net'[c][i].ev
        OBVIOUS
      <4>1. f = net[c][1] /\ i + 1 \in 1 .. Len(net[c]) /\ net'[c][i] = net[c][i + 1]
        BY <1>n, <2>4 DEF f
      <4>2. 1 \in 1 .. (i + 1) - 1
        BY <1>n, <2>4
      <4> QED BY <4>1, <4>2 DEF IInv, OrderInv, Before
    <3>4. {seen[c], last[c], sent[c]} \subseteq Nat /\ last[c] <= seen[c]
      BY <1>t, StageTypes DEF PipeInv, HandOrder
    <3>5. last[c] < f.ev
      BY <2>f, <3>2, <3>4
    <3>6. PipeInv'
      <4>1. HandOrder'
        <5>1. ASSUME NEW d \in Chan
              PROVE  /\ last'[d] <= seen'[d] /\ seen'[d] <= sent'[d]
                     /\ Between(d, hand[d])'
                     /\ EventIn(hand'[d]) > 0 => wpc'[d] \in HoldsFrame
                     /\ wpc'[d] = "call" =>
                          EventIn(hand'[d]) > 0 /\ hand'[d].ev \in Wanted /\ active'
                     /\ \A i \in 1 .. Len(net'[d]) :
                          EventIn(net'[d][i]) > 0 => seen'[d] < net'[d][i].ev
          <6>1. CASE d = c
            <7>1. last'[d] <= seen'[d] /\ seen'[d] <= sent'[d] /\ Between(d, hand[d])'
              BY <1>1, <2>f, <2>1, <3>1, <3>2, <3>4, <3>5, <6>1 DEF Between
            <7>2. wpc'[d] # "call" /\ wpc'[d] \in HoldsFrame
              BY <2>1, <2>2, <6>1
            <7> QED BY <3>1, <3>3, <6>1, <7>1, <7>2
          <6>2. CASE d # c
            <7>1. net'[d] = net[d]
              BY <1>n, <2>4, <6>2
            <7> QED BY <1>1, <2>1, <3>1, <6>2, <7>1 DEF PipeInv, HandOrder, Between
          <6> QED BY <6>1, <6>2
        <5> QED BY <5>1 DEF HandOrder
      <4>2. EventsOrder'
        <5> SUFFICES ASSUME NEW i \in 1 .. Len(events)
                     PROVE  LET d == events[i].ch
                                m == events[i].n
                            IN /\ m \in Wanted /\ last'[d] < m /\ m <= seen'[d]
                               /\ EventIn(hand'[d]) > 0 => m < hand'[d].ev
                               /\ d = Normal("receive") =>
                                    \A j \in 1 .. Len(buffered) :
                                      EventIn(buffered[j]) > 0 => m < buffered[j].ev
                               /\ \A j \in 1 .. Len(events) :
                                    i < j /\ events[j].ch = d => m < events[j].n
          BY <1>1, <1>t, <3>1 DEF EventsOrder
        <5> DEFINE d == events[i].ch
                   m == events[i].n
        <5>1. /\ m \in Wanted /\ last[d] < m /\ m <= seen[d]
              /\ EventIn(hand[d]) > 0 => m < hand[d].ev
              /\ d = Normal("receive") =>
                   \A j \in 1 .. Len(buffered) : EventIn(buffered[j]) > 0 => m < buffered[j].ev
              /\ \A j \in 1 .. Len(events) : i < j /\ events[j].ch = d => m < events[j].n
          BY DEF PipeInv, EventsOrder
        <5>2. d \in Chan /\ m \in Nat
          BY <1>t, StageTypes
        <5>3. m <= seen'[d] /\ (EventIn(hand'[d]) > 0 => m < hand'[d].ev)
          <6>1. CASE d = c
            <7>1. m <= seen[c]
              BY <5>1, <6>1
            <7>2. m < f.ev
              BY <2>f, <3>2, <3>4, <5>2, <7>1
            <7> QED BY <2>f, <2>1, <3>1, <5>2, <6>1, <7>2
          <6>2. CASE d # c
            BY <2>1, <3>1, <5>1, <5>2, <6>2
          <6> QED BY <6>1, <6>2
        <5> QED BY <1>1, <5>1, <5>3
      <4>3. \A i \in 1 .. Len(buffered') : Between(Normal("receive"), buffered[i])'
        <5>1. CASE c = Normal("receive")
          <6>1. buffered = <<>>
            BY <2>4, <5>1 DEF Early
          <6> QED BY <3>1, <6>1
        <5>2. CASE c # Normal("receive")
          BY <1>1, <1>t, <3>1, <5>2 DEF PipeInv, Between
        <5> QED BY <5>1, <5>2
      <4> QED BY <1>1, <1>t, <4>1, <4>2, <4>3 DEF PipeInv
    <3>7. \A d \in Chan \ {c} : Keeps(d)
      <4> SUFFICES ASSUME NEW d \in Chan \ {c} PROVE Keeps(d)
        OBVIOUS
      <4>1. \A e : e \in PipeOf(d)' <=> e \in PipeOf(d)
        BY <1>t, <1>1, <2>1, <3>1, InPipe, InPipeNext
      <4> QED BY <1>1, <3>1, <4>1 DEF Keeps
    <3>8. Enters(c)
      <4>1. \A e : e \in PipeOf(c)' <=> e \in PipeOf(c) \/ e = f.ev
        <5>1. \A e : (e # 0 /\ EventIn(hand'[c]) = e) <=> e = f.ev
          BY <2>1, <2>4, <3>2
        <5> QED BY <1>t, <1>1, <1>2, <3>1, <5>1, InPipe, InPipeNext
      <4>2. PipeOf(c)' = PipeOf(c) \cup {seen'[c]}
        BY <3>1, <4>1
      <4>3. seen'[c] > seen[c]
        BY <3>1, <3>2, <3>4, <2>f
      <4> QED BY <1>1, <4>2, <4>3 DEF Enters
    <3> QED BY <3>6, <3>7, <3>8 DEF Piped, PipeStep
  <2>5. CASE Early(c)
    <3>1. /\ f = buffered[1] /\ c = Normal("receive") /\ 1 \in 1 .. Len(buffered)
          /\ UNCHANGED <<net, seen>>
      BY <1>b, <2>1, <2>5 DEF f
    <3>2. \A i \in 1 .. Len(buffered') : \E j \in 1 .. Len(buffered) : buffered'[i] = buffered[j]
      BY <1>b, <2>5
    <3>3. PipeInv'
      <4>1. HandOrder'
        <5>1. ASSUME NEW d \in Chan
              PROVE  /\ last'[d] <= seen'[d] /\ seen'[d] <= sent'[d]
                     /\ Between(d, hand[d])'
                     /\ EventIn(hand'[d]) > 0 => wpc'[d] \in HoldsFrame
                     /\ wpc'[d] = "call" =>
                          EventIn(hand'[d]) > 0 /\ hand'[d].ev \in Wanted /\ active'
                     /\ \A i \in 1 .. Len(net'[d]) :
                          EventIn(net'[d][i]) > 0 => seen'[d] < net'[d][i].ev
          <6>1. CASE d = c
            <7>1. Between(c, f)
              BY <3>1 DEF PipeInv
            <7>2. Between(d, hand[d])'
              BY <1>1, <2>1, <3>1, <6>1, <7>1 DEF Between
            <7>3. wpc'[d] # "call" /\ wpc'[d] \in HoldsFrame
              BY <2>1, <2>2, <6>1
            <7> QED BY <1>1, <3>1, <7>2, <7>3 DEF PipeInv, HandOrder
          <6>2. CASE d # c
            BY <1>1, <2>1, <3>1, <6>2 DEF PipeInv, HandOrder, Between
          <6> QED BY <6>1, <6>2
        <5> QED BY <5>1 DEF HandOrder
      <4>2. EventsOrder'
        <5> SUFFICES ASSUME NEW i \in 1 .. Len(events)
                     PROVE  LET d == events[i].ch
                                m == events[i].n
                            IN /\ m \in Wanted /\ last'[d] < m /\ m <= seen'[d]
                               /\ EventIn(hand'[d]) > 0 => m < hand'[d].ev
                               /\ d = Normal("receive") =>
                                    \A j \in 1 .. Len(buffered') :
                                      EventIn(buffered'[j]) > 0 => m < buffered'[j].ev
                               /\ \A j \in 1 .. Len(events) :
                                    i < j /\ events[j].ch = d => m < events[j].n
          BY <1>1, <1>t DEF EventsOrder
        <5> DEFINE d == events[i].ch
                   m == events[i].n
        <5>1. /\ m \in Wanted /\ last[d] < m /\ m <= seen[d]
              /\ EventIn(hand[d]) > 0 => m < hand[d].ev
              /\ d = Normal("receive") =>
                   \A j \in 1 .. Len(buffered) : EventIn(buffered[j]) > 0 => m < buffered[j].ev
              /\ \A j \in 1 .. Len(events) : i < j /\ events[j].ch = d => m < events[j].n
          BY DEF PipeInv, EventsOrder
        <5>2. d \in Chan
          BY <1>t, StageTypes
        <5>3. EventIn(hand'[d]) > 0 => m < hand'[d].ev
          BY <2>1, <3>1, <5>1, <5>2
        <5> QED BY <1>1, <3>1, <3>2, <5>1, <5>3
      <4>3. \A i \in 1 .. Len(buffered') : Between(Normal("receive"), buffered[i])'
        BY <1>1, <1>t, <3>1, <3>2 DEF PipeInv, Between
      <4> QED BY <1>1, <1>t, <4>1, <4>2, <4>3 DEF PipeInv
    <3>4. ASSUME NEW d \in Chan PROVE Keeps(d)
      <4>1. CASE d # c
        <5>1. \A e : e \in PipeOf(d)' <=> e \in PipeOf(d)
          BY <1>t, <1>1, <2>1, <3>1, <4>1, InPipe, InPipeNext
        <5> QED BY <1>1, <3>1, <5>1 DEF Keeps
      <4>2. CASE d = c
        <5>1. \A e : (\E i \in 1 .. Len(buffered) : EventIn(buffered[i]) = e)
                     <=> EventIn(f) = e \/ \E i \in 1 .. Len(buffered') : EventIn(buffered'[i]) = e
          BY <1>b, <2>5, <3>1
        <5>2. \A e : ~(e # 0 /\ EventIn(hand[d]) = e)
          BY <1>2, <4>2
        <5>3. \A e : e \in PipeOf(d)' <=> e \in PipeOf(d)
          <6> SUFFICES ASSUME NEW e PROVE e \in PipeOf(d)' <=> e \in PipeOf(d)
            OBVIOUS
          <6>1. e \in PipeOf(d) <=>
                  \/ \E i \in 1 .. Len(events) : events[i].ch = d /\ events[i].n = e
                  \/ e # 0 /\ \E i \in 1 .. Len(buffered) : EventIn(buffered[i]) = e
            BY <1>t, <3>1, <4>2, <5>2, InPipe
          <6>2. e \in PipeOf(d)' <=>
                  \/ \E i \in 1 .. Len(events) : events[i].ch = d /\ events[i].n = e
                  \/ e # 0 /\ EventIn(f) = e
                  \/ e # 0 /\ \E i \in 1 .. Len(buffered') : EventIn(buffered'[i]) = e
            BY <1>t, <1>1, <2>1, <3>1, <4>2, InPipeNext
          <6> QED BY <5>1, <6>1, <6>2
        <5> QED BY <1>1, <3>1, <5>3 DEF Keeps
      <4> QED BY <4>1, <4>2
    <3> QED BY <3>3, <3>4 DEF Piped, PipeStep
  <2> QED BY <2>f, <2>3, <2>4, <2>5
<1> QED BY <1>4, <1>5
\* What comes before the reply to OPEN is seen and kept.
LEMMA OpenReadsPipe ==
  ASSUME IInv, IInv', PipeInv, OpenReads
  PROVE  Piped
<1> DEFINE f == Head(net[Normal("receive")])
<1>t. TypeOK /\ TypeOK' /\ Normal("receive")' = Normal("receive")
  BY DEF IInv, Normal, OpenReads
<1>r. PICK c \in Chan : c = Normal("receive")
  BY <1>t, StageTypes
<1>1. UNCHANGED <<mode, active, last, events, sent, hand, wpc>>
  BY DEF OpenReads
<1>2. EventIn(hand[c]) = 0
  <2>1. wpc[c] = "done"
    BY DEF OpenReads, IInv, LifeInv
  <2> QED BY <1>t, <2>1, NoneHeld DEF HoldsFrame
<1>n. /\ Len(net[c]) \in Nat /\ Len(net[c]) >= 1 /\ Len(net'[c]) = Len(net[c]) - 1
      /\ \A i \in 1 .. Len(net'[c]) : i + 1 \in 1 .. Len(net[c]) /\ net'[c][i] = net[c][i + 1]
      /\ f = net[c][1] /\ f \in FrameSet /\ 1 \in 1 .. Len(net[c])
      /\ \A d \in Chan \ {c} : net'[d] = net[d]
  <2>1. /\ net[c] \in Seq(FrameSet) /\ net[c] # <<>> /\ net'[c] = Tail(net[c])
        /\ \A d \in Chan \ {c} : net'[d] = net[d]
    BY <1>r, <1>t DEF OpenReads, TypeOK, NetOK
  <2>2. /\ Len(net[c]) \in Nat /\ Len(net[c]) >= 1 /\ Len(net'[c]) = Len(net[c]) - 1
        /\ \A i \in 1 .. Len(net[c]) - 1 : net'[c][i] = net[c][i + 1]
        /\ f = net[c][1] /\ f \in FrameSet
    BY <1>r, <2>1, Popped
  <2>3. \A i \in 1 .. Len(net'[c]) : i + 1 \in 1 .. Len(net[c]) /\ i \in 1 .. Len(net[c]) - 1
    BY <2>2
  <2> QED BY <2>1, <2>2, <2>3
<1>b. \/ UNCHANGED <<buffered, seen>>
      \/ buffered' = Append(buffered, f) /\ Seen(c, f)
  BY <1>r DEF OpenReads
<1> HIDE DEF f
<1>f. /\ EventIn(f) \in Nat /\ f.ev \in Nat
      /\ EventIn(f) = 0 \/ (EventIn(f) > 0 /\ EventIn(f) = f.ev)
  BY <1>n, EventInType
<1>3. NetGoesOn
  <2>1. ASSUME NEW d \in Chan PROVE sent[d] <= sent'[d]
    BY <1>1, <1>t, StageTypes
  <2>2. ASSUME NEW d \in Chan, NEW i \in 1 .. Len(net'[d])
        PROVE  \E j \in 1 .. Len(net[d]) : net'[d][i] = net[d][j]
    BY <1>n
  <2> QED BY <2>1, <2>2 DEF NetGoesOn
<1>4. CASE UNCHANGED <<buffered, seen>>
  <2>1. \A d \in Chan : HandGoesOn(d)
    BY <1>1 DEF HandGoesOn
  <2> QED BY <1>1, <1>3, <1>4, <1>t, <2>1, KeepsFrame
<1>5. CASE buffered' = Append(buffered, f) /\ Seen(c, f)
  <2>1. /\ Len(buffered) \in Nat /\ Len(buffered') = Len(buffered) + 1
        /\ \A i \in 1 .. Len(buffered) : buffered'[i] = buffered[i]
        /\ buffered'[Len(buffered) + 1] = f
    <3>1. buffered \in Seq(FrameSet)
      BY <1>t DEF TypeOK, WorkersOK
    <3> QED BY <1>5, <1>n, <3>1, Appended
  <2>2. \A i \in 1 .. Len(buffered') : i \in 1 .. Len(buffered) \/ i = Len(buffered) + 1
    BY <2>1
  <2>3. {seen[c], last[c], sent[c]} \subseteq Nat /\ last[c] <= seen[c] /\ seen[c] <= sent[c]
    BY <1>t, StageTypes DEF PipeInv, HandOrder
  <2>4. EventIn(f) > 0 => seen[c] < f.ev /\ f.ev <= sent[c]
    BY <1>f, <1>n DEF PipeInv, HandOrder, IInv, OrderInv
  <2>5. /\ seen[c] <= seen'[c] /\ seen'[c] <= sent[c] /\ seen'[c] \in Nat
        /\ EventIn(f) > 0 => seen'[c] = f.ev
        /\ EventIn(f) = 0 => seen'[c] = seen[c]
        /\ \A d \in Chan \ {c} : seen'[d] = seen[d]
    <3>1. IF EventIn(f) > 0 THEN seen'[c] = f.ev ELSE seen'[c] = seen[c]
      BY <1>5, <1>t DEF Seen, TypeOK, HistoryOK
    <3>2. \A d \in Chan \ {c} : seen'[d] = seen[d]
      BY <1>5, <1>t DEF Seen, TypeOK, HistoryOK
    <3> QED BY <1>f, <2>3, <2>4, <3>1, <3>2
  <2>6. \A i \in 1 .. Len(net'[c]) : EventIn(net'[c][i]) > 0 =>
          seen'[c] < net'[c][i].ev
    <3> SUFFICES ASSUME NEW i \in 1 .. Len(net'[c]), EventIn(net'[c][i]) > 0
                 PROVE  seen'[c] < net'[c][i].ev
      OBVIOUS
    <3>1. i + 1 \in 1 .. Len(net[c]) /\ net'[c][i] = net[c][i + 1] /\ 1 \in 1 .. (i + 1) - 1
      BY <1>n
    <3>2. f.ev < net'[c][i].ev
      BY <1>n, <3>1 DEF IInv, OrderInv, Before
    <3>3. seen[c] < net'[c][i].ev
      BY <3>1 DEF PipeInv, HandOrder
    <3> QED BY <1>f, <2>5, <3>2, <3>3
  <2>7. PipeInv'
    <3>1. HandOrder'
      <4>1. ASSUME NEW d \in Chan
            PROVE  /\ last'[d] <= seen'[d] /\ seen'[d] <= sent'[d]
                   /\ Between(d, hand[d])'
                   /\ EventIn(hand'[d]) > 0 => wpc'[d] \in HoldsFrame
                   /\ wpc'[d] = "call" =>
                        EventIn(hand'[d]) > 0 /\ hand'[d].ev \in Wanted /\ active'
                   /\ \A i \in 1 .. Len(net'[d]) :
                        EventIn(net'[d][i]) > 0 => seen'[d] < net'[d][i].ev
        <5>1. CASE d = c
          <6>1. last'[d] <= seen'[d] /\ seen'[d] <= sent'[d]
            BY <1>1, <2>3, <2>5, <5>1
          <6>2. EventIn(hand'[d]) = 0
            BY <1>1, <1>2, <5>1
          <6>3. wpc'[d] # "call"
            BY <1>1, <6>2 DEF PipeInv, HandOrder
          <6> QED BY <2>6, <5>1, <6>1, <6>2, <6>3 DEF Between
        <5>2. CASE d # c
          BY <1>1, <1>n, <2>5, <5>2 DEF PipeInv, HandOrder, Between
        <5> QED BY <5>1, <5>2
      <4> QED BY <4>1 DEF HandOrder
    <3>2. EventsOrder'
      <4> SUFFICES ASSUME NEW i \in 1 .. Len(events)
                   PROVE  LET d == events[i].ch
                              m == events[i].n
                          IN /\ m \in Wanted /\ last'[d] < m /\ m <= seen'[d]
                             /\ EventIn(hand'[d]) > 0 => m < hand'[d].ev
                             /\ d = Normal("receive") =>
                                  \A j \in 1 .. Len(buffered') :
                                    EventIn(buffered'[j]) > 0 => m < buffered'[j].ev
                             /\ \A j \in 1 .. Len(events) :
                                  i < j /\ events[j].ch = d => m < events[j].n
        BY <1>1, <1>t DEF EventsOrder
      <4> DEFINE d == events[i].ch
                 m == events[i].n
      <4>1. /\ m \in Wanted /\ last[d] < m /\ m <= seen[d]
            /\ EventIn(hand[d]) > 0 => m < hand[d].ev
            /\ d = Normal("receive") =>
                 \A j \in 1 .. Len(buffered) : EventIn(buffered[j]) > 0 => m < buffered[j].ev
            /\ \A j \in 1 .. Len(events) : i < j /\ events[j].ch = d => m < events[j].n
        BY DEF PipeInv, EventsOrder
      <4>2. d \in Chan /\ m \in Nat
        BY <1>t, StageTypes
      <4> HIDE DEF d, m
      <4>3. m <= seen'[d]
        <5>1. CASE d = c
          BY <2>3, <2>5, <4>1, <4>2, <5>1
        <5>2. CASE d # c
          BY <2>5, <4>1, <4>2, <5>2
        <5> QED BY <5>1, <5>2
      <4>4. d = Normal("receive") =>
              \A j \in 1 .. Len(buffered') : EventIn(buffered'[j]) > 0 => m < buffered'[j].ev
        <5> SUFFICES ASSUME d = c, NEW j \in 1 .. Len(buffered'), EventIn(buffered'[j]) > 0
                     PROVE  m < buffered'[j].ev
          BY <1>r
        <5>1. CASE j \in 1 .. Len(buffered)
          BY <1>r, <2>1, <4>1, <5>1
        <5>2. CASE j = Len(buffered) + 1
          <6>1. buffered'[j] = f /\ m <= seen[c] /\ seen[c] < f.ev
            BY <2>1, <2>4, <4>1, <5>2
          <6> QED BY <1>f, <2>3, <4>2, <6>1
        <5> QED BY <2>2, <5>1, <5>2
      <4>5. /\ m \in Wanted /\ last'[d] < m
            /\ EventIn(hand'[d]) > 0 => m < hand'[d].ev
            /\ \A j \in 1 .. Len(events) : i < j /\ events[j].ch = d => m < events[j].n
        BY <1>1, <4>1
      <4> QED BY <4>3, <4>4, <4>5 DEF d, m
    <3>3. \A i \in 1 .. Len(buffered') : Between(Normal("receive"), buffered[i])'
      <4> SUFFICES ASSUME NEW i \in 1 .. Len(buffered'), EventIn(buffered'[i]) > 0
                   PROVE  last'[c] < buffered'[i].ev /\ buffered'[i].ev <= seen'[c]
        BY <1>r, <1>t DEF Between
      <4>1. CASE i \in 1 .. Len(buffered)
        <5>1. last[c] < buffered[i].ev /\ buffered[i].ev <= seen[c] /\ buffered'[i] = buffered[i]
          BY <1>r, <2>1, <4>1 DEF PipeInv, Between
        <5>2. buffered[i].ev \in Nat
          BY <1>t, <4>1, StageTypes, EventInType
        <5> QED BY <1>1, <2>3, <2>5, <5>1, <5>2
      <4>2. CASE i = Len(buffered) + 1
        BY <1>1, <1>f, <2>1, <2>3, <2>4, <2>5, <4>2
      <4> QED BY <2>2, <4>1, <4>2
    <3> QED BY <1>1, <1>t, <3>1, <3>2, <3>3 DEF PipeInv
  <2>8. \A d \in Chan \ {c} : Keeps(d)
    <3> SUFFICES ASSUME NEW d \in Chan \ {c} PROVE Keeps(d)
      OBVIOUS
    <3>1. \A e : e \in PipeOf(d)' <=> e \in PipeOf(d)
      BY <1>t, <1>r, <1>1, InPipe, InPipeNext
    <3> QED BY <1>1, <2>5, <3>1 DEF Keeps
  <2>9. \A e : e \in PipeOf(c)' <=> e \in PipeOf(c) \/ (e # 0 /\ EventIn(f) = e)
    <3>1. \A e : (\E i \in 1 .. Len(buffered') : EventIn(buffered'[i]) = e)
                 <=> EventIn(f) = e \/ \E i \in 1 .. Len(buffered) : EventIn(buffered[i]) = e
      <4>1. Len(buffered) + 1 \in 1 .. Len(buffered')
            /\ \A i \in 1 .. Len(buffered) : i \in 1 .. Len(buffered')
        BY <2>1
      <4> QED BY <2>1, <2>2, <4>1
    <3> QED BY <1>t, <1>r, <1>1, <3>1, InPipe, InPipeNext
  <2>10. CASE EventIn(f) = 0
    <3>1. Keeps(c)
      BY <1>1, <2>5, <2>9, <2>10 DEF Keeps
    <3> QED BY <2>7, <2>8, <3>1 DEF Piped, PipeStep
  <2>11. CASE EventIn(f) > 0
    <3>1. Enters(c)
      <4>1. EventIn(f) = f.ev /\ f.ev # 0 /\ seen'[c] = f.ev
        BY <1>f, <2>5, <2>11
      <4>2. PipeOf(c)' = PipeOf(c) \cup {seen'[c]}
        BY <2>9, <4>1
      <4>3. seen'[c] > seen[c]
        BY <1>f, <2>3, <2>4, <2>11, <4>1
      <4> QED BY <1>1, <4>2, <4>3 DEF Enters
    <3> QED BY <2>7, <2>8, <3>1 DEF Piped, PipeStep
  <2> QED BY <1>f, <2>10, <2>11
<1> QED BY <1>4, <1>5, <1>b

\* At first there is nothing in the pipes.
LEMMA InitPipe == Init => PipeInv /\ SpawnInv /\ \A c \in Chan : PipeOf(c) = {}
<1> SUFFICES ASSUME Init PROVE PipeInv /\ SpawnInv /\ \A c \in Chan : PipeOf(c) = {}
  OBVIOUS
<1>1. TypeOK /\ events = <<>> /\ buffered = <<>>
  BY InitIInv DEF IInv, Init
<1>2. \A c \in Chan : EventIn(hand[c]) = 0
  BY NoFrameBrings DEF Init
<1>3. HandOrder
  BY <1>2 DEF Init, HandOrder, Between
<1>4. EventsOrder /\ \A i \in 1 .. Len(buffered) : Between(Normal("receive"), buffered[i])
  BY <1>1 DEF EventsOrder
<1>5. SpawnInv
  BY DEF Init, SpawnInv
<1>6. ASSUME NEW c \in Chan PROVE PipeOf(c) = {}
  <2>1. \A e : e \notin PipeOf(c)
    BY <1>1, <1>2, InPipe
  <2> QED BY <2>1
<1> QED BY <1>1, <1>3, <1>4, <1>5, <1>6 DEF PipeInv

\* Every step is a step of the pipes, or none.
LEMMA NextPipe == IInv /\ IInv' /\ ReplyInv /\ SpawnInv /\ PipeInv /\ [Next]_vars => Piped
<1> SUFFICES ASSUME IInv, IInv', ReplyInv, SpawnInv, PipeInv, [Next]_vars PROVE Piped
  OBVIOUS
<1>t. TypeOK
  BY DEF IInv
<1>1. ASSUME NEW c \in Chan, ServerEvent(c) \/ ServerReplies(c) \/ ConnectionLost(c) PROVE Piped
  BY <1>1, ServerPipe
<1>2. CASE Expire
  BY <1>t, <1>2, NetStays, Aside DEF Expire
<1>3. ASSUME NEW c \in Chan, Worker(c) PROVE Piped
  BY <1>3, WorkerGoesOn, WorkerReadsPipe, ProcessControlReplyPipe, DispatchPipe,
    CallbackBeginsPipe DEF Worker
<1>4. CASE Connect \/ Disconnect \/ InOwnerCall
  BY <1>4, OwnerPipe, OpenReadsPipe DEF InOwnerCall
<1>5. ASSUME NEW t \in Threads, Begins(t) PROVE Piped
  BY <1>5, BeginsAside, ReceiveTakes DEF Begins
<1>6. ASSUME NEW t \in Threads, InCall(t) PROVE Piped
  BY <1>6, CallsAside
<1>7. CASE UNCHANGED vars
  BY <1>t, <1>7, NetStays, Aside DEF vars
<1> QED BY <1>1, <1>2, <1>3, <1>4, <1>5, <1>6, <1>7 DEF Next, Server

\* A step of a pipe is one that EventPipe allows.
LEMMA StepIsNext ==
  ASSUME \A c \in Chan : PipeStep(c)
  PROVE  SendPipe!Next /\ ReceivePipe!Next
<1>1. PipeStep("send") /\ PipeStep("receive")
  BY DEF Chan
<1>2. SendPipe!Next
  BY <1>1 DEF PipeStep, Enters, Leaves, Rejects, Discards, Keeps, SendPipe!Next, SendPipe!Arrive,
    SendPipe!HandOver, SendPipe!Reject, SendPipe!Discard, SendPipe!Excuse
<1>3. ReceivePipe!Next
  BY <1>1 DEF PipeStep, Enters, Leaves, Rejects, Discards, Keeps, ReceivePipe!Next,
    ReceivePipe!Arrive, ReceivePipe!HandOver, ReceivePipe!Reject, ReceivePipe!Discard,
    ReceivePipe!Excuse
<1> QED BY <1>2, <1>3

\* In every state that can be reached an event is behind the ones of its
\* connection that came before it, wherever they are.
THEOREM BinaryOrder == Spec => [](PipeInv /\ SpawnInv)
<1>1. Init => PipeInv /\ SpawnInv
  BY InitPipe
<1>2. IInv /\ IInv' /\ ReplyInv /\ PipeInv /\ SpawnInv /\ [Next]_vars => PipeInv' /\ SpawnInv'
  BY NextPipe, NextSpawnInv DEF Piped
<1> QED BY <1>1, <1>2, BinaryInvariant, BinaryReplies, PTL DEF Spec

\* The events read from either connection are handed over once, in the order
\* in which they came, and none is lost without an excuse, whichever of the
\* queue, the callback and the replies to polls and OPEN they go through.
THEOREM BinaryIsPipe == Spec => ImplementsPipe
<1>1. Init => SendPipe!Init /\ ReceivePipe!Init
  <2> SUFFICES ASSUME Init PROVE SendPipe!Init /\ ReceivePipe!Init
    OBVIOUS
  <2>1. PipeOf("send") = {} /\ PipeOf("receive") = {}
    BY InitPipe DEF Chan
  <2>2. /\ seen["send"] = 0 /\ last["send"] = 0 /\ seen["receive"] = 0 /\ last["receive"] = 0
        /\ Excused = TRUE
    BY DEF Init, Excused, Chan
  <2> QED BY <2>1, <2>2 DEF SendPipe!Init, ReceivePipe!Init
<1>2. IInv /\ IInv' /\ ReplyInv /\ PipeInv /\ SpawnInv /\ [Next]_vars
        => SendPipe!Next /\ ReceivePipe!Next
  BY NextPipe, StepIsNext DEF Piped
<1> QED BY <1>1, <1>2, BinaryInvariant, BinaryReplies, BinaryOrder, PTL
      DEF Spec, ImplementsPipe, SendPipe!Spec, ReceivePipe!Spec
=============================================================================

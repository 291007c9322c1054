------------------------ MODULE SingleChannelProofs ------------------------
(***************************************************************************)
(* The safety properties of the single-channel text mode hold for any      *)
(* number of application threads, calls, events and invalid lines.  Each   *)
(* lemma shows that a step preserves IInv, one part of the invariant at a  *)
(* time.                                                                   *)
(***************************************************************************)
EXTENDS SingleChannel, TLAPS

USE SingleChannelAssumption
USE DEF Threads, serverVars, readerVars, commandVars, stateVars, lockVars, ifVars,
        dispatchVars, workerVars, clientVars, historyVars, upperVars, clientSide, readerKeeps,
        workerKeeps, Goto, NoLine, Line

\* A sequence of small numbers is one of larger numbers.
LEMMA SeqWidens == ASSUME NEW m \in Nat, NEW s \in Seq(1 .. m) PROVE s \in Seq(1 .. m + 1)
  OBVIOUS

\* What Append does to a sequence.
LEMMA Appended ==
  ASSUME NEW S, NEW s \in Seq(S), NEW e \in S, NEW r, r = Append(s, e)
  PROVE  /\ r \in Seq(S) /\ Len(s) \in Nat /\ Len(r) = Len(s) + 1
         /\ \A i \in 1 .. Len(s) : r[i] = s[i]
         /\ r[Len(s) + 1] = e
OBVIOUS

\* What taking the head does to a sequence.
LEMMA Popped ==
  ASSUME NEW S, NEW s \in Seq(S), s # <<>>, NEW r, r = Tail(s)
  PROVE  /\ r \in Seq(S) /\ Len(s) \in Nat /\ Len(s) >= 1 /\ Len(r) = Len(s) - 1
         /\ \A i \in 1 .. Len(s) - 1 : r[i] = s[i + 1]
         /\ Head(s) = s[1] /\ Head(s) \in S
OBVIOUS

\* What taking the head does to a sequence of numbers.
LEMMA NumberPopped ==
  ASSUME NEW m, NEW s \in Seq(1 .. m), s # <<>>, NEW r, r = Tail(s)
  PROVE  /\ r \in Seq(1 .. m) /\ Len(s) \in Nat /\ Len(s) >= 1 /\ Len(r) = Len(s) - 1
         /\ \A i \in 1 .. Len(s) - 1 : r[i] = s[i + 1]
         /\ Head(s) = s[1] /\ Head(s) \in 1 .. m
<1> DEFINE S == 1 .. m
<1>1. s \in Seq(S)
  OBVIOUS
<1> HIDE DEF S
<1>2. /\ r \in Seq(S) /\ Len(s) \in Nat /\ Len(s) >= 1 /\ Len(r) = Len(s) - 1
      /\ \A i \in 1 .. Len(s) - 1 : r[i] = s[i + 1]
      /\ Head(s) = s[1] /\ Head(s) \in S
  BY <1>1, Popped
<1> QED BY <1>2 DEF S

\* What Append does to a sequence of numbers.
LEMMA NumberAppended ==
  ASSUME NEW m \in Nat, NEW s \in Seq(1 .. m), NEW e \in 1 .. m, NEW r, r = Append(s, e)
  PROVE  /\ r \in Seq(1 .. m) /\ Len(s) \in Nat /\ Len(r) = Len(s) + 1
         /\ \A i \in 1 .. Len(s) : r[i] = s[i]
         /\ r[Len(s) + 1] = e
<1> DEFINE S == 1 .. m
<1>1. s \in Seq(S) /\ e \in S
  OBVIOUS
<1> HIDE DEF S
<1>2. /\ r \in Seq(S) /\ Len(s) \in Nat /\ Len(r) = Len(s) + 1
      /\ \A i \in 1 .. Len(s) : r[i] = s[i]
      /\ r[Len(s) + 1] = e
  BY <1>1, Appended
<1> QED BY <1>2 DEF S

\* The server and the reader leave the threads alone.
LEMMA ThreadFrame ==
  ASSUME LockInv, DispatchInv, RunInv, UNCHANGED <<pc, cmd, op, dispatch, pause, wpc, running, worker>>
  PROVE  LockInv' /\ DispatchInv' /\ RunInv'
BY DEF LockInv, DispatchInv, RunInv

\* The worker leaves the connection alone, but for the queue of events.
LEMMA ConnectionFrame ==
  ASSUME LockInv, ReaderInv, PendingInv, FlightInv, ReplyIsOwn, OrderInv,
         UNCHANGED <<serverVars, readerVars, commandVars, transport, loop, joinable, stop, failed,
                     lockVars, pc, barrier>>
  PROVE  LockInv' /\ ReaderInv' /\ PendingInv' /\ FlightInv' /\ ReplyIsOwn' /\ OrderInv'
<1>1. LockInv' /\ ReaderInv' /\ PendingInv' /\ ReplyIsOwn'
  BY DEF LockInv, ReaderInv, PendingInv, ReplyIsOwn
<1>2. FlightInv'
  BY DEF FlightInv, NoReplyComes, OneReplyComes, Live, IsReply
<1>3. OrderInv'
  BY DEF OrderInv
<1> QED BY <1>1, <1>2, <1>3

\* The server sends an event: it is newer than all before it.
LEMMA ServerEventIInv ==
  ASSUME IInv, ServerEvent, UNCHANGED upperVars
  PROVE  IInv'
<1>s. fromServer \in Seq(Lines) /\ Line("event", sent + 1) \in Lines
      /\ fromServer' = Append(fromServer, Line("event", sent + 1))
  BY DEF IInv, TypeOK, IfTypeOK, Lines, ServerEvent
<1>a. /\ fromServer' \in Seq(Lines)
      /\ Len(fromServer) \in Nat /\ Len(fromServer') = Len(fromServer) + 1
      /\ \A i \in 1 .. Len(fromServer) : fromServer'[i] = fromServer[i]
      /\ fromServer'[Len(fromServer) + 1] = Line("event", sent + 1)
  BY <1>s, Appended
<1>b. UNCHANGED <<toServer, rline, issued>>
  BY DEF ServerEvent
<1>1. FlagsOK'
  BY DEF IInv, TypeOK, FlagsOK, ServerEvent
<1>2. LockInv' /\ DispatchInv' /\ RunInv'
  BY ThreadFrame DEF IInv, ServerEvent
<1>3. TypeOK'
  <2>1. pc' \in [Threads -> Places] /\ wpc' \in WorkerPlaces
    BY DEF IInv, TypeOK, Places, WorkerPlaces, ServerEvent
  <2>2. IfTypeOK'
    <3>1. eventQueue \in Seq(1 .. sent + 1)
      BY SeqWidens DEF IInv, TypeOK, IfTypeOK
    <3> QED BY <1>a, <3>1 DEF IInv, TypeOK, IfTypeOK, ServerEvent
  <2>3. calls' \in [Threads -> Nat] /\ \A u \in Threads : calls'[u] <= MaxCalls[u]
    BY DEF IInv, TypeOK, ServerEvent
  <2>4. /\ hand' \in 0 .. sent' /\ last' \in 0 .. sent' /\ barrier' \in 0 .. sent'
        /\ events' \in Seq(1 .. sent') /\ dispatch' \in Threads \cup {None}
    <3>1. events \in Seq(1 .. sent + 1)
      BY SeqWidens DEF IInv, TypeOK, IfTypeOK
    <3> QED BY <3>1 DEF IInv, TypeOK, IfTypeOK, ServerEvent
  <2> QED BY <1>1, <2>1, <2>2, <2>3, <2>4 DEF TypeOK
<1>4. ReaderInv'
  BY DEF IInv, TypeOK, IfTypeOK, ReaderInv, ServerEvent
<1>5. ClosedInv'
  BY DEF IInv, TypeOK, IfTypeOK, ClosedInv, Closed, LockInv, RunInv, ReaderInv, CommandPlaces,
    ClearPlaces, ClosePlaces, OwnerPlaces, ServerEvent
<1>6. PendingInv'
  BY DEF IInv, TypeOK, IfTypeOK, PendingInv, LockInv, ReaderInv, CommandPlaces, ClearPlaces,
    ClosePlaces, OwnerPlaces, ServerEvent
<1>7. FlightInv'
  <2>1. OneReplyComes => OneReplyComes'
    <3>1. ~IsReply(fromServer'[Len(fromServer) + 1])
      BY <1>a DEF IsReply
    <3>2. \A i \in 1 .. Len(fromServer') : i \in 1 .. Len(fromServer) \/ i = Len(fromServer) + 1
      BY <1>a
    <3>3. \A i \in 1 .. Len(fromServer') :
            IsReply(fromServer'[i]) => i \in 1 .. Len(fromServer) /\ fromServer'[i] = fromServer[i]
      BY <1>a, <3>1, <3>2
    <3> QED BY <1>b, <3>3 DEF OneReplyComes
  <2>2. NoReplyComes => NoReplyComes'
    BY <1>a, <1>b DEF NoReplyComes, IsReply
  <2>3. UNCHANGED <<pending, pc, Live>>
    BY DEF ServerEvent, Live
  <2> QED BY <2>1, <2>2, <2>3 DEF IInv, FlightInv
<1>8. ReplyIsOwn'
  BY DEF IInv, TypeOK, IfTypeOK, ReplyIsOwn, FlightInv, PendingInv, LockInv, IsReply, NoReplyComes,
    OneReplyComes, CommandPlaces, ClearPlaces, ClosePlaces, OwnerPlaces, ServerEvent
<1>9. OrderInv'
  <2>1. /\ UNCHANGED <<seen, acked, barrier, rline>> /\ seen \in Nat /\ sent \in Nat /\ sent' \in Nat
        /\ sent <= sent' /\ seen <= sent
    BY DEF IInv, TypeOK, IfTypeOK, ServerEvent
  <2>2. \A i \in 1 .. Len(fromServer) : fromServer[i].n \in Nat
    <3>1. \A i \in 1 .. Len(fromServer) : fromServer[i] \in Lines
      BY <1>s
    <3> QED BY <3>1 DEF Lines
  <2>3. \A i \in 1 .. Len(fromServer') : i \in 1 .. Len(fromServer) \/ i = Len(fromServer) + 1
    BY <1>a
  <2>4. ASSUME NEW i \in 1 .. Len(fromServer'), fromServer'[i].kind = "event"
        PROVE  /\ fromServer'[i].n \in seen + 1 .. sent'
               /\ \A j \in 1 .. i - 1 : fromServer'[j].kind = "event" => fromServer'[j].n < fromServer'[i].n
    <3>1. CASE i \in 1 .. Len(fromServer)
      <4>1. fromServer'[i] = fromServer[i] /\ \A j \in 1 .. i - 1 : j \in 1 .. Len(fromServer)
        BY <1>a, <3>1
      <4>2. /\ fromServer[i].n \in seen + 1 .. sent
            /\ \A j \in 1 .. i - 1 : fromServer[j].kind = "event" => fromServer[j].n < fromServer[i].n
        BY <2>4, <3>1, <4>1 DEF IInv, OrderInv
      <4>3. fromServer'[i].n \in seen + 1 .. sent'
        BY <2>1, <4>1, <4>2
      <4>4. \A j \in 1 .. i - 1 : fromServer'[j] = fromServer[j]
        BY <1>a, <4>1
      <4> QED BY <4>1, <4>2, <4>3, <4>4
    <3>2. CASE i = Len(fromServer) + 1
      BY <1>a, <2>1, <2>2, <3>2 DEF IInv, OrderInv, ServerEvent
    <3> QED BY <2>3, <3>1, <3>2
  <2>5. ASSUME rline.kind = "event"
        PROVE  /\ rline.n \in seen + 1 .. sent'
               /\ \A i \in 1 .. Len(fromServer') : fromServer'[i].kind = "event" => rline.n < fromServer'[i].n
    <3>1. rline.n \in seen + 1 .. sent
      BY <2>5 DEF IInv, OrderInv
    <3>2. ASSUME NEW i \in 1 .. Len(fromServer'), fromServer'[i].kind = "event"
          PROVE  rline.n < fromServer'[i].n
      <4>1. CASE i \in 1 .. Len(fromServer)
        BY <1>a, <2>5, <3>2, <4>1 DEF IInv, OrderInv
      <4>2. CASE i = Len(fromServer) + 1
        BY <1>a, <2>1, <3>1, <3>2, <4>2 DEF ServerEvent
      <4> QED BY <2>3, <4>1, <4>2
    <3> QED BY <2>1, <3>1, <3>2
  <2> QED BY <2>1, <2>4, <2>5 DEF IInv, OrderInv
<1>10. ClearInv'
  BY DEF IInv, TypeOK, IfTypeOK, ClearInv, DispatchInv, LockInv, WorkerHolds, OrderInv,
    CommandPlaces, ClearPlaces, ClosePlaces, OwnerPlaces, ServerEvent
<1> QED BY <1>2, <1>3, <1>4, <1>5, <1>6, <1>7, <1>8, <1>9, <1>10 DEF IInv

\* The server sends an invalid line.
LEMMA ServerBadLineIInv ==
  ASSUME IInv, ServerBadLine, UNCHANGED upperVars
  PROVE  IInv'
<1>s. fromServer \in Seq(Lines) /\ Line("bad", 0) \in Lines
      /\ fromServer' = Append(fromServer, Line("bad", 0))
  BY DEF IInv, TypeOK, IfTypeOK, Lines, ServerBadLine
<1>a. /\ fromServer' \in Seq(Lines)
      /\ Len(fromServer) \in Nat /\ Len(fromServer') = Len(fromServer) + 1
      /\ \A i \in 1 .. Len(fromServer) : fromServer'[i] = fromServer[i]
      /\ fromServer'[Len(fromServer) + 1] = Line("bad", 0)
  BY <1>s, Appended
<1>b. UNCHANGED <<toServer, rline, issued>>
  BY DEF ServerBadLine
<1>1. FlagsOK'
  BY DEF IInv, TypeOK, FlagsOK, ServerBadLine
<1>2. LockInv' /\ DispatchInv' /\ RunInv'
  BY ThreadFrame DEF IInv, ServerBadLine
<1>3. TypeOK'
  <2>1. pc' \in [Threads -> Places] /\ wpc' \in WorkerPlaces
    BY DEF IInv, TypeOK, Places, WorkerPlaces, ServerBadLine
  <2>2. IfTypeOK'
    BY <1>a DEF IInv, TypeOK, IfTypeOK, ServerBadLine
  <2>3. calls' \in [Threads -> Nat] /\ \A u \in Threads : calls'[u] <= MaxCalls[u]
    BY DEF IInv, TypeOK, ServerBadLine
  <2>4. /\ hand' \in 0 .. sent' /\ last' \in 0 .. sent' /\ barrier' \in 0 .. sent'
        /\ events' \in Seq(1 .. sent') /\ dispatch' \in Threads \cup {None}
    BY <1>a DEF IInv, TypeOK, IfTypeOK, ServerBadLine
  <2> QED BY <1>1, <2>1, <2>2, <2>3, <2>4 DEF TypeOK
<1>4. ReaderInv'
  BY DEF IInv, TypeOK, IfTypeOK, ReaderInv, ServerBadLine
<1>5. ClosedInv'
  BY DEF IInv, TypeOK, IfTypeOK, ClosedInv, Closed, LockInv, RunInv, ReaderInv, CommandPlaces,
    ClearPlaces, ClosePlaces, OwnerPlaces, ServerBadLine
<1>6. PendingInv'
  BY DEF IInv, TypeOK, IfTypeOK, PendingInv, LockInv, ReaderInv, CommandPlaces, ClearPlaces,
    ClosePlaces, OwnerPlaces, ServerBadLine
<1>7. FlightInv'
  <2>1. OneReplyComes => OneReplyComes'
    <3>1. ~IsReply(fromServer'[Len(fromServer) + 1])
      BY <1>a DEF IsReply
    <3>2. \A i \in 1 .. Len(fromServer') : i \in 1 .. Len(fromServer) \/ i = Len(fromServer) + 1
      BY <1>a
    <3>3. \A i \in 1 .. Len(fromServer') :
            IsReply(fromServer'[i]) => i \in 1 .. Len(fromServer) /\ fromServer'[i] = fromServer[i]
      BY <1>a, <3>1, <3>2
    <3> QED BY <1>b, <3>3 DEF OneReplyComes
  <2>2. NoReplyComes => NoReplyComes'
    BY <1>a, <1>b DEF NoReplyComes, IsReply
  <2>3. UNCHANGED <<pending, pc, Live>>
    BY DEF ServerBadLine, Live
  <2> QED BY <2>1, <2>2, <2>3 DEF IInv, FlightInv
<1>8. ReplyIsOwn'
  BY DEF IInv, TypeOK, IfTypeOK, ReplyIsOwn, FlightInv, PendingInv, LockInv, IsReply, NoReplyComes,
    OneReplyComes, CommandPlaces, ClearPlaces, ClosePlaces, OwnerPlaces, ServerBadLine
<1>9. OrderInv'
  <2>1. /\ UNCHANGED <<seen, acked, barrier, rline>> /\ seen \in Nat /\ sent \in Nat /\ sent' \in Nat
        /\ sent <= sent' /\ seen <= sent
    BY DEF IInv, TypeOK, IfTypeOK, ServerBadLine
  <2>2. \A i \in 1 .. Len(fromServer) : fromServer[i].n \in Nat
    <3>1. \A i \in 1 .. Len(fromServer) : fromServer[i] \in Lines
      BY <1>s
    <3> QED BY <3>1 DEF Lines
  <2>3. \A i \in 1 .. Len(fromServer') : i \in 1 .. Len(fromServer) \/ i = Len(fromServer) + 1
    BY <1>a
  <2>4. ASSUME NEW i \in 1 .. Len(fromServer'), fromServer'[i].kind = "event"
        PROVE  /\ fromServer'[i].n \in seen + 1 .. sent'
               /\ \A j \in 1 .. i - 1 : fromServer'[j].kind = "event" => fromServer'[j].n < fromServer'[i].n
    <3>1. CASE i \in 1 .. Len(fromServer)
      <4>1. fromServer'[i] = fromServer[i] /\ \A j \in 1 .. i - 1 : j \in 1 .. Len(fromServer)
        BY <1>a, <3>1
      <4>2. /\ fromServer[i].n \in seen + 1 .. sent
            /\ \A j \in 1 .. i - 1 : fromServer[j].kind = "event" => fromServer[j].n < fromServer[i].n
        BY <2>4, <3>1, <4>1 DEF IInv, OrderInv
      <4>3. fromServer'[i].n \in seen + 1 .. sent'
        BY <2>1, <4>1, <4>2
      <4>4. \A j \in 1 .. i - 1 : fromServer'[j] = fromServer[j]
        BY <1>a, <4>1
      <4> QED BY <4>1, <4>2, <4>3, <4>4
    <3>2. CASE i = Len(fromServer) + 1
      BY <1>a, <2>4, <3>2
    <3> QED BY <2>3, <3>1, <3>2
  <2>5. ASSUME rline.kind = "event"
        PROVE  /\ rline.n \in seen + 1 .. sent'
               /\ \A i \in 1 .. Len(fromServer') : fromServer'[i].kind = "event" => rline.n < fromServer'[i].n
    <3>1. rline.n \in seen + 1 .. sent
      BY <2>5 DEF IInv, OrderInv
    <3>2. ASSUME NEW i \in 1 .. Len(fromServer'), fromServer'[i].kind = "event"
          PROVE  rline.n < fromServer'[i].n
      <4>1. CASE i \in 1 .. Len(fromServer)
        BY <1>a, <2>5, <3>2, <4>1 DEF IInv, OrderInv
      <4>2. CASE i = Len(fromServer) + 1
        BY <1>a, <2>1, <3>1, <3>2, <4>2 
      <4> QED BY <2>3, <4>1, <4>2
    <3> QED BY <2>1, <3>1, <3>2
  <2> QED BY <2>1, <2>4, <2>5 DEF IInv, OrderInv
<1>10. ClearInv'
  BY DEF IInv, TypeOK, IfTypeOK, ClearInv, DispatchInv, LockInv, WorkerHolds, OrderInv,
    CommandPlaces, ClearPlaces, ClosePlaces, OwnerPlaces, ServerBadLine
<1> QED BY <1>2, <1>3, <1>4, <1>5, <1>6, <1>7, <1>8, <1>9, <1>10 DEF IInv

\* The server answers the oldest command.
LEMMA ServerReplyIInv ==
  ASSUME IInv, ServerReply, UNCHANGED upperVars
  PROVE  IInv'
<1>t. toServer \in Seq(1 .. issued) /\ toServer # <<>> /\ toServer' = Tail(toServer)
  BY DEF IInv, TypeOK, IfTypeOK, ServerReply
<1>b. /\ toServer' \in Seq(1 .. issued) /\ Len(toServer) \in Nat /\ Len(toServer) >= 1
      /\ Len(toServer') = Len(toServer) - 1 /\ Head(toServer) = toServer[1] /\ Head(toServer) \in 1 .. issued
      /\ \A i \in 1 .. Len(toServer) - 1 : toServer'[i] = toServer[i + 1]
  BY <1>t, NumberPopped
<1>p. PICK k \in {"ok", "error"} : fromServer' = Append(fromServer, Line(k, Head(toServer)))
  BY DEF ServerReply
<1>s. fromServer \in Seq(Lines) /\ Line(k, Head(toServer)) \in Lines
      /\ fromServer' = Append(fromServer, Line(k, Head(toServer)))
  <2>1. fromServer \in Seq(Lines) /\ issued \in Nat
    BY DEF IInv, TypeOK, IfTypeOK
  <2>2. Head(toServer) \in Nat
    BY <1>b, <2>1
  <2> QED BY <1>p, <2>1, <2>2 DEF Lines
<1>a. /\ fromServer' \in Seq(Lines)
      /\ Len(fromServer) \in Nat /\ Len(fromServer') = Len(fromServer) + 1
      /\ \A i \in 1 .. Len(fromServer) : fromServer'[i] = fromServer[i]
      /\ fromServer'[Len(fromServer) + 1] = Line(k, Head(toServer))
  BY <1>s, Appended
<1>r. UNCHANGED <<rline, issued>> /\ issued \in Nat
  BY DEF IInv, TypeOK, IfTypeOK, ServerReply
<1>1. FlagsOK'
  BY DEF IInv, TypeOK, FlagsOK, ServerReply
<1>2. LockInv' /\ DispatchInv' /\ RunInv'
  BY ThreadFrame DEF IInv, ServerReply
<1>3. TypeOK'
  <2>1. pc' \in [Threads -> Places] /\ wpc' \in WorkerPlaces
    BY DEF IInv, TypeOK, Places, WorkerPlaces, ServerReply
  <2>2. IfTypeOK'
    BY <1>a, <1>b DEF IInv, TypeOK, IfTypeOK, ServerReply
  <2>3. calls' \in [Threads -> Nat] /\ \A u \in Threads : calls'[u] <= MaxCalls[u]
    BY DEF IInv, TypeOK, ServerReply
  <2>4. /\ hand' \in 0 .. sent' /\ last' \in 0 .. sent' /\ barrier' \in 0 .. sent'
        /\ events' \in Seq(1 .. sent') /\ dispatch' \in Threads \cup {None}
    BY <1>a, <1>b DEF IInv, TypeOK, IfTypeOK, ServerReply
  <2> QED BY <1>1, <2>1, <2>2, <2>3, <2>4 DEF TypeOK
<1>4. ReaderInv'
  BY DEF IInv, TypeOK, IfTypeOK, ReaderInv, ServerReply
<1>5. ClosedInv'
  BY DEF IInv, TypeOK, IfTypeOK, ClosedInv, Closed, LockInv, RunInv, ReaderInv, CommandPlaces,
    ClearPlaces, ClosePlaces, OwnerPlaces, ServerReply
<1>6. PendingInv'
  BY DEF IInv, TypeOK, IfTypeOK, PendingInv, LockInv, ReaderInv, CommandPlaces, ClearPlaces,
    ClosePlaces, OwnerPlaces, ServerReply
<1>7. FlightInv'
  <2>1. OneReplyComes => OneReplyComes'
    <3> SUFFICES ASSUME OneReplyComes PROVE OneReplyComes'
      OBVIOUS
    <3>1. Len(toServer) = 1 /\ toServer[1] = issued /\ Len(toServer') = 0 /\ toServer' = <<>>
      BY <1>t, <1>b DEF OneReplyComes
    <3>2. toServer # <<>>
      BY <1>t
    <3>3. ~IsReply(rline) /\ \A i \in 1 .. Len(fromServer) : ~IsReply(fromServer[i])
      BY <3>2 DEF OneReplyComes
    <3>4. \A i \in 1 .. Len(fromServer') : i \in 1 .. Len(fromServer) \/ i = Len(fromServer) + 1
      BY <1>a
    <3>5. \A i \in 1 .. Len(fromServer') : IsReply(fromServer'[i]) => i = Len(fromServer) + 1
      BY <1>a, <3>3, <3>4
    <3>6. fromServer'[Len(fromServer) + 1].n = issued
      BY <1>a, <1>b, <3>1
    <3> QED BY <1>r, <3>1, <3>3, <3>5, <3>6 DEF OneReplyComes
  <2>2. ~NoReplyComes
    BY <1>t DEF NoReplyComes
  <2>3. UNCHANGED <<pending, pc, Live>>
    BY DEF ServerReply, Live
  <2> QED BY <2>1, <2>2, <2>3 DEF IInv, FlightInv
<1>8. ReplyIsOwn'
  BY DEF IInv, TypeOK, IfTypeOK, ReplyIsOwn, FlightInv, PendingInv, LockInv, IsReply, NoReplyComes,
    OneReplyComes, CommandPlaces, ClearPlaces, ClosePlaces, OwnerPlaces, ServerReply
<1>9. OrderInv'
  <2>1. /\ UNCHANGED <<seen, acked, barrier, rline>> /\ seen \in Nat /\ sent \in Nat /\ sent' \in Nat
        /\ sent <= sent' /\ seen <= sent
    BY DEF IInv, TypeOK, IfTypeOK, ServerReply
  <2>2. \A i \in 1 .. Len(fromServer) : fromServer[i].n \in Nat
    <3>1. \A i \in 1 .. Len(fromServer) : fromServer[i] \in Lines
      BY <1>s
    <3> QED BY <3>1 DEF Lines
  <2>3. \A i \in 1 .. Len(fromServer') : i \in 1 .. Len(fromServer) \/ i = Len(fromServer) + 1
    BY <1>a
  <2>4. ASSUME NEW i \in 1 .. Len(fromServer'), fromServer'[i].kind = "event"
        PROVE  /\ fromServer'[i].n \in seen + 1 .. sent'
               /\ \A j \in 1 .. i - 1 : fromServer'[j].kind = "event" => fromServer'[j].n < fromServer'[i].n
    <3>1. CASE i \in 1 .. Len(fromServer)
      <4>1. fromServer'[i] = fromServer[i] /\ \A j \in 1 .. i - 1 : j \in 1 .. Len(fromServer)
        BY <1>a, <3>1
      <4>2. /\ fromServer[i].n \in seen + 1 .. sent
            /\ \A j \in 1 .. i - 1 : fromServer[j].kind = "event" => fromServer[j].n < fromServer[i].n
        BY <2>4, <3>1, <4>1 DEF IInv, OrderInv
      <4>3. fromServer'[i].n \in seen + 1 .. sent'
        BY <2>1, <4>1, <4>2
      <4>4. \A j \in 1 .. i - 1 : fromServer'[j] = fromServer[j]
        BY <1>a, <4>1
      <4> QED BY <4>1, <4>2, <4>3, <4>4
    <3>2. CASE i = Len(fromServer) + 1
      BY <1>a, <2>4, <3>2
    <3> QED BY <2>3, <3>1, <3>2
  <2>5. ASSUME rline.kind = "event"
        PROVE  /\ rline.n \in seen + 1 .. sent'
               /\ \A i \in 1 .. Len(fromServer') : fromServer'[i].kind = "event" => rline.n < fromServer'[i].n
    <3>1. rline.n \in seen + 1 .. sent
      BY <2>5 DEF IInv, OrderInv
    <3>2. ASSUME NEW i \in 1 .. Len(fromServer'), fromServer'[i].kind = "event"
          PROVE  rline.n < fromServer'[i].n
      <4>1. CASE i \in 1 .. Len(fromServer)
        BY <1>a, <2>5, <3>2, <4>1 DEF IInv, OrderInv
      <4>2. CASE i = Len(fromServer) + 1
        BY <1>a, <2>1, <3>1, <3>2, <4>2 
      <4> QED BY <2>3, <4>1, <4>2
    <3> QED BY <2>1, <3>1, <3>2
  <2> QED BY <2>1, <2>4, <2>5 DEF IInv, OrderInv
<1>10. ClearInv'
  BY DEF IInv, TypeOK, IfTypeOK, ClearInv, DispatchInv, LockInv, WorkerHolds, OrderInv,
    CommandPlaces, ClearPlaces, ClosePlaces, OwnerPlaces, ServerReply
<1> QED BY <1>2, <1>3, <1>4, <1>5, <1>6, <1>7, <1>8, <1>9, <1>10 DEF IInv

\* The server ignores a command.
LEMMA ServerIgnoresIInv ==
  ASSUME IInv, ServerIgnores, UNCHANGED upperVars
  PROVE  IInv'
<1>s. toServer \in Seq(1 .. issued) /\ toServer # <<>> /\ toServer' = Tail(toServer)
  BY DEF IInv, TypeOK, IfTypeOK, ServerIgnores
<1>a. /\ toServer' \in Seq(1 .. issued) /\ Len(toServer) \in Nat /\ Len(toServer) >= 1
      /\ Len(toServer') = Len(toServer) - 1 /\ Head(toServer) = toServer[1] /\ Head(toServer) \in 1 .. issued
      /\ \A i \in 1 .. Len(toServer) - 1 : toServer'[i] = toServer[i + 1]
  BY <1>s, NumberPopped
<1>b. UNCHANGED <<fromServer, rline, issued>>
  BY DEF ServerIgnores
<1>1. FlagsOK'
  BY DEF IInv, TypeOK, FlagsOK, ServerIgnores
<1>2. LockInv' /\ DispatchInv' /\ RunInv'
  BY ThreadFrame DEF IInv, ServerIgnores
<1>3. TypeOK'
  <2>1. pc' \in [Threads -> Places] /\ wpc' \in WorkerPlaces
    BY DEF IInv, TypeOK, Places, WorkerPlaces, ServerIgnores
  <2>2. IfTypeOK'
    BY <1>a DEF IInv, TypeOK, IfTypeOK, ServerIgnores
  <2>3. calls' \in [Threads -> Nat] /\ \A u \in Threads : calls'[u] <= MaxCalls[u]
    BY DEF IInv, TypeOK, ServerIgnores
  <2>4. /\ hand' \in 0 .. sent' /\ last' \in 0 .. sent' /\ barrier' \in 0 .. sent'
        /\ events' \in Seq(1 .. sent') /\ dispatch' \in Threads \cup {None}
    BY <1>a DEF IInv, TypeOK, IfTypeOK, ServerIgnores
  <2> QED BY <1>1, <2>1, <2>2, <2>3, <2>4 DEF TypeOK
<1>4. ReaderInv'
  BY DEF IInv, TypeOK, IfTypeOK, ReaderInv, ServerIgnores
<1>5. ClosedInv'
  BY DEF IInv, TypeOK, IfTypeOK, ClosedInv, Closed, LockInv, RunInv, ReaderInv, CommandPlaces,
    ClearPlaces, ClosePlaces, OwnerPlaces, ServerIgnores
<1>6. PendingInv'
  BY DEF IInv, TypeOK, IfTypeOK, PendingInv, LockInv, ReaderInv, CommandPlaces, ClearPlaces,
    ClosePlaces, OwnerPlaces, ServerIgnores
<1>7. FlightInv'
  <2>1. OneReplyComes => OneReplyComes'
    BY <1>a, <1>b DEF OneReplyComes, IsReply
  <2>2. NoReplyComes => NoReplyComes'
    BY <1>a, <1>b DEF NoReplyComes, IsReply
  <2>3. UNCHANGED <<pending, pc, Live>>
    BY DEF ServerIgnores, Live
  <2> QED BY <2>1, <2>2, <2>3 DEF IInv, FlightInv
<1>8. ReplyIsOwn'
  BY DEF IInv, TypeOK, IfTypeOK, ReplyIsOwn, FlightInv, PendingInv, LockInv, IsReply, NoReplyComes,
    OneReplyComes, CommandPlaces, ClearPlaces, ClosePlaces, OwnerPlaces, ServerIgnores
<1>9. OrderInv'
  BY DEF IInv, TypeOK, IfTypeOK, OrderInv, ServerIgnores
<1>10. ClearInv'
  BY DEF IInv, TypeOK, IfTypeOK, ClearInv, DispatchInv, LockInv, WorkerHolds, OrderInv,
    CommandPlaces, ClearPlaces, ClosePlaces, OwnerPlaces, ServerIgnores
<1> QED BY <1>2, <1>3, <1>4, <1>5, <1>6, <1>7, <1>8, <1>9, <1>10 DEF IInv

\* The server closes the connection.
LEMMA ServerClosesIInv ==
  ASSUME IInv, ServerCloses, UNCHANGED upperVars
  PROVE  IInv'
<1>1. FlagsOK'
  BY DEF IInv, TypeOK, FlagsOK, ServerCloses
<1>2. LockInv' /\ DispatchInv' /\ RunInv'
  BY ThreadFrame DEF IInv, ServerCloses
<1>3. TypeOK'
  BY <1>1, SMTT(30) DEF IInv, TypeOK, IfTypeOK, Places, WorkerPlaces, ServerCloses
<1>4. ReaderInv'
  BY DEF IInv, TypeOK, IfTypeOK, ReaderInv, ServerCloses
<1>5. ClosedInv'
  BY DEF IInv, TypeOK, IfTypeOK, ClosedInv, Closed, LockInv, RunInv, ReaderInv, CommandPlaces,
    ClearPlaces, ClosePlaces, OwnerPlaces, ServerCloses
<1>6. PendingInv'
  BY DEF IInv, TypeOK, IfTypeOK, PendingInv, LockInv, ReaderInv, CommandPlaces, ClearPlaces,
    ClosePlaces, OwnerPlaces, ServerCloses
<1>7. FlightInv'
  BY DEF IInv, TypeOK, IfTypeOK, FlightInv, PendingInv, LockInv, ReaderInv, Live, IsReply,
    NoReplyComes, OneReplyComes, CommandPlaces, ClearPlaces, ClosePlaces, OwnerPlaces, ServerCloses
<1>8. ReplyIsOwn'
  BY DEF IInv, TypeOK, IfTypeOK, ReplyIsOwn, FlightInv, PendingInv, LockInv, IsReply, NoReplyComes,
    OneReplyComes, CommandPlaces, ClearPlaces, ClosePlaces, OwnerPlaces, ServerCloses
<1>9. OrderInv'
  BY DEF IInv, TypeOK, IfTypeOK, OrderInv, ServerCloses
<1>10. ClearInv'
  BY DEF IInv, TypeOK, IfTypeOK, ClearInv, DispatchInv, LockInv, WorkerHolds, OrderInv,
    CommandPlaces, ClearPlaces, ClosePlaces, OwnerPlaces, ServerCloses
<1> QED BY <1>2, <1>3, <1>4, <1>5, <1>6, <1>7, <1>8, <1>9, <1>10 DEF IInv

\* The reader takes a line.
LEMMA ReaderReadsIInv ==
  ASSUME IInv, ReaderReads, UNCHANGED upperVars
  PROVE  IInv'
<1>s. fromServer \in Seq(Lines) /\ fromServer # <<>> /\ fromServer' = Tail(fromServer) /\ rline' = Head(fromServer)
  BY DEF IInv, TypeOK, IfTypeOK, ReaderReads
<1>a. /\ fromServer' \in Seq(Lines) /\ Len(fromServer) \in Nat /\ Len(fromServer) >= 1
      /\ Len(fromServer') = Len(fromServer) - 1 /\ Head(fromServer) = fromServer[1] /\ Head(fromServer) \in Lines
      /\ \A i \in 1 .. Len(fromServer) - 1 : fromServer'[i] = fromServer[i + 1]
      /\ rline' = fromServer[1]
  BY <1>s, Popped
<1>b. rline = NoLine /\ UNCHANGED <<toServer, issued>>
  BY DEF IInv, ReaderInv, ReaderReads
<1>1. FlagsOK'
  BY DEF IInv, TypeOK, FlagsOK, ReaderReads
<1>2. LockInv' /\ DispatchInv' /\ RunInv'
  BY ThreadFrame DEF IInv, ReaderReads
<1>3. TypeOK'
  <2>1. pc' \in [Threads -> Places] /\ wpc' \in WorkerPlaces
    BY DEF IInv, TypeOK, Places, WorkerPlaces, ReaderReads
  <2>2. IfTypeOK'
    BY <1>a DEF IInv, TypeOK, IfTypeOK, ReaderReads
  <2>3. calls' \in [Threads -> Nat] /\ \A u \in Threads : calls'[u] <= MaxCalls[u]
    BY DEF IInv, TypeOK, ReaderReads
  <2>4. /\ hand' \in 0 .. sent' /\ last' \in 0 .. sent' /\ barrier' \in 0 .. sent'
        /\ events' \in Seq(1 .. sent') /\ dispatch' \in Threads \cup {None}
    BY <1>a DEF IInv, TypeOK, IfTypeOK, ReaderReads
  <2> QED BY <1>1, <2>1, <2>2, <2>3, <2>4 DEF TypeOK
<1>4. ReaderInv'
  BY DEF IInv, TypeOK, IfTypeOK, ReaderInv, ReaderReads
<1>5. ClosedInv'
  BY DEF IInv, TypeOK, IfTypeOK, ClosedInv, Closed, LockInv, RunInv, ReaderInv, CommandPlaces,
    ClearPlaces, ClosePlaces, OwnerPlaces, ReaderReads
<1>6. PendingInv'
  BY DEF IInv, TypeOK, IfTypeOK, PendingInv, LockInv, ReaderInv, CommandPlaces, ClearPlaces,
    ClosePlaces, OwnerPlaces, ReaderReads
<1>7. FlightInv'
  <2>1. OneReplyComes => OneReplyComes'
    <3> SUFFICES ASSUME OneReplyComes PROVE OneReplyComes'
      OBVIOUS
    <3>1. \A i \in 1 .. Len(fromServer') : i + 1 \in 1 .. Len(fromServer) /\ fromServer'[i] = fromServer[i + 1]
      BY <1>a
    <3>2. 1 \in 1 .. Len(fromServer)
      BY <1>a
    <3>3. IsReply(rline') => /\ rline'.n = issued /\ toServer = <<>>
                             /\ \A i \in 1 .. Len(fromServer') : ~IsReply(fromServer'[i])
      <4> SUFFICES ASSUME IsReply(fromServer[1])
                   PROVE  /\ fromServer[1].n = issued /\ toServer = <<>>
                          /\ \A i \in 1 .. Len(fromServer') : ~IsReply(fromServer'[i])
        BY <1>a
      <4>1. /\ fromServer[1].n = issued /\ toServer = <<>>
            /\ \A j \in 1 .. Len(fromServer) : IsReply(fromServer[j]) => j = 1
        BY <3>2 DEF OneReplyComes
      <4>2. \A i \in 1 .. Len(fromServer') : i + 1 # 1
        BY <1>a
      <4> QED BY <3>1, <4>1, <4>2
    <3>4. ASSUME NEW i \in 1 .. Len(fromServer'), IsReply(fromServer'[i])
          PROVE  /\ fromServer'[i].n = issued /\ toServer = <<>>
                 /\ \A j \in 1 .. Len(fromServer') : IsReply(fromServer'[j]) => j = i
      <4>1. /\ fromServer[i + 1].n = issued /\ toServer = <<>>
            /\ \A j \in 1 .. Len(fromServer) : IsReply(fromServer[j]) => j = i + 1
        BY <3>1, <3>4 DEF OneReplyComes
      <4>2. \A j \in 1 .. Len(fromServer') : j + 1 = i + 1 => j = i
        BY <1>a
      <4> QED BY <3>1, <4>1, <4>2
    <3> QED BY <1>b, <3>3, <3>4 DEF OneReplyComes
  <2>2. NoReplyComes => NoReplyComes'
    <3> SUFFICES ASSUME NoReplyComes PROVE NoReplyComes'
      OBVIOUS
    <3>1. \A i \in 1 .. Len(fromServer') : i + 1 \in 1 .. Len(fromServer) /\ fromServer'[i] = fromServer[i + 1]
      BY <1>a
    <3>2. 1 \in 1 .. Len(fromServer)
      BY <1>a
    <3>3. ~IsReply(fromServer[1]) /\ \A i \in 1 .. Len(fromServer') : ~IsReply(fromServer[i + 1])
      BY <3>1, <3>2 DEF NoReplyComes
    <3> QED BY <1>a, <1>b, <3>1, <3>3 DEF NoReplyComes
  <2>3. UNCHANGED <<pending, pc, Live>>
    BY DEF ReaderReads, Live
  <2> QED BY <2>1, <2>2, <2>3 DEF IInv, FlightInv
<1>8. ReplyIsOwn'
  BY DEF IInv, TypeOK, IfTypeOK, ReplyIsOwn, FlightInv, PendingInv, LockInv, IsReply, NoReplyComes,
    OneReplyComes, CommandPlaces, ClearPlaces, ClosePlaces, OwnerPlaces, ReaderReads
<1>9. OrderInv'
  <2>1. UNCHANGED <<seen, acked, barrier, sent>> /\ seen \in Nat /\ sent \in Nat
    BY DEF IInv, TypeOK, IfTypeOK, ReaderReads
  <2>2. \A i \in 1 .. Len(fromServer') : i + 1 \in 1 .. Len(fromServer) /\ fromServer'[i] = fromServer[i + 1]
    BY <1>a
  <2>3. ASSUME NEW i \in 1 .. Len(fromServer'), fromServer'[i].kind = "event"
        PROVE  /\ fromServer'[i].n \in seen + 1 .. sent
               /\ \A j \in 1 .. i - 1 : fromServer'[j].kind = "event" => fromServer'[j].n < fromServer'[i].n
    <3>1. /\ fromServer[i + 1].n \in seen + 1 .. sent
          /\ \A j \in 1 .. (i + 1) - 1 : fromServer[j].kind = "event" => fromServer[j].n < fromServer[i + 1].n
      BY <2>2, <2>3 DEF IInv, OrderInv
    <3>2. \A j \in 1 .. i - 1 : j + 1 \in 1 .. (i + 1) - 1 /\ j \in 1 .. Len(fromServer')
      BY <1>a
    <3> QED BY <2>2, <3>1, <3>2
  <2>4. ASSUME rline'.kind = "event"
        PROVE  /\ rline'.n \in seen + 1 .. sent
               /\ \A i \in 1 .. Len(fromServer') : fromServer'[i].kind = "event" => rline'.n < fromServer'[i].n
    <3>1. fromServer[1].n \in seen + 1 .. sent
      BY <1>a, <2>4 DEF IInv, OrderInv
    <3>2. ASSUME NEW i \in 1 .. Len(fromServer'), fromServer'[i].kind = "event"
          PROVE  rline'.n < fromServer'[i].n
      <4>1. \A j \in 1 .. (i + 1) - 1 : fromServer[j].kind = "event" => fromServer[j].n < fromServer[i + 1].n
        BY <2>2, <3>2 DEF IInv, OrderInv
      <4>2. 1 \in 1 .. (i + 1) - 1
        BY <1>a
      <4> QED BY <1>a, <2>2, <2>4, <3>2, <4>1, <4>2
    <3> QED BY <1>a, <3>1, <3>2
  <2> QED BY <2>1, <2>3, <2>4 DEF IInv, OrderInv
<1>10. ClearInv'
  BY DEF IInv, TypeOK, IfTypeOK, ClearInv, DispatchInv, LockInv, WorkerHolds, OrderInv,
    CommandPlaces, ClearPlaces, ClosePlaces, OwnerPlaces, ReaderReads
<1> QED BY <1>2, <1>3, <1>4, <1>5, <1>6, <1>7, <1>8, <1>9, <1>10 DEF IInv

\* The reader meets an error.
LEMMA ReaderFailsIInv ==
  ASSUME IInv, ReaderFails, UNCHANGED upperVars
  PROVE  IInv'
<1>1. FlagsOK'
  BY DEF IInv, TypeOK, FlagsOK, ReaderFails, FailPending
<1>2. LockInv' /\ DispatchInv' /\ RunInv'
  BY ThreadFrame DEF IInv, ReaderFails, FailPending
<1>3. TypeOK'
  <2>1. pc' \in [Threads -> Places] /\ wpc' \in WorkerPlaces
    BY DEF IInv, TypeOK, Places, WorkerPlaces, ReaderFails, FailPending
  <2>2. IfTypeOK'
    BY DEF IInv, TypeOK, IfTypeOK, ReaderFails, FailPending
  <2>3. calls' \in [Threads -> Nat] /\ \A u \in Threads : calls'[u] <= MaxCalls[u]
    BY DEF IInv, TypeOK, ReaderFails, FailPending
  <2>4. /\ hand' \in 0 .. sent' /\ last' \in 0 .. sent' /\ barrier' \in 0 .. sent'
        /\ events' \in Seq(1 .. sent') /\ dispatch' \in Threads \cup {None}
    BY DEF IInv, TypeOK, IfTypeOK, ReaderFails, FailPending
  <2> QED BY <1>1, <2>1, <2>2, <2>3, <2>4 DEF TypeOK
<1>4. ReaderInv'
  BY DEF IInv, TypeOK, IfTypeOK, ReaderInv, ReaderFails, FailPending
<1>5. ClosedInv'
  BY DEF IInv, TypeOK, IfTypeOK, ClosedInv, Closed, LockInv, RunInv, ReaderInv, CommandPlaces,
    ClearPlaces, ClosePlaces, OwnerPlaces, ReaderFails, FailPending
<1>6. PendingInv'
  BY DEF IInv, TypeOK, IfTypeOK, PendingInv, LockInv, ReaderInv, CommandPlaces, ClearPlaces,
    ClosePlaces, OwnerPlaces, ReaderFails, FailPending
<1>7. FlightInv'
  BY DEF IInv, TypeOK, IfTypeOK, FlightInv, PendingInv, LockInv, ReaderInv, Live, IsReply,
    NoReplyComes, OneReplyComes, CommandPlaces, ClearPlaces, ClosePlaces, OwnerPlaces, ReaderFails,
    FailPending
<1>8. ReplyIsOwn'
  BY DEF IInv, TypeOK, IfTypeOK, ReplyIsOwn, FlightInv, PendingInv, LockInv, IsReply, NoReplyComes,
    OneReplyComes, CommandPlaces, ClearPlaces, ClosePlaces, OwnerPlaces, ReaderFails, FailPending
<1>9. OrderInv'
  BY DEF IInv, TypeOK, IfTypeOK, OrderInv, ReaderFails, FailPending
<1>10. ClearInv'
  BY DEF IInv, TypeOK, IfTypeOK, ClearInv, DispatchInv, LockInv, WorkerHolds, OrderInv,
    CommandPlaces, ClearPlaces, ClosePlaces, OwnerPlaces, ReaderFails, FailPending
<1> QED BY <1>2, <1>3, <1>4, <1>5, <1>6, <1>7, <1>8, <1>9, <1>10 DEF IInv

\* The reader is told to stop.
LEMMA ReaderStopsIInv ==
  ASSUME IInv, ReaderStops, UNCHANGED upperVars
  PROVE  IInv'
<1>1. FlagsOK'
  BY DEF IInv, TypeOK, FlagsOK, ReaderStops, FailPending
<1>2. LockInv' /\ DispatchInv' /\ RunInv'
  BY ThreadFrame DEF IInv, ReaderStops, FailPending
<1>3. TypeOK'
  <2>1. pc' \in [Threads -> Places] /\ wpc' \in WorkerPlaces
    BY DEF IInv, TypeOK, Places, WorkerPlaces, ReaderStops, FailPending
  <2>2. IfTypeOK'
    BY DEF IInv, TypeOK, IfTypeOK, ReaderStops, FailPending
  <2>3. calls' \in [Threads -> Nat] /\ \A u \in Threads : calls'[u] <= MaxCalls[u]
    BY DEF IInv, TypeOK, ReaderStops, FailPending
  <2>4. /\ hand' \in 0 .. sent' /\ last' \in 0 .. sent' /\ barrier' \in 0 .. sent'
        /\ events' \in Seq(1 .. sent') /\ dispatch' \in Threads \cup {None}
    BY DEF IInv, TypeOK, IfTypeOK, ReaderStops, FailPending
  <2> QED BY <1>1, <2>1, <2>2, <2>3, <2>4 DEF TypeOK
<1>4. ReaderInv'
  BY DEF IInv, TypeOK, IfTypeOK, ReaderInv, ReaderStops, FailPending
<1>5. ClosedInv'
  BY DEF IInv, TypeOK, IfTypeOK, ClosedInv, Closed, LockInv, RunInv, ReaderInv, CommandPlaces,
    ClearPlaces, ClosePlaces, OwnerPlaces, ReaderStops, FailPending
<1>6. PendingInv'
  BY DEF IInv, TypeOK, IfTypeOK, PendingInv, LockInv, ReaderInv, CommandPlaces, ClearPlaces,
    ClosePlaces, OwnerPlaces, ReaderStops, FailPending
<1>7. FlightInv'
  BY DEF IInv, TypeOK, IfTypeOK, FlightInv, PendingInv, LockInv, ReaderInv, Live, IsReply,
    NoReplyComes, OneReplyComes, CommandPlaces, ClearPlaces, ClosePlaces, OwnerPlaces, ReaderStops,
    FailPending
<1>8. ReplyIsOwn'
  BY DEF IInv, TypeOK, IfTypeOK, ReplyIsOwn, FlightInv, PendingInv, LockInv, IsReply, NoReplyComes,
    OneReplyComes, CommandPlaces, ClearPlaces, ClosePlaces, OwnerPlaces, ReaderStops, FailPending
<1>9. OrderInv'
  BY DEF IInv, TypeOK, IfTypeOK, OrderInv, ReaderStops, FailPending
<1>10. ClearInv'
  BY DEF IInv, TypeOK, IfTypeOK, ClearInv, DispatchInv, LockInv, WorkerHolds, OrderInv,
    CommandPlaces, ClearPlaces, ClosePlaces, OwnerPlaces, ReaderStops, FailPending
<1> QED BY <1>2, <1>3, <1>4, <1>5, <1>6, <1>7, <1>8, <1>9, <1>10 DEF IInv

\* The reader ends.
LEMMA ReaderExitsIInv ==
  ASSUME IInv, ReaderExits, UNCHANGED upperVars
  PROVE  IInv'
<1>1. FlagsOK'
  BY DEF IInv, TypeOK, FlagsOK, ReaderExits, FailPending
<1>2. LockInv' /\ DispatchInv' /\ RunInv'
  BY ThreadFrame DEF IInv, ReaderExits, FailPending
<1>3. TypeOK'
  <2>1. pc' \in [Threads -> Places] /\ wpc' \in WorkerPlaces
    BY DEF IInv, TypeOK, Places, WorkerPlaces, ReaderExits, FailPending
  <2>2. IfTypeOK'
    BY DEF IInv, TypeOK, IfTypeOK, ReaderExits, FailPending
  <2>3. calls' \in [Threads -> Nat] /\ \A u \in Threads : calls'[u] <= MaxCalls[u]
    BY DEF IInv, TypeOK, ReaderExits, FailPending
  <2>4. /\ hand' \in 0 .. sent' /\ last' \in 0 .. sent' /\ barrier' \in 0 .. sent'
        /\ events' \in Seq(1 .. sent') /\ dispatch' \in Threads \cup {None}
    BY DEF IInv, TypeOK, IfTypeOK, ReaderExits, FailPending
  <2> QED BY <1>1, <2>1, <2>2, <2>3, <2>4 DEF TypeOK
<1>4. ReaderInv'
  BY DEF IInv, TypeOK, IfTypeOK, ReaderInv, ReaderExits, FailPending
<1>5. ClosedInv'
  BY DEF IInv, TypeOK, IfTypeOK, ClosedInv, Closed, LockInv, RunInv, ReaderInv, CommandPlaces,
    ClearPlaces, ClosePlaces, OwnerPlaces, ReaderExits, FailPending
<1>6. PendingInv'
  BY DEF IInv, TypeOK, IfTypeOK, PendingInv, LockInv, ReaderInv, CommandPlaces, ClearPlaces,
    ClosePlaces, OwnerPlaces, ReaderExits, FailPending
<1>7. FlightInv'
  BY DEF IInv, TypeOK, IfTypeOK, FlightInv, PendingInv, LockInv, ReaderInv, Live, IsReply,
    NoReplyComes, OneReplyComes, CommandPlaces, ClearPlaces, ClosePlaces, OwnerPlaces, ReaderExits,
    FailPending
<1>8. ReplyIsOwn'
  BY DEF IInv, TypeOK, IfTypeOK, ReplyIsOwn, FlightInv, PendingInv, LockInv, IsReply, NoReplyComes,
    OneReplyComes, CommandPlaces, ClearPlaces, ClosePlaces, OwnerPlaces, ReaderExits, FailPending
<1>9. OrderInv'
  BY DEF IInv, TypeOK, IfTypeOK, OrderInv, ReaderExits, FailPending
<1>10. ClearInv'
  BY DEF IInv, TypeOK, IfTypeOK, ClearInv, DispatchInv, LockInv, WorkerHolds, OrderInv,
    CommandPlaces, ClearPlaces, ClosePlaces, OwnerPlaces, ReaderExits, FailPending
<1> QED BY <1>2, <1>3, <1>4, <1>5, <1>6, <1>7, <1>8, <1>9, <1>10 DEF IInv

\* The reader processes a reply.
LEMMA ReplyIInv ==
  ASSUME IInv, ReaderLine, ProcessReply, UNCHANGED upperVars
  PROVE  IInv'
<1>a. pending => rline.n = issued
  BY DEF IInv, FlightInv, OneReplyComes, IsReply, ProcessReply
<1>b. UNCHANGED <<transport, sent, bad, issued, toServer, fromServer, eventQueue, cmd, op, seen, events, barrier, wpc, hand, pc>>
  BY DEF ReaderLine, ProcessReply
<1>1. FlagsOK'
  <2>1. FlagsOK
    BY DEF IInv, TypeOK
  <2>2. /\ UNCHANGED <<pause, running, worker, active, peer, loop, joinable, stop, failed, ret>>
        /\ pending' = pending \/ pending' = FALSE
    BY DEF ReaderLine, ProcessReply
  <2>3. pending' \in BOOLEAN
    BY <2>1, <2>2, ZenonT(60) DEF FlagsOK
  <2> QED BY <2>1, <2>2, <2>3, ZenonT(60) DEF FlagsOK
<1>2. LockInv' /\ DispatchInv' /\ RunInv'
  BY ThreadFrame DEF IInv, ReaderLine, ProcessReply
<1>3. TypeOK'
  <2>1. pc' \in [Threads -> Places] /\ wpc' \in WorkerPlaces
    BY DEF IInv, TypeOK, Places, WorkerPlaces, ReaderLine, ProcessReply
  <2>2. IfTypeOK'
    <3>1. rline' \in Lines \cup {NoLine} /\ rpc' = "read"
      BY DEF ReaderLine
    <3>2. issued \in Nat /\ sent \in Nat /\ seen \in 0 .. sent
      BY DEF IInv, TypeOK, IfTypeOK
    <3>3. /\ complete' \in {"no", "ok", "failed"} /\ response' \in 0 .. issued
          /\ acked' \in 0 .. sent
      <4>1. CASE pending
        BY <1>a, <3>2, <4>1 DEF ProcessReply
      <4>2. CASE ~pending
        BY <4>2 DEF IInv, TypeOK, IfTypeOK, ProcessReply
      <4> QED BY <4>1, <4>2
    <3> QED BY <1>b, <3>1, <3>3 DEF IInv, TypeOK, IfTypeOK
  <2>3. calls' \in [Threads -> Nat] /\ \A u \in Threads : calls'[u] <= MaxCalls[u]
    BY DEF IInv, TypeOK, ReaderLine, ProcessReply
  <2>4. /\ hand' \in 0 .. sent' /\ last' \in 0 .. sent' /\ barrier' \in 0 .. sent'
        /\ events' \in Seq(1 .. sent') /\ dispatch' \in Threads \cup {None}
    BY DEF IInv, TypeOK, IfTypeOK, ReaderLine, ProcessReply
  <2> QED BY <1>1, <2>1, <2>2, <2>3, <2>4 DEF TypeOK
<1>4. ReaderInv'
  BY DEF IInv, TypeOK, IfTypeOK, ReaderInv, ReaderLine, ProcessReply
<1>5. ClosedInv'
  BY DEF IInv, TypeOK, IfTypeOK, ClosedInv, Closed, LockInv, RunInv, ReaderInv, CommandPlaces,
    ClearPlaces, ClosePlaces, OwnerPlaces, ReaderLine, ProcessReply
<1>6. PendingInv'
  BY DEF IInv, TypeOK, IfTypeOK, PendingInv, LockInv, ReaderInv, CommandPlaces, ClearPlaces,
    ClosePlaces, OwnerPlaces, ReaderLine, ProcessReply
<1>7. FlightInv'
  BY DEF IInv, TypeOK, IfTypeOK, FlightInv, PendingInv, LockInv, ReaderInv, Live, IsReply,
    NoReplyComes, OneReplyComes, CommandPlaces, ClearPlaces, ClosePlaces, OwnerPlaces, ReaderLine,
    ProcessReply
<1>8. ReplyIsOwn'
  BY DEF IInv, TypeOK, IfTypeOK, ReplyIsOwn, FlightInv, PendingInv, LockInv, IsReply, NoReplyComes,
    OneReplyComes, CommandPlaces, ClearPlaces, ClosePlaces, OwnerPlaces, ReaderLine, ProcessReply
<1>9. OrderInv'
  BY SMTT(30) DEF IInv, TypeOK, IfTypeOK, OrderInv, ReaderLine, ProcessReply
<1>10. ClearInv'
  <2>1. (\A u \in Threads : pc[u] # "clearEvents") \/ acked' = acked
    <3>1. CASE pending
      BY <3>1 DEF IInv, TypeOK, IfTypeOK, PendingInv, LockInv, ClearPlaces
    <3>2. CASE ~pending
      BY <3>2 DEF ProcessReply
    <3> QED BY <3>1, <3>2
  <2> QED BY <1>b, <2>1 DEF IInv, ClearInv
<1> QED BY <1>2, <1>3, <1>4, <1>5, <1>6, <1>7, <1>8, <1>9, <1>10 DEF IInv

\* The reader processes an event.
LEMMA EventIInv ==
  ASSUME IInv, ReaderLine, ProcessEvent, UNCHANGED upperVars
  PROVE  IInv'
<1>r. rline.n \in seen + 1 .. sent
  BY DEF IInv, OrderInv, ProcessEvent
<1>t. sent \in Nat /\ seen \in Nat /\ barrier \in Nat /\ acked \in Nat /\ barrier <= seen /\ acked <= seen
  BY DEF IInv, TypeOK, IfTypeOK, OrderInv
<1>n. rline.n \in 1 .. sent /\ rline.n \in Nat /\ sent \in Nat /\ rline.n > seen /\ rline.n > barrier /\ rline.n > acked
  BY <1>r, <1>t
<1>s. eventQueue \in Seq(1 .. sent) /\ rline.n \in 1 .. sent
      /\ eventQueue' = Append(eventQueue, rline.n)
  BY <1>n DEF IInv, TypeOK, IfTypeOK, ProcessEvent
<1>a. /\ eventQueue' \in Seq(1 .. sent)
      /\ Len(eventQueue) \in Nat /\ Len(eventQueue') = Len(eventQueue) + 1
      /\ \A i \in 1 .. Len(eventQueue) : eventQueue'[i] = eventQueue[i]
      /\ eventQueue'[Len(eventQueue) + 1] = rline.n
  BY <1>n, <1>s, NumberAppended
<1>d. UNCHANGED <<events, barrier, wpc, hand, pc, acked, fromServer, sent>>
      /\ seen' = rline.n /\ rline' = NoLine
  BY DEF ReaderLine, ProcessEvent
<1>1. FlagsOK'
  BY DEF IInv, TypeOK, FlagsOK, ReaderLine, ProcessEvent
<1>2. LockInv' /\ DispatchInv' /\ RunInv'
  BY ThreadFrame DEF IInv, ReaderLine, ProcessEvent
<1>3. TypeOK'
  <2>1. pc' \in [Threads -> Places] /\ wpc' \in WorkerPlaces
    BY DEF IInv, TypeOK, Places, WorkerPlaces, ReaderLine, ProcessEvent
  <2>2. IfTypeOK'
    BY <1>a, <1>n DEF IInv, TypeOK, IfTypeOK, ReaderLine, ProcessEvent
  <2>3. calls' \in [Threads -> Nat] /\ \A u \in Threads : calls'[u] <= MaxCalls[u]
    BY DEF IInv, TypeOK, ReaderLine, ProcessEvent
  <2>4. /\ hand' \in 0 .. sent' /\ last' \in 0 .. sent' /\ barrier' \in 0 .. sent'
        /\ events' \in Seq(1 .. sent') /\ dispatch' \in Threads \cup {None}
    BY <1>a, <1>n DEF IInv, TypeOK, IfTypeOK, ReaderLine, ProcessEvent
  <2> QED BY <1>1, <2>1, <2>2, <2>3, <2>4 DEF TypeOK
<1>4. ReaderInv'
  BY DEF IInv, TypeOK, IfTypeOK, ReaderInv, ReaderLine, ProcessEvent
<1>5. ClosedInv'
  BY DEF IInv, TypeOK, IfTypeOK, ClosedInv, Closed, LockInv, RunInv, ReaderInv, CommandPlaces,
    ClearPlaces, ClosePlaces, OwnerPlaces, ReaderLine, ProcessEvent
<1>6. PendingInv'
  BY DEF IInv, TypeOK, IfTypeOK, PendingInv, LockInv, ReaderInv, CommandPlaces, ClearPlaces,
    ClosePlaces, OwnerPlaces, ReaderLine, ProcessEvent
<1>7. FlightInv'
  BY DEF IInv, TypeOK, IfTypeOK, FlightInv, PendingInv, LockInv, ReaderInv, Live, IsReply,
    NoReplyComes, OneReplyComes, CommandPlaces, ClearPlaces, ClosePlaces, OwnerPlaces, ReaderLine,
    ProcessEvent
<1>8. ReplyIsOwn'
  BY DEF IInv, TypeOK, IfTypeOK, ReplyIsOwn, FlightInv, PendingInv, LockInv, IsReply, NoReplyComes,
    OneReplyComes, CommandPlaces, ClearPlaces, ClosePlaces, OwnerPlaces, ReaderLine, ProcessEvent
<1>9. OrderInv'
  <2>1. rline.kind = "event" /\ rline'.kind # "event"
    BY <1>d DEF ProcessEvent
  <2>2. ASSUME NEW i \in 1 .. Len(fromServer), fromServer[i].kind = "event"
        PROVE  fromServer[i].n \in rline.n + 1 .. sent
    <3>1. rline.n < fromServer[i].n /\ fromServer[i].n \in seen + 1 .. sent
      BY <2>1, <2>2 DEF IInv, OrderInv
    <3> QED BY <1>t, <1>n, <3>1, SMTT(30)
  <2>3. acked' <= seen' /\ barrier' <= seen'
    BY <1>d, <1>n, <1>t
  <2>4. \A i \in 1 .. Len(fromServer) : fromServer[i].kind = "event" =>
          \A j \in 1 .. i - 1 : fromServer[j].kind = "event" => fromServer[j].n < fromServer[i].n
    BY DEF IInv, OrderInv
  <2> QED BY <1>d, <2>1, <2>2, <2>3, <2>4 DEF OrderInv
<1>10. ClearInv'
  <2>1. \A i \in 1 .. Len(eventQueue') :
          \/ eventQueue'[i] = rline.n
          \/ i \in 1 .. Len(eventQueue) /\ eventQueue'[i] = eventQueue[i]
    BY <1>a
  <2>2. \A i \in 1 .. Len(eventQueue') : eventQueue'[i] > barrier
    BY <1>n, <2>1 DEF IInv, ClearInv
  <2>3. ASSUME NEW u \in Threads, pc[u] = "clearEvents"
        PROVE  \A i \in 1 .. Len(eventQueue') : eventQueue'[i] > acked
    BY <1>n, <2>1, <2>3 DEF IInv, ClearInv
  <2> QED BY <1>d, <2>2, <2>3 DEF IInv, ClearInv
<1> QED BY <1>2, <1>3, <1>4, <1>5, <1>6, <1>7, <1>8, <1>9, <1>10 DEF IInv

\* The reader processes an invalid line.
LEMMA BadLineIInv ==
  ASSUME IInv, ReaderLine, ProcessBadLine, UNCHANGED upperVars
  PROVE  IInv'
<1>1. FlagsOK'
  BY DEF IInv, TypeOK, FlagsOK, ReaderLine, ProcessBadLine, FailPending
<1>2. LockInv' /\ DispatchInv' /\ RunInv'
  BY ThreadFrame DEF IInv, ReaderLine, ProcessBadLine, FailPending
<1>3. TypeOK'
  <2>1. pc' \in [Threads -> Places] /\ wpc' \in WorkerPlaces
    BY DEF IInv, TypeOK, Places, WorkerPlaces, ReaderLine, ProcessBadLine, FailPending
  <2>2. IfTypeOK'
    BY DEF IInv, TypeOK, IfTypeOK, ReaderLine, ProcessBadLine, FailPending
  <2>3. calls' \in [Threads -> Nat] /\ \A u \in Threads : calls'[u] <= MaxCalls[u]
    BY DEF IInv, TypeOK, ReaderLine, ProcessBadLine, FailPending
  <2>4. /\ hand' \in 0 .. sent' /\ last' \in 0 .. sent' /\ barrier' \in 0 .. sent'
        /\ events' \in Seq(1 .. sent') /\ dispatch' \in Threads \cup {None}
    BY DEF IInv, TypeOK, IfTypeOK, ReaderLine, ProcessBadLine, FailPending
  <2> QED BY <1>1, <2>1, <2>2, <2>3, <2>4 DEF TypeOK
<1>4. ReaderInv'
  BY DEF IInv, TypeOK, IfTypeOK, ReaderInv, ReaderLine, ProcessBadLine, FailPending
<1>5. ClosedInv'
  BY DEF IInv, TypeOK, IfTypeOK, ClosedInv, Closed, LockInv, RunInv, ReaderInv, CommandPlaces,
    ClearPlaces, ClosePlaces, OwnerPlaces, ReaderLine, ProcessBadLine, FailPending
<1>6. PendingInv'
  BY DEF IInv, TypeOK, IfTypeOK, PendingInv, LockInv, ReaderInv, CommandPlaces, ClearPlaces,
    ClosePlaces, OwnerPlaces, ReaderLine, ProcessBadLine, FailPending
<1>7. FlightInv'
  BY DEF IInv, TypeOK, IfTypeOK, FlightInv, PendingInv, LockInv, ReaderInv, Live, IsReply,
    NoReplyComes, OneReplyComes, CommandPlaces, ClearPlaces, ClosePlaces, OwnerPlaces, ReaderLine,
    ProcessBadLine, FailPending
<1>8. ReplyIsOwn'
  BY DEF IInv, TypeOK, IfTypeOK, ReplyIsOwn, FlightInv, PendingInv, LockInv, IsReply, NoReplyComes,
    OneReplyComes, CommandPlaces, ClearPlaces, ClosePlaces, OwnerPlaces, ReaderLine, ProcessBadLine,
    FailPending
<1>9. OrderInv'
  BY DEF IInv, TypeOK, IfTypeOK, OrderInv, ReaderLine, ProcessBadLine, FailPending
<1>10. ClearInv'
  BY DEF IInv, TypeOK, IfTypeOK, ClearInv, DispatchInv, LockInv, WorkerHolds, OrderInv,
    CommandPlaces, ClearPlaces, ClosePlaces, OwnerPlaces, ReaderLine, ProcessBadLine, FailPending
<1> QED BY <1>2, <1>3, <1>4, <1>5, <1>6, <1>7, <1>8, <1>9, <1>10 DEF IInv

\* A command is refused, or pending from here on.
LEMMA CommandBeginIInv ==
  ASSUME IInv, NEW t \in Threads, CommandBegin(t), UNCHANGED upperVars
  PROVE  IInv'
<1>1. FlagsOK'
  <2>1. FlagsOK
    BY DEF IInv, TypeOK
  <2>2. /\ UNCHANGED <<pause, running, worker, active, peer, loop, joinable, stop, failed>>
        /\ pending' = pending \/ pending' = TRUE
        /\ ret' = ret \/ ret' = FALSE
    BY DEF CommandBegin
  <2>3. pending' \in BOOLEAN /\ ret' \in BOOLEAN
    BY <2>1, <2>2, ZenonT(60) DEF FlagsOK
  <2> QED BY <2>1, <2>2, <2>3, ZenonT(60) DEF FlagsOK
<1>2. TypeOK'
  <2>1. pc' \in [Threads -> Places] /\ wpc' \in WorkerPlaces
    BY DEF IInv, TypeOK, Places, WorkerPlaces, CommandBegin
  <2>2. IfTypeOK'
    <3>1. UNCHANGED <<transport, sent, bad, issued, toServer, fromServer, rline, rpc, eventQueue, cmd, op, seen>>
      BY DEF CommandBegin
    <3>2. /\ complete' \in {"no", "ok", "failed"} /\ response' \in 0 .. issued
          /\ acked' \in 0 .. sent
      <4>1. \/ UNCHANGED <<complete, response, acked>>
            \/ complete' = "no" /\ response' = 0 /\ acked' = 0
        BY DEF CommandBegin
      <4>2. /\ complete \in {"no", "ok", "failed"} /\ response \in 0 .. issued
            /\ acked \in 0 .. sent /\ issued \in Nat /\ sent \in Nat
        BY DEF IInv, TypeOK, IfTypeOK
      <4> QED BY <4>1, <4>2
    <3> QED BY <3>1, <3>2 DEF IInv, TypeOK, IfTypeOK
  <2>3. calls' \in [Threads -> Nat] /\ \A u \in Threads : calls'[u] <= MaxCalls[u]
    BY DEF IInv, TypeOK, CommandBegin
  <2>4. /\ hand' \in 0 .. sent' /\ last' \in 0 .. sent' /\ barrier' \in 0 .. sent'
        /\ events' \in Seq(1 .. sent') /\ dispatch' \in Threads \cup {None}
    BY DEF IInv, TypeOK, IfTypeOK, CommandBegin
  <2> QED BY <1>1, <2>1, <2>2, <2>3, <2>4 DEF TypeOK
<1>3. LockInv'
  <2>1. CASE transport # "up" \/ failed \/ stop \/ ~joinable
    BY <2>1, SMTT(30) DEF IInv, TypeOK, IfTypeOK, LockInv, CommandPlaces, ClearPlaces, ClosePlaces,
      OwnerPlaces, CommandBegin
  <2>2. CASE ~(transport # "up" \/ failed \/ stop \/ ~joinable)
    BY <2>2, SMTT(30) DEF IInv, TypeOK, IfTypeOK, LockInv, CommandPlaces, ClearPlaces, ClosePlaces,
      OwnerPlaces, CommandBegin
  <2> QED BY <2>1, <2>2
<1>4. DispatchInv'
  <2>1. CASE transport # "up" \/ failed \/ stop \/ ~joinable
    BY <2>1 DEF IInv, TypeOK, IfTypeOK, DispatchInv, LockInv, WorkerHolds, CommandPlaces,
      ClearPlaces, ClosePlaces, OwnerPlaces, CommandBegin
  <2>2. CASE ~(transport # "up" \/ failed \/ stop \/ ~joinable)
    BY <2>2 DEF IInv, TypeOK, IfTypeOK, DispatchInv, LockInv, WorkerHolds, CommandPlaces,
      ClearPlaces, ClosePlaces, OwnerPlaces, CommandBegin
  <2> QED BY <2>1, <2>2
<1>5. RunInv'
  BY DEF IInv, TypeOK, IfTypeOK, RunInv, LockInv, CommandPlaces, ClearPlaces, ClosePlaces,
    OwnerPlaces, CommandBegin
<1>6. ReaderInv'
  BY DEF IInv, TypeOK, IfTypeOK, ReaderInv, CommandBegin
<1>7. ClosedInv'
  <2>1. CASE transport # "up" \/ failed \/ stop \/ ~joinable
    BY <2>1 DEF IInv, TypeOK, IfTypeOK, ClosedInv, Closed, LockInv, RunInv, ReaderInv,
      CommandPlaces, ClearPlaces, ClosePlaces, OwnerPlaces, CommandBegin
  <2>2. CASE ~(transport # "up" \/ failed \/ stop \/ ~joinable)
    BY <2>2 DEF IInv, TypeOK, IfTypeOK, ClosedInv, Closed, LockInv, RunInv, ReaderInv,
      CommandPlaces, ClearPlaces, ClosePlaces, OwnerPlaces, CommandBegin
  <2> QED BY <2>1, <2>2
<1>8. PendingInv'
  <2>1. CASE transport # "up" \/ failed \/ stop \/ ~joinable
    BY <2>1 DEF IInv, TypeOK, IfTypeOK, PendingInv, LockInv, ReaderInv, CommandPlaces, ClearPlaces,
      ClosePlaces, OwnerPlaces, CommandBegin
  <2>2. CASE ~(transport # "up" \/ failed \/ stop \/ ~joinable)
    BY <2>2 DEF IInv, TypeOK, IfTypeOK, PendingInv, LockInv, ReaderInv, CommandPlaces, ClearPlaces,
      ClosePlaces, OwnerPlaces, CommandBegin
  <2> QED BY <2>1, <2>2
<1>9. FlightInv'
  <2>1. CASE transport # "up" \/ failed \/ stop \/ ~joinable
    BY <2>1 DEF IInv, TypeOK, IfTypeOK, FlightInv, PendingInv, LockInv, ReaderInv, Live, IsReply, NoReplyComes, OneReplyComes, CommandPlaces, ClearPlaces, ClosePlaces, OwnerPlaces, CommandBegin
  <2>2. CASE ~(transport # "up" \/ failed \/ stop \/ ~joinable)
    <3>1. Live /\ ~pending
      BY <2>2 DEF IInv, TypeOK, PendingInv, LockInv, CommandPlaces, Live, CommandBegin
    <3>2. NoReplyComes
      BY <3>1 DEF IInv, FlightInv
    <3>3. NoReplyComes' /\ OneReplyComes'
      BY <3>2 DEF NoReplyComes, OneReplyComes, CommandBegin
    <3>4. pending'
      BY <2>2 DEF CommandBegin
    <3> QED BY <3>3, <3>4 DEF FlightInv
  <2> QED BY <2>1, <2>2
<1>10. ReplyIsOwn'
  <2>1. CASE transport # "up" \/ failed \/ stop \/ ~joinable
    BY <2>1 DEF IInv, TypeOK, IfTypeOK, ReplyIsOwn, FlightInv, PendingInv, LockInv, IsReply,
      NoReplyComes, OneReplyComes, CommandPlaces, ClearPlaces, ClosePlaces, OwnerPlaces,
      CommandBegin
  <2>2. CASE ~(transport # "up" \/ failed \/ stop \/ ~joinable)
    BY <2>2 DEF IInv, TypeOK, IfTypeOK, ReplyIsOwn, FlightInv, PendingInv, LockInv, IsReply,
      NoReplyComes, OneReplyComes, CommandPlaces, ClearPlaces, ClosePlaces, OwnerPlaces,
      CommandBegin
  <2> QED BY <2>1, <2>2
<1>11. OrderInv'
  BY SMTT(30) DEF IInv, TypeOK, IfTypeOK, OrderInv, CommandBegin
<1>12. ClearInv'
  <2>1. UNCHANGED <<events, eventQueue, barrier, wpc, hand>>
    BY DEF CommandBegin
  <2>2. ASSUME NEW u \in Threads, pc'[u] = "clearEvents"
        PROVE  \A i \in 1 .. Len(eventQueue) : eventQueue[i] > acked'
    <3>1. u # t /\ pc[u] = "clearEvents"
      BY <2>2 DEF IInv, TypeOK, CommandBegin
    <3>2. acked' = acked
      BY <3>1 DEF IInv, LockInv, CommandPlaces, ClearPlaces, CommandBegin
    <3> QED BY <3>1, <3>2 DEF IInv, ClearInv
  <2> QED BY <2>1, <2>2 DEF IInv, ClearInv
<1> QED BY <1>2, <1>3, <1>4, <1>5, <1>6, <1>7, <1>8, <1>9, <1>10, <1>11, <1>12 DEF IInv

\* A command is written.
LEMMA CommandWriteIInv ==
  ASSUME IInv, NEW t \in Threads, CommandWrite(t), UNCHANGED upperVars
  PROVE  IInv'
<1>a. /\ toServer' \in Seq(1 .. issued + 1) /\ Len(toServer') = Len(toServer) + 1
      /\ Len(toServer) \in Nat /\ toServer'[Len(toServer) + 1] = issued + 1
  <2>1. toServer \in Seq(1 .. issued + 1)
    BY SeqWidens DEF IInv, TypeOK, IfTypeOK
  <2> QED BY <2>1, SMTT(30) DEF IInv, TypeOK, IfTypeOK, CommandWrite
<1>1. FlagsOK'
  BY DEF IInv, TypeOK, FlagsOK, CommandWrite
<1>2. TypeOK'
  <2>1. pc' \in [Threads -> Places] /\ wpc' \in WorkerPlaces
    BY DEF IInv, TypeOK, Places, WorkerPlaces, CommandWrite
  <2>2. IfTypeOK'
    BY <1>a DEF IInv, TypeOK, IfTypeOK, CommandWrite
  <2>3. calls' \in [Threads -> Nat] /\ \A u \in Threads : calls'[u] <= MaxCalls[u]
    BY DEF IInv, TypeOK, CommandWrite
  <2>4. /\ hand' \in 0 .. sent' /\ last' \in 0 .. sent' /\ barrier' \in 0 .. sent'
        /\ events' \in Seq(1 .. sent') /\ dispatch' \in Threads \cup {None}
    BY <1>a DEF IInv, TypeOK, IfTypeOK, CommandWrite
  <2> QED BY <1>1, <2>1, <2>2, <2>3, <2>4 DEF TypeOK
<1>3. LockInv'
  BY DEF IInv, TypeOK, IfTypeOK, LockInv, CommandPlaces, ClearPlaces, ClosePlaces, OwnerPlaces,
    CommandWrite
<1>4. DispatchInv'
  BY DEF IInv, TypeOK, IfTypeOK, DispatchInv, LockInv, WorkerHolds, CommandPlaces, ClearPlaces,
    ClosePlaces, OwnerPlaces, CommandWrite
<1>5. RunInv'
  BY DEF IInv, TypeOK, IfTypeOK, RunInv, LockInv, CommandPlaces, ClearPlaces, ClosePlaces,
    OwnerPlaces, CommandWrite
<1>6. ReaderInv'
  BY DEF IInv, TypeOK, IfTypeOK, ReaderInv, CommandWrite
<1>7. ClosedInv'
  BY DEF IInv, TypeOK, IfTypeOK, ClosedInv, Closed, LockInv, RunInv, ReaderInv, CommandPlaces,
    ClearPlaces, ClosePlaces, OwnerPlaces, CommandWrite
<1>8. PendingInv'
  BY DEF IInv, TypeOK, IfTypeOK, PendingInv, LockInv, ReaderInv, CommandPlaces, ClearPlaces,
    ClosePlaces, OwnerPlaces, CommandWrite
<1>9. FlightInv'
  <2>1. /\ pc' = [pc EXCEPT ![t] = "wait"] /\ issued' = issued + 1
        /\ UNCHANGED <<fromServer, rline, pending, Live>>
    BY DEF CommandWrite, Live
  <2>2. pending => NoReplyComes
    BY DEF IInv, FlightInv, CommandWrite
  <2>5. NoReplyComes => OneReplyComes'
    <3> SUFFICES ASSUME NoReplyComes PROVE OneReplyComes'
      OBVIOUS
    <3>1. Len(toServer') = 1 /\ toServer'[1] = issued'
      BY <1>a, <2>1 DEF NoReplyComes
    <3>2. /\ ~IsReply(rline')
          /\ \A i \in 1 .. Len(fromServer') : ~IsReply(fromServer'[i])
      BY <2>1 DEF NoReplyComes
    <3>3. Len(toServer') <= 1 /\ \A i \in 1 .. Len(toServer') : i = 1
      BY <3>1
    <3>4. \A i \in 1 .. Len(toServer') : toServer'[i] = issued'
      BY <3>1, <3>3
    <3> QED BY <3>2, <3>3, <3>4 DEF OneReplyComes
  <2>3. Live => pending
    BY DEF IInv, FlightInv, CommandWrite
  <2>4. \A u \in Threads : pc'[u] # "write"
    BY <2>1 DEF IInv, TypeOK, LockInv, CommandPlaces, CommandWrite
  <2> QED BY <2>1, <2>2, <2>3, <2>4, <2>5 DEF FlightInv
<1>10. ReplyIsOwn'
  BY DEF IInv, TypeOK, IfTypeOK, ReplyIsOwn, FlightInv, PendingInv, LockInv, IsReply, NoReplyComes,
    OneReplyComes, CommandPlaces, ClearPlaces, ClosePlaces, OwnerPlaces, CommandWrite
<1>11. OrderInv'
  BY DEF IInv, TypeOK, IfTypeOK, OrderInv, CommandWrite
<1>12. ClearInv'
  BY DEF IInv, TypeOK, IfTypeOK, ClearInv, DispatchInv, LockInv, WorkerHolds, OrderInv,
    CommandPlaces, ClearPlaces, ClosePlaces, OwnerPlaces, CommandWrite
<1> QED BY <1>2, <1>3, <1>4, <1>5, <1>6, <1>7, <1>8, <1>9, <1>10, <1>11, <1>12 DEF IInv

\* The command cannot be written, and the reader is stopped.
LEMMA CommandWriteFailsIInv ==
  ASSUME IInv, NEW t \in Threads, CommandWriteFails(t), UNCHANGED upperVars
  PROVE  IInv'
<1>1. FlagsOK'
  BY DEF IInv, TypeOK, FlagsOK, CommandWriteFails
<1>2. TypeOK'
  <2>1. pc' \in [Threads -> Places] /\ wpc' \in WorkerPlaces
    BY DEF IInv, TypeOK, Places, WorkerPlaces, CommandWriteFails
  <2>2. IfTypeOK'
    BY DEF IInv, TypeOK, IfTypeOK, CommandWriteFails
  <2>3. calls' \in [Threads -> Nat] /\ \A u \in Threads : calls'[u] <= MaxCalls[u]
    BY DEF IInv, TypeOK, CommandWriteFails
  <2>4. /\ hand' \in 0 .. sent' /\ last' \in 0 .. sent' /\ barrier' \in 0 .. sent'
        /\ events' \in Seq(1 .. sent') /\ dispatch' \in Threads \cup {None}
    BY DEF IInv, TypeOK, IfTypeOK, CommandWriteFails
  <2> QED BY <1>1, <2>1, <2>2, <2>3, <2>4 DEF TypeOK
<1>3. LockInv'
  BY DEF IInv, TypeOK, IfTypeOK, LockInv, CommandPlaces, ClearPlaces, ClosePlaces, OwnerPlaces,
    CommandWriteFails
<1>4. DispatchInv'
  BY DEF IInv, TypeOK, IfTypeOK, DispatchInv, LockInv, WorkerHolds, CommandPlaces, ClearPlaces,
    ClosePlaces, OwnerPlaces, CommandWriteFails
<1>5. RunInv'
  BY DEF IInv, TypeOK, IfTypeOK, RunInv, LockInv, CommandPlaces, ClearPlaces, ClosePlaces,
    OwnerPlaces, CommandWriteFails
<1>6. ReaderInv'
  BY DEF IInv, TypeOK, IfTypeOK, ReaderInv, CommandWriteFails
<1>7. ClosedInv'
  BY DEF IInv, TypeOK, IfTypeOK, ClosedInv, Closed, LockInv, RunInv, ReaderInv, CommandPlaces,
    ClearPlaces, ClosePlaces, OwnerPlaces, CommandWriteFails
<1>8. PendingInv'
  BY DEF IInv, TypeOK, IfTypeOK, PendingInv, LockInv, ReaderInv, CommandPlaces, ClearPlaces,
    ClosePlaces, OwnerPlaces, CommandWriteFails
<1>9. FlightInv'
  BY DEF IInv, TypeOK, IfTypeOK, FlightInv, PendingInv, LockInv, ReaderInv, Live, IsReply,
    NoReplyComes, OneReplyComes, CommandPlaces, ClearPlaces, ClosePlaces, OwnerPlaces,
    CommandWriteFails
<1>10. ReplyIsOwn'
  BY DEF IInv, TypeOK, IfTypeOK, ReplyIsOwn, FlightInv, PendingInv, LockInv, IsReply, NoReplyComes,
    OneReplyComes, CommandPlaces, ClearPlaces, ClosePlaces, OwnerPlaces, CommandWriteFails
<1>11. OrderInv'
  BY DEF IInv, TypeOK, IfTypeOK, OrderInv, CommandWriteFails
<1>12. ClearInv'
  BY DEF IInv, TypeOK, IfTypeOK, ClearInv, DispatchInv, LockInv, WorkerHolds, OrderInv,
    CommandPlaces, ClearPlaces, ClosePlaces, OwnerPlaces, CommandWriteFails
<1> QED BY <1>2, <1>3, <1>4, <1>5, <1>6, <1>7, <1>8, <1>9, <1>10, <1>11, <1>12 DEF IInv

\* The command times out, and the reader is stopped.
LEMMA CommandTimeoutIInv ==
  ASSUME IInv, NEW t \in Threads, CommandTimeout(t), UNCHANGED upperVars
  PROVE  IInv'
<1>1. FlagsOK'
  BY DEF IInv, TypeOK, FlagsOK, CommandTimeout
<1>2. TypeOK'
  <2>1. pc' \in [Threads -> Places] /\ wpc' \in WorkerPlaces
    BY DEF IInv, TypeOK, Places, WorkerPlaces, CommandTimeout
  <2>2. IfTypeOK'
    BY DEF IInv, TypeOK, IfTypeOK, CommandTimeout
  <2>3. calls' \in [Threads -> Nat] /\ \A u \in Threads : calls'[u] <= MaxCalls[u]
    BY DEF IInv, TypeOK, CommandTimeout
  <2>4. /\ hand' \in 0 .. sent' /\ last' \in 0 .. sent' /\ barrier' \in 0 .. sent'
        /\ events' \in Seq(1 .. sent') /\ dispatch' \in Threads \cup {None}
    BY DEF IInv, TypeOK, IfTypeOK, CommandTimeout
  <2> QED BY <1>1, <2>1, <2>2, <2>3, <2>4 DEF TypeOK
<1>3. LockInv'
  BY DEF IInv, TypeOK, IfTypeOK, LockInv, CommandPlaces, ClearPlaces, ClosePlaces, OwnerPlaces,
    CommandTimeout
<1>4. DispatchInv'
  BY DEF IInv, TypeOK, IfTypeOK, DispatchInv, LockInv, WorkerHolds, CommandPlaces, ClearPlaces,
    ClosePlaces, OwnerPlaces, CommandTimeout
<1>5. RunInv'
  BY DEF IInv, TypeOK, IfTypeOK, RunInv, LockInv, CommandPlaces, ClearPlaces, ClosePlaces,
    OwnerPlaces, CommandTimeout
<1>6. ReaderInv'
  BY DEF IInv, TypeOK, IfTypeOK, ReaderInv, CommandTimeout
<1>7. ClosedInv'
  BY DEF IInv, TypeOK, IfTypeOK, ClosedInv, Closed, LockInv, RunInv, ReaderInv, CommandPlaces,
    ClearPlaces, ClosePlaces, OwnerPlaces, CommandTimeout
<1>8. PendingInv'
  BY DEF IInv, TypeOK, IfTypeOK, PendingInv, LockInv, ReaderInv, CommandPlaces, ClearPlaces,
    ClosePlaces, OwnerPlaces, CommandTimeout
<1>9. FlightInv'
  BY DEF IInv, TypeOK, IfTypeOK, FlightInv, PendingInv, LockInv, ReaderInv, Live, IsReply,
    NoReplyComes, OneReplyComes, CommandPlaces, ClearPlaces, ClosePlaces, OwnerPlaces,
    CommandTimeout
<1>10. ReplyIsOwn'
  BY DEF IInv, TypeOK, IfTypeOK, ReplyIsOwn, FlightInv, PendingInv, LockInv, IsReply, NoReplyComes,
    OneReplyComes, CommandPlaces, ClearPlaces, ClosePlaces, OwnerPlaces, CommandTimeout
<1>11. OrderInv'
  BY DEF IInv, TypeOK, IfTypeOK, OrderInv, CommandTimeout
<1>12. ClearInv'
  BY DEF IInv, TypeOK, IfTypeOK, ClearInv, DispatchInv, LockInv, WorkerHolds, OrderInv,
    CommandPlaces, ClearPlaces, ClosePlaces, OwnerPlaces, CommandTimeout
<1> QED BY <1>2, <1>3, <1>4, <1>5, <1>6, <1>7, <1>8, <1>9, <1>10, <1>11, <1>12 DEF IInv

\* The reader has ended after a write that failed.
LEMMA CommandWriteJoinIInv ==
  ASSUME IInv, NEW t \in Threads, CommandWriteJoin(t), UNCHANGED upperVars
  PROVE  IInv'
<1>1. FlagsOK'
  BY DEF IInv, TypeOK, FlagsOK, CommandWriteJoin, Join, CloseTransport
<1>2. TypeOK'
  <2>1. pc' \in [Threads -> Places] /\ wpc' \in WorkerPlaces
    BY DEF IInv, TypeOK, Places, WorkerPlaces, CommandWriteJoin, Join, CloseTransport
  <2>2. IfTypeOK'
    BY DEF IInv, TypeOK, IfTypeOK, CommandWriteJoin, Join, CloseTransport
  <2>3. calls' \in [Threads -> Nat] /\ \A u \in Threads : calls'[u] <= MaxCalls[u]
    BY DEF IInv, TypeOK, CommandWriteJoin, Join, CloseTransport
  <2>4. /\ hand' \in 0 .. sent' /\ last' \in 0 .. sent' /\ barrier' \in 0 .. sent'
        /\ events' \in Seq(1 .. sent') /\ dispatch' \in Threads \cup {None}
    BY DEF IInv, TypeOK, IfTypeOK, CommandWriteJoin, Join, CloseTransport
  <2> QED BY <1>1, <2>1, <2>2, <2>3, <2>4 DEF TypeOK
<1>3. LockInv'
  BY DEF IInv, TypeOK, IfTypeOK, LockInv, CommandPlaces, ClearPlaces, ClosePlaces, OwnerPlaces,
    CommandWriteJoin, Join, CloseTransport
<1>4. DispatchInv'
  BY DEF IInv, TypeOK, IfTypeOK, DispatchInv, LockInv, WorkerHolds, CommandPlaces, ClearPlaces,
    ClosePlaces, OwnerPlaces, CommandWriteJoin, Join, CloseTransport
<1>5. RunInv'
  BY DEF IInv, TypeOK, IfTypeOK, RunInv, LockInv, CommandPlaces, ClearPlaces, ClosePlaces,
    OwnerPlaces, CommandWriteJoin, Join, CloseTransport
<1>6. ReaderInv'
  BY DEF IInv, TypeOK, IfTypeOK, ReaderInv, CommandWriteJoin, Join, CloseTransport
<1>7. ClosedInv'
  BY DEF IInv, TypeOK, IfTypeOK, ClosedInv, Closed, LockInv, RunInv, ReaderInv, CommandPlaces,
    ClearPlaces, ClosePlaces, OwnerPlaces, CommandWriteJoin, Join, CloseTransport
<1>8. PendingInv'
  BY DEF IInv, TypeOK, IfTypeOK, PendingInv, LockInv, ReaderInv, CommandPlaces, ClearPlaces,
    ClosePlaces, OwnerPlaces, CommandWriteJoin, Join, CloseTransport
<1>9. FlightInv'
  BY DEF IInv, TypeOK, IfTypeOK, FlightInv, PendingInv, LockInv, ReaderInv, Live, IsReply,
    NoReplyComes, OneReplyComes, CommandPlaces, ClearPlaces, ClosePlaces, OwnerPlaces,
    CommandWriteJoin, Join, CloseTransport
<1>10. ReplyIsOwn'
  BY DEF IInv, TypeOK, IfTypeOK, ReplyIsOwn, FlightInv, PendingInv, LockInv, IsReply, NoReplyComes,
    OneReplyComes, CommandPlaces, ClearPlaces, ClosePlaces, OwnerPlaces, CommandWriteJoin, Join,
    CloseTransport
<1>11. OrderInv'
  BY DEF IInv, TypeOK, IfTypeOK, OrderInv, CommandWriteJoin, Join, CloseTransport
<1>12. ClearInv'
  BY DEF IInv, TypeOK, IfTypeOK, ClearInv, DispatchInv, LockInv, WorkerHolds, OrderInv,
    CommandPlaces, ClearPlaces, ClosePlaces, OwnerPlaces, CommandWriteJoin, Join, CloseTransport
<1> QED BY <1>2, <1>3, <1>4, <1>5, <1>6, <1>7, <1>8, <1>9, <1>10, <1>11, <1>12 DEF IInv

\* The reader has ended after a time-out.
LEMMA CommandTimeoutJoinIInv ==
  ASSUME IInv, NEW t \in Threads, CommandTimeoutJoin(t), UNCHANGED upperVars
  PROVE  IInv'
<1>1. FlagsOK'
  BY DEF IInv, TypeOK, FlagsOK, CommandTimeoutJoin, Join, CloseTransport
<1>2. TypeOK'
  <2>1. pc' \in [Threads -> Places] /\ wpc' \in WorkerPlaces
    BY DEF IInv, TypeOK, Places, WorkerPlaces, CommandTimeoutJoin, Join, CloseTransport
  <2>2. IfTypeOK'
    BY DEF IInv, TypeOK, IfTypeOK, CommandTimeoutJoin, Join, CloseTransport
  <2>3. calls' \in [Threads -> Nat] /\ \A u \in Threads : calls'[u] <= MaxCalls[u]
    BY DEF IInv, TypeOK, CommandTimeoutJoin, Join, CloseTransport
  <2>4. /\ hand' \in 0 .. sent' /\ last' \in 0 .. sent' /\ barrier' \in 0 .. sent'
        /\ events' \in Seq(1 .. sent') /\ dispatch' \in Threads \cup {None}
    BY DEF IInv, TypeOK, IfTypeOK, CommandTimeoutJoin, Join, CloseTransport
  <2> QED BY <1>1, <2>1, <2>2, <2>3, <2>4 DEF TypeOK
<1>3. LockInv'
  BY DEF IInv, TypeOK, IfTypeOK, LockInv, CommandPlaces, ClearPlaces, ClosePlaces, OwnerPlaces,
    CommandTimeoutJoin, Join, CloseTransport
<1>4. DispatchInv'
  BY DEF IInv, TypeOK, IfTypeOK, DispatchInv, LockInv, WorkerHolds, CommandPlaces, ClearPlaces,
    ClosePlaces, OwnerPlaces, CommandTimeoutJoin, Join, CloseTransport
<1>5. RunInv'
  BY DEF IInv, TypeOK, IfTypeOK, RunInv, LockInv, CommandPlaces, ClearPlaces, ClosePlaces,
    OwnerPlaces, CommandTimeoutJoin, Join, CloseTransport
<1>6. ReaderInv'
  BY DEF IInv, TypeOK, IfTypeOK, ReaderInv, CommandTimeoutJoin, Join, CloseTransport
<1>7. ClosedInv'
  BY DEF IInv, TypeOK, IfTypeOK, ClosedInv, Closed, LockInv, RunInv, ReaderInv, CommandPlaces,
    ClearPlaces, ClosePlaces, OwnerPlaces, CommandTimeoutJoin, Join, CloseTransport
<1>8. PendingInv'
  BY DEF IInv, TypeOK, IfTypeOK, PendingInv, LockInv, ReaderInv, CommandPlaces, ClearPlaces,
    ClosePlaces, OwnerPlaces, CommandTimeoutJoin, Join, CloseTransport
<1>9. FlightInv'
  BY DEF IInv, TypeOK, IfTypeOK, FlightInv, PendingInv, LockInv, ReaderInv, Live, IsReply,
    NoReplyComes, OneReplyComes, CommandPlaces, ClearPlaces, ClosePlaces, OwnerPlaces,
    CommandTimeoutJoin, Join, CloseTransport
<1>10. ReplyIsOwn'
  BY DEF IInv, TypeOK, IfTypeOK, ReplyIsOwn, FlightInv, PendingInv, LockInv, IsReply, NoReplyComes,
    OneReplyComes, CommandPlaces, ClearPlaces, ClosePlaces, OwnerPlaces, CommandTimeoutJoin, Join,
    CloseTransport
<1>11. OrderInv'
  BY DEF IInv, TypeOK, IfTypeOK, OrderInv, CommandTimeoutJoin, Join, CloseTransport
<1>12. ClearInv'
  BY DEF IInv, TypeOK, IfTypeOK, ClearInv, DispatchInv, LockInv, WorkerHolds, OrderInv,
    CommandPlaces, ClearPlaces, ClosePlaces, OwnerPlaces, CommandTimeoutJoin, Join, CloseTransport
<1> QED BY <1>2, <1>3, <1>4, <1>5, <1>6, <1>7, <1>8, <1>9, <1>10, <1>11, <1>12 DEF IInv

\* The wait of a command ends.
LEMMA CommandDoneIInv ==
  ASSUME IInv, NEW t \in Threads, CommandDone(t), UNCHANGED upperVars
  PROVE  IInv'
<1>1. FlagsOK'
  BY DEF IInv, TypeOK, FlagsOK, CommandDone
<1>2. TypeOK'
  <2>1. pc' \in [Threads -> Places] /\ wpc' \in WorkerPlaces
    BY DEF IInv, TypeOK, Places, WorkerPlaces, CommandDone
  <2>2. IfTypeOK'
    BY DEF IInv, TypeOK, IfTypeOK, CommandDone
  <2>3. calls' \in [Threads -> Nat] /\ \A u \in Threads : calls'[u] <= MaxCalls[u]
    BY DEF IInv, TypeOK, CommandDone
  <2>4. /\ hand' \in 0 .. sent' /\ last' \in 0 .. sent' /\ barrier' \in 0 .. sent'
        /\ events' \in Seq(1 .. sent') /\ dispatch' \in Threads \cup {None}
    BY DEF IInv, TypeOK, IfTypeOK, CommandDone
  <2> QED BY <1>1, <2>1, <2>2, <2>3, <2>4 DEF TypeOK
<1>3. LockInv'
  BY DEF IInv, TypeOK, IfTypeOK, LockInv, CommandPlaces, ClearPlaces, ClosePlaces, OwnerPlaces,
    CommandDone
<1>4. DispatchInv'
  BY DEF IInv, TypeOK, IfTypeOK, DispatchInv, LockInv, WorkerHolds, CommandPlaces, ClearPlaces,
    ClosePlaces, OwnerPlaces, CommandDone
<1>5. RunInv'
  BY DEF IInv, TypeOK, IfTypeOK, RunInv, LockInv, CommandPlaces, ClearPlaces, ClosePlaces,
    OwnerPlaces, CommandDone
<1>6. ReaderInv'
  BY DEF IInv, TypeOK, IfTypeOK, ReaderInv, CommandDone
<1>7. ClosedInv'
  BY DEF IInv, TypeOK, IfTypeOK, ClosedInv, Closed, LockInv, RunInv, ReaderInv, CommandPlaces,
    ClearPlaces, ClosePlaces, OwnerPlaces, CommandDone
<1>8. PendingInv'
  <2>1. ~pending /\ UNCHANGED <<pending, cmd, stop, failed, loop>> /\ loop
    BY DEF IInv, TypeOK, LockInv, CommandPlaces, PendingInv, CommandDone
  <2> QED BY <2>1 DEF PendingInv
<1>9. FlightInv'
  BY DEF IInv, TypeOK, IfTypeOK, FlightInv, PendingInv, LockInv, ReaderInv, Live, IsReply,
    NoReplyComes, OneReplyComes, CommandPlaces, ClearPlaces, ClosePlaces, OwnerPlaces, CommandDone
<1>10. ReplyIsOwn'
  BY DEF IInv, TypeOK, IfTypeOK, ReplyIsOwn, FlightInv, PendingInv, LockInv, IsReply, NoReplyComes,
    OneReplyComes, CommandPlaces, ClearPlaces, ClosePlaces, OwnerPlaces, CommandDone
<1>11. OrderInv'
  BY DEF IInv, TypeOK, IfTypeOK, OrderInv, CommandDone
<1>12. ClearInv'
  BY DEF IInv, TypeOK, IfTypeOK, ClearInv, DispatchInv, LockInv, WorkerHolds, OrderInv,
    CommandPlaces, ClearPlaces, ClosePlaces, OwnerPlaces, CommandDone
<1> QED BY <1>2, <1>3, <1>4, <1>5, <1>6, <1>7, <1>8, <1>9, <1>10, <1>11, <1>12 DEF IInv

\* doCmdOpen succeeds, with nothing left of an earlier connection.
LEMMA OpensIInv ==
  ASSUME IInv, Opens(Owner), UNCHANGED upperVars
  PROVE  IInv'
<1>a. Closed /\ cmd = None
  BY DEF IInv, RunInv, ClosedInv, Opens
<1>b. rline = NoLine /\ rline' = NoLine
  BY <1>a DEF IInv, ReaderInv, Closed, Opens
<1>1. FlagsOK'
  BY DEF IInv, TypeOK, FlagsOK, Opens
<1>2. TypeOK'
  <2>1. pc' \in [Threads -> Places] /\ wpc' \in WorkerPlaces
    BY DEF IInv, TypeOK, Places, WorkerPlaces, Opens
  <2>2. IfTypeOK'
    BY DEF IInv, TypeOK, IfTypeOK, Opens
  <2>3. calls' \in [Threads -> Nat] /\ \A u \in Threads : calls'[u] <= MaxCalls[u]
    BY DEF IInv, TypeOK, Opens
  <2>4. /\ hand' \in 0 .. sent' /\ last' \in 0 .. sent' /\ barrier' \in 0 .. sent'
        /\ events' \in Seq(1 .. sent') /\ dispatch' \in Threads \cup {None}
    BY DEF IInv, TypeOK, IfTypeOK, Opens
  <2> QED BY <1>1, <2>1, <2>2, <2>3, <2>4 DEF TypeOK
<1>3. LockInv'
  BY DEF IInv, TypeOK, IfTypeOK, LockInv, CommandPlaces, ClearPlaces, ClosePlaces, OwnerPlaces,
    Opens
<1>4. DispatchInv'
  BY DEF IInv, TypeOK, IfTypeOK, DispatchInv, LockInv, WorkerHolds, CommandPlaces, ClearPlaces,
    ClosePlaces, OwnerPlaces, Opens
<1>5. RunInv'
  BY DEF IInv, TypeOK, IfTypeOK, RunInv, LockInv, CommandPlaces, ClearPlaces, ClosePlaces,
    OwnerPlaces, Opens
<1>6. ReaderInv'
  BY <1>b DEF IInv, TypeOK, IfTypeOK, ReaderInv, Opens
<1>7. ClosedInv'
  BY DEF IInv, TypeOK, IfTypeOK, ClosedInv, Closed, LockInv, RunInv, ReaderInv, CommandPlaces,
    ClearPlaces, ClosePlaces, OwnerPlaces, Opens
<1>8. PendingInv'
  BY DEF IInv, TypeOK, IfTypeOK, PendingInv, LockInv, ReaderInv, CommandPlaces, ClearPlaces,
    ClosePlaces, OwnerPlaces, Opens
<1>9. FlightInv'
  <2>1. NoReplyComes'
    BY <1>a, <1>b DEF NoReplyComes, Opens, Closed, IsReply
  <2>2. ~pending' /\ \A u \in Threads : pc'[u] # "write"
    BY <1>a DEF IInv, TypeOK, LockInv, CommandPlaces, Opens
  <2> QED BY <2>1, <2>2 DEF FlightInv
<1>10. ReplyIsOwn'
  BY DEF IInv, TypeOK, IfTypeOK, ReplyIsOwn, FlightInv, PendingInv, LockInv, IsReply, NoReplyComes,
    OneReplyComes, CommandPlaces, ClearPlaces, ClosePlaces, OwnerPlaces, Opens
<1>11. OrderInv'
  BY DEF IInv, TypeOK, IfTypeOK, OrderInv, Opens
<1>12. ClearInv'
  BY DEF IInv, TypeOK, IfTypeOK, ClearInv, DispatchInv, LockInv, WorkerHolds, OrderInv,
    CommandPlaces, ClearPlaces, ClosePlaces, OwnerPlaces, Opens
<1> QED BY <1>2, <1>3, <1>4, <1>5, <1>6, <1>7, <1>8, <1>9, <1>10, <1>11, <1>12 DEF IInv

\* doCmdOpen fails.
LEMMA OpenFailsIInv ==
  ASSUME IInv, OpenFails(Owner), UNCHANGED upperVars
  PROVE  IInv'
<1>a. Closed /\ cmd = None /\ ~pending
  BY DEF IInv, RunInv, ClosedInv, PendingInv, OpenFails
<1>1. FlagsOK'
  BY DEF IInv, TypeOK, FlagsOK, OpenFails
<1>2. TypeOK'
  <2>1. pc' \in [Threads -> Places] /\ wpc' \in WorkerPlaces
    BY DEF IInv, TypeOK, Places, WorkerPlaces, OpenFails
  <2>2. IfTypeOK'
    BY DEF IInv, TypeOK, IfTypeOK, OpenFails
  <2>3. calls' \in [Threads -> Nat] /\ \A u \in Threads : calls'[u] <= MaxCalls[u]
    BY DEF IInv, TypeOK, OpenFails
  <2>4. /\ hand' \in 0 .. sent' /\ last' \in 0 .. sent' /\ barrier' \in 0 .. sent'
        /\ events' \in Seq(1 .. sent') /\ dispatch' \in Threads \cup {None}
    BY DEF IInv, TypeOK, IfTypeOK, OpenFails
  <2> QED BY <1>1, <2>1, <2>2, <2>3, <2>4 DEF TypeOK
<1>3. LockInv'
  BY DEF IInv, TypeOK, IfTypeOK, LockInv, CommandPlaces, ClearPlaces, ClosePlaces, OwnerPlaces,
    OpenFails
<1>4. DispatchInv'
  BY DEF IInv, TypeOK, IfTypeOK, DispatchInv, LockInv, WorkerHolds, CommandPlaces, ClearPlaces,
    ClosePlaces, OwnerPlaces, OpenFails
<1>5. RunInv'
  BY DEF IInv, TypeOK, IfTypeOK, RunInv, LockInv, CommandPlaces, ClearPlaces, ClosePlaces,
    OwnerPlaces, OpenFails
<1>6. ReaderInv'
  BY DEF IInv, TypeOK, IfTypeOK, ReaderInv, OpenFails
<1>7. ClosedInv'
  BY DEF IInv, TypeOK, IfTypeOK, ClosedInv, Closed, LockInv, RunInv, ReaderInv, CommandPlaces,
    ClearPlaces, ClosePlaces, OwnerPlaces, OpenFails
<1>8. PendingInv'
  BY <1>a DEF IInv, TypeOK, IfTypeOK, PendingInv, LockInv, ReaderInv, CommandPlaces, ClearPlaces,
    ClosePlaces, OwnerPlaces, OpenFails
<1>9. FlightInv'
  BY <1>a DEF IInv, TypeOK, IfTypeOK, FlightInv, PendingInv, LockInv, ReaderInv, Live, IsReply,
    NoReplyComes, OneReplyComes, CommandPlaces, ClearPlaces, ClosePlaces, OwnerPlaces, OpenFails
<1>10. ReplyIsOwn'
  BY DEF IInv, TypeOK, IfTypeOK, ReplyIsOwn, FlightInv, PendingInv, LockInv, IsReply, NoReplyComes,
    OneReplyComes, CommandPlaces, ClearPlaces, ClosePlaces, OwnerPlaces, OpenFails
<1>11. OrderInv'
  BY DEF IInv, TypeOK, IfTypeOK, OrderInv, OpenFails
<1>12. ClearInv'
  BY DEF IInv, TypeOK, IfTypeOK, ClearInv, DispatchInv, LockInv, WorkerHolds, OrderInv,
    CommandPlaces, ClearPlaces, ClosePlaces, OwnerPlaces, OpenFails
<1> QED BY <1>2, <1>3, <1>4, <1>5, <1>6, <1>7, <1>8, <1>9, <1>10, <1>11, <1>12 DEF IInv

\* doCmdClose takes the command mutex.
LEMMA CloseLockIInv ==
  ASSUME IInv, CloseLock(Owner), UNCHANGED upperVars
  PROVE  IInv'
<1>1. FlagsOK'
  BY DEF IInv, TypeOK, FlagsOK, CloseLock, LockCommand
<1>2. TypeOK'
  <2>1. pc' \in [Threads -> Places] /\ wpc' \in WorkerPlaces
    BY DEF IInv, TypeOK, Places, WorkerPlaces, CloseLock, LockCommand
  <2>2. IfTypeOK'
    BY DEF IInv, TypeOK, IfTypeOK, CloseLock, LockCommand
  <2>3. calls' \in [Threads -> Nat] /\ \A u \in Threads : calls'[u] <= MaxCalls[u]
    BY DEF IInv, TypeOK, CloseLock, LockCommand
  <2>4. /\ hand' \in 0 .. sent' /\ last' \in 0 .. sent' /\ barrier' \in 0 .. sent'
        /\ events' \in Seq(1 .. sent') /\ dispatch' \in Threads \cup {None}
    BY DEF IInv, TypeOK, IfTypeOK, CloseLock, LockCommand
  <2> QED BY <1>1, <2>1, <2>2, <2>3, <2>4 DEF TypeOK
<1>3. LockInv'
  BY DEF IInv, TypeOK, IfTypeOK, LockInv, CommandPlaces, ClearPlaces, ClosePlaces, OwnerPlaces,
    CloseLock, LockCommand
<1>4. DispatchInv'
  BY DEF IInv, TypeOK, IfTypeOK, DispatchInv, LockInv, WorkerHolds, CommandPlaces, ClearPlaces,
    ClosePlaces, OwnerPlaces, CloseLock, LockCommand
<1>5. RunInv'
  BY DEF IInv, TypeOK, IfTypeOK, RunInv, LockInv, CommandPlaces, ClearPlaces, ClosePlaces,
    OwnerPlaces, CloseLock, LockCommand
<1>6. ReaderInv'
  BY DEF IInv, TypeOK, IfTypeOK, ReaderInv, CloseLock, LockCommand
<1>7. ClosedInv'
  BY DEF IInv, TypeOK, IfTypeOK, ClosedInv, Closed, LockInv, RunInv, ReaderInv, CommandPlaces,
    ClearPlaces, ClosePlaces, OwnerPlaces, CloseLock, LockCommand
<1>8. PendingInv'
  BY DEF IInv, TypeOK, IfTypeOK, PendingInv, LockInv, ReaderInv, CommandPlaces, ClearPlaces,
    ClosePlaces, OwnerPlaces, CloseLock, LockCommand
<1>9. FlightInv'
  BY DEF IInv, TypeOK, IfTypeOK, FlightInv, PendingInv, LockInv, ReaderInv, Live, IsReply,
    NoReplyComes, OneReplyComes, CommandPlaces, ClearPlaces, ClosePlaces, OwnerPlaces, CloseLock,
    LockCommand
<1>10. ReplyIsOwn'
  BY DEF IInv, TypeOK, IfTypeOK, ReplyIsOwn, FlightInv, PendingInv, LockInv, IsReply, NoReplyComes,
    OneReplyComes, CommandPlaces, ClearPlaces, ClosePlaces, OwnerPlaces, CloseLock, LockCommand
<1>11. OrderInv'
  BY DEF IInv, TypeOK, IfTypeOK, OrderInv, CloseLock, LockCommand
<1>12. ClearInv'
  BY DEF IInv, TypeOK, IfTypeOK, ClearInv, DispatchInv, LockInv, WorkerHolds, OrderInv,
    CommandPlaces, ClearPlaces, ClosePlaces, OwnerPlaces, CloseLock, LockCommand
<1> QED BY <1>2, <1>3, <1>4, <1>5, <1>6, <1>7, <1>8, <1>9, <1>10, <1>11, <1>12 DEF IInv

\* doCmdClose stops the reader.
LEMMA CloseStopIInv ==
  ASSUME IInv, CloseStop(Owner), UNCHANGED upperVars
  PROVE  IInv'
<1>1. FlagsOK'
  BY DEF IInv, TypeOK, FlagsOK, CloseStop
<1>2. TypeOK'
  <2>1. pc' \in [Threads -> Places] /\ wpc' \in WorkerPlaces
    BY DEF IInv, TypeOK, Places, WorkerPlaces, CloseStop
  <2>2. IfTypeOK'
    BY DEF IInv, TypeOK, IfTypeOK, CloseStop
  <2>3. calls' \in [Threads -> Nat] /\ \A u \in Threads : calls'[u] <= MaxCalls[u]
    BY DEF IInv, TypeOK, CloseStop
  <2>4. /\ hand' \in 0 .. sent' /\ last' \in 0 .. sent' /\ barrier' \in 0 .. sent'
        /\ events' \in Seq(1 .. sent') /\ dispatch' \in Threads \cup {None}
    BY DEF IInv, TypeOK, IfTypeOK, CloseStop
  <2> QED BY <1>1, <2>1, <2>2, <2>3, <2>4 DEF TypeOK
<1>3. LockInv'
  BY DEF IInv, TypeOK, IfTypeOK, LockInv, CommandPlaces, ClearPlaces, ClosePlaces, OwnerPlaces,
    CloseStop
<1>4. DispatchInv'
  BY DEF IInv, TypeOK, IfTypeOK, DispatchInv, LockInv, WorkerHolds, CommandPlaces, ClearPlaces,
    ClosePlaces, OwnerPlaces, CloseStop
<1>5. RunInv'
  BY DEF IInv, TypeOK, IfTypeOK, RunInv, LockInv, CommandPlaces, ClearPlaces, ClosePlaces,
    OwnerPlaces, CloseStop
<1>6. ReaderInv'
  BY DEF IInv, TypeOK, IfTypeOK, ReaderInv, CloseStop
<1>7. ClosedInv'
  BY DEF IInv, TypeOK, IfTypeOK, ClosedInv, Closed, LockInv, RunInv, ReaderInv, CommandPlaces,
    ClearPlaces, ClosePlaces, OwnerPlaces, CloseStop
<1>8. PendingInv'
  BY DEF IInv, TypeOK, IfTypeOK, PendingInv, LockInv, ReaderInv, CommandPlaces, ClearPlaces,
    ClosePlaces, OwnerPlaces, CloseStop
<1>9. FlightInv'
  BY DEF IInv, TypeOK, IfTypeOK, FlightInv, PendingInv, LockInv, ReaderInv, Live, IsReply,
    NoReplyComes, OneReplyComes, CommandPlaces, ClearPlaces, ClosePlaces, OwnerPlaces, CloseStop
<1>10. ReplyIsOwn'
  BY DEF IInv, TypeOK, IfTypeOK, ReplyIsOwn, FlightInv, PendingInv, LockInv, IsReply, NoReplyComes,
    OneReplyComes, CommandPlaces, ClearPlaces, ClosePlaces, OwnerPlaces, CloseStop
<1>11. OrderInv'
  BY DEF IInv, TypeOK, IfTypeOK, OrderInv, CloseStop
<1>12. ClearInv'
  BY DEF IInv, TypeOK, IfTypeOK, ClearInv, DispatchInv, LockInv, WorkerHolds, OrderInv,
    CommandPlaces, ClearPlaces, ClosePlaces, OwnerPlaces, CloseStop
<1> QED BY <1>2, <1>3, <1>4, <1>5, <1>6, <1>7, <1>8, <1>9, <1>10, <1>11, <1>12 DEF IInv

\* The end of doCmdClose.
LEMMA CloseJoinIInv ==
  ASSUME IInv, CloseJoin(Owner), UNCHANGED upperVars
  PROVE  IInv'
<1>1. FlagsOK'
  BY DEF IInv, TypeOK, FlagsOK, CloseJoin, Join, CloseTransport, UnlockCommand
<1>2. TypeOK'
  <2>1. pc' \in [Threads -> Places] /\ wpc' \in WorkerPlaces
    BY DEF IInv, TypeOK, Places, WorkerPlaces, CloseJoin, Join, CloseTransport, UnlockCommand
  <2>2. IfTypeOK'
    BY DEF IInv, TypeOK, IfTypeOK, CloseJoin, Join, CloseTransport, UnlockCommand
  <2>3. calls' \in [Threads -> Nat] /\ \A u \in Threads : calls'[u] <= MaxCalls[u]
    BY DEF IInv, TypeOK, CloseJoin, Join, CloseTransport, UnlockCommand
  <2>4. /\ hand' \in 0 .. sent' /\ last' \in 0 .. sent' /\ barrier' \in 0 .. sent'
        /\ events' \in Seq(1 .. sent') /\ dispatch' \in Threads \cup {None}
    BY DEF IInv, TypeOK, IfTypeOK, CloseJoin, Join, CloseTransport, UnlockCommand
  <2> QED BY <1>1, <2>1, <2>2, <2>3, <2>4 DEF TypeOK
<1>3. LockInv'
  BY DEF IInv, TypeOK, IfTypeOK, LockInv, CommandPlaces, ClearPlaces, ClosePlaces, OwnerPlaces,
    CloseJoin, Join, CloseTransport, UnlockCommand
<1>4. DispatchInv'
  BY DEF IInv, TypeOK, IfTypeOK, DispatchInv, LockInv, WorkerHolds, CommandPlaces, ClearPlaces,
    ClosePlaces, OwnerPlaces, CloseJoin, Join, CloseTransport, UnlockCommand
<1>5. RunInv'
  BY DEF IInv, TypeOK, IfTypeOK, RunInv, LockInv, CommandPlaces, ClearPlaces, ClosePlaces,
    OwnerPlaces, CloseJoin, Join, CloseTransport, UnlockCommand
<1>6. ReaderInv'
  BY DEF IInv, TypeOK, IfTypeOK, ReaderInv, CloseJoin, Join, CloseTransport, UnlockCommand
<1>7. ClosedInv'
  BY DEF IInv, TypeOK, IfTypeOK, ClosedInv, Closed, LockInv, RunInv, ReaderInv, CommandPlaces,
    ClearPlaces, ClosePlaces, OwnerPlaces, CloseJoin, Join, CloseTransport, UnlockCommand
<1>8. PendingInv'
  BY DEF IInv, TypeOK, IfTypeOK, PendingInv, LockInv, ReaderInv, CommandPlaces, ClearPlaces,
    ClosePlaces, OwnerPlaces, CloseJoin, Join, CloseTransport, UnlockCommand
<1>9. FlightInv'
  BY DEF IInv, TypeOK, IfTypeOK, FlightInv, PendingInv, LockInv, ReaderInv, Live, IsReply,
    NoReplyComes, OneReplyComes, CommandPlaces, ClearPlaces, ClosePlaces, OwnerPlaces, CloseJoin,
    Join, CloseTransport, UnlockCommand
<1>10. ReplyIsOwn'
  BY DEF IInv, TypeOK, IfTypeOK, ReplyIsOwn, FlightInv, PendingInv, LockInv, IsReply, NoReplyComes,
    OneReplyComes, CommandPlaces, ClearPlaces, ClosePlaces, OwnerPlaces, CloseJoin, Join,
    CloseTransport, UnlockCommand
<1>11. OrderInv'
  BY DEF IInv, TypeOK, IfTypeOK, OrderInv, CloseJoin, Join, CloseTransport, UnlockCommand
<1>12. ClearInv'
  BY DEF IInv, TypeOK, IfTypeOK, ClearInv, DispatchInv, LockInv, WorkerHolds, OrderInv,
    CommandPlaces, ClearPlaces, ClosePlaces, OwnerPlaces, CloseJoin, Join, CloseTransport,
    UnlockCommand
<1> QED BY <1>2, <1>3, <1>4, <1>5, <1>6, <1>7, <1>8, <1>9, <1>10, <1>11, <1>12 DEF IInv

\* connect begins.
LEMMA ConnectIInv ==
  ASSUME IInv, Connect
  PROVE  IInv'
<1>1. FlagsOK'
  BY DEF IInv, TypeOK, FlagsOK, Connect, Call
<1>2. TypeOK'
  <2>1. pc' \in [Threads -> Places] /\ wpc' \in WorkerPlaces
    BY DEF IInv, TypeOK, Places, WorkerPlaces, Connect, Call
  <2>2. IfTypeOK'
    BY DEF IInv, TypeOK, IfTypeOK, Connect, Call
  <2>3. calls' \in [Threads -> Nat] /\ \A u \in Threads : calls'[u] <= MaxCalls[u]
    BY DEF IInv, TypeOK, Connect, Call
  <2>4. /\ hand' \in 0 .. sent' /\ last' \in 0 .. sent' /\ barrier' \in 0 .. sent'
        /\ events' \in Seq(1 .. sent') /\ dispatch' \in Threads \cup {None}
    BY DEF IInv, TypeOK, IfTypeOK, Connect, Call
  <2> QED BY <1>1, <2>1, <2>2, <2>3, <2>4 DEF TypeOK
<1>3. LockInv'
  BY DEF IInv, TypeOK, IfTypeOK, LockInv, CommandPlaces, ClearPlaces, ClosePlaces, OwnerPlaces,
    Connect, Call
<1>4. DispatchInv'
  BY DEF IInv, TypeOK, IfTypeOK, DispatchInv, LockInv, WorkerHolds, CommandPlaces, ClearPlaces,
    ClosePlaces, OwnerPlaces, Connect, Call
<1>5. RunInv'
  BY DEF IInv, TypeOK, IfTypeOK, RunInv, LockInv, CommandPlaces, ClearPlaces, ClosePlaces,
    OwnerPlaces, Connect, Call
<1>6. ReaderInv'
  BY DEF IInv, TypeOK, IfTypeOK, ReaderInv, Connect, Call
<1>7. ClosedInv'
  BY DEF IInv, TypeOK, IfTypeOK, ClosedInv, Closed, LockInv, RunInv, ReaderInv, CommandPlaces,
    ClearPlaces, ClosePlaces, OwnerPlaces, Connect, Call
<1>8. PendingInv'
  BY DEF IInv, TypeOK, IfTypeOK, PendingInv, LockInv, ReaderInv, CommandPlaces, ClearPlaces,
    ClosePlaces, OwnerPlaces, Connect, Call
<1>9. FlightInv'
  BY DEF IInv, TypeOK, IfTypeOK, FlightInv, PendingInv, LockInv, ReaderInv, Live, IsReply,
    NoReplyComes, OneReplyComes, CommandPlaces, ClearPlaces, ClosePlaces, OwnerPlaces, Connect, Call
<1>10. ReplyIsOwn'
  BY DEF IInv, TypeOK, IfTypeOK, ReplyIsOwn, FlightInv, PendingInv, LockInv, IsReply, NoReplyComes,
    OneReplyComes, CommandPlaces, ClearPlaces, ClosePlaces, OwnerPlaces, Connect, Call
<1>11. OrderInv'
  BY DEF IInv, TypeOK, IfTypeOK, OrderInv, Connect, Call
<1>12. ClearInv'
  BY DEF IInv, TypeOK, IfTypeOK, ClearInv, DispatchInv, LockInv, WorkerHolds, OrderInv,
    CommandPlaces, ClearPlaces, ClosePlaces, OwnerPlaces, Connect, Call
<1> QED BY <1>2, <1>3, <1>4, <1>5, <1>6, <1>7, <1>8, <1>9, <1>10, <1>11, <1>12 DEF IInv

\* disconnect begins.
LEMMA DisconnectIInv ==
  ASSUME IInv, Disconnect
  PROVE  IInv'
<1>1. FlagsOK'
  BY DEF IInv, TypeOK, FlagsOK, Disconnect, Call
<1>2. TypeOK'
  <2>1. pc' \in [Threads -> Places] /\ wpc' \in WorkerPlaces
    BY DEF IInv, TypeOK, Places, WorkerPlaces, Disconnect, Call
  <2>2. IfTypeOK'
    BY DEF IInv, TypeOK, IfTypeOK, Disconnect, Call
  <2>3. calls' \in [Threads -> Nat] /\ \A u \in Threads : calls'[u] <= MaxCalls[u]
    BY DEF IInv, TypeOK, Disconnect, Call
  <2>4. /\ hand' \in 0 .. sent' /\ last' \in 0 .. sent' /\ barrier' \in 0 .. sent'
        /\ events' \in Seq(1 .. sent') /\ dispatch' \in Threads \cup {None}
    BY DEF IInv, TypeOK, IfTypeOK, Disconnect, Call
  <2> QED BY <1>1, <2>1, <2>2, <2>3, <2>4 DEF TypeOK
<1>3. LockInv'
  BY DEF IInv, TypeOK, IfTypeOK, LockInv, CommandPlaces, ClearPlaces, ClosePlaces, OwnerPlaces,
    Disconnect, Call
<1>4. DispatchInv'
  BY DEF IInv, TypeOK, IfTypeOK, DispatchInv, LockInv, WorkerHolds, CommandPlaces, ClearPlaces,
    ClosePlaces, OwnerPlaces, Disconnect, Call
<1>5. RunInv'
  BY DEF IInv, TypeOK, IfTypeOK, RunInv, LockInv, CommandPlaces, ClearPlaces, ClosePlaces,
    OwnerPlaces, Disconnect, Call
<1>6. ReaderInv'
  BY DEF IInv, TypeOK, IfTypeOK, ReaderInv, Disconnect, Call
<1>7. ClosedInv'
  BY DEF IInv, TypeOK, IfTypeOK, ClosedInv, Closed, LockInv, RunInv, ReaderInv, CommandPlaces,
    ClearPlaces, ClosePlaces, OwnerPlaces, Disconnect, Call
<1>8. PendingInv'
  BY DEF IInv, TypeOK, IfTypeOK, PendingInv, LockInv, ReaderInv, CommandPlaces, ClearPlaces,
    ClosePlaces, OwnerPlaces, Disconnect, Call
<1>9. FlightInv'
  BY DEF IInv, TypeOK, IfTypeOK, FlightInv, PendingInv, LockInv, ReaderInv, Live, IsReply,
    NoReplyComes, OneReplyComes, CommandPlaces, ClearPlaces, ClosePlaces, OwnerPlaces, Disconnect,
    Call
<1>10. ReplyIsOwn'
  BY DEF IInv, TypeOK, IfTypeOK, ReplyIsOwn, FlightInv, PendingInv, LockInv, IsReply, NoReplyComes,
    OneReplyComes, CommandPlaces, ClearPlaces, ClosePlaces, OwnerPlaces, Disconnect, Call
<1>11. OrderInv'
  BY DEF IInv, TypeOK, IfTypeOK, OrderInv, Disconnect, Call
<1>12. ClearInv'
  <2>1. UNCHANGED <<eventQueue, barrier, wpc, hand, acked>> /\ events' = <<>>
    BY DEF Disconnect, Call
  <2>2. \A u \in Threads : pc'[u] = "clearEvents" => pc[u] = "clearEvents"
    BY DEF IInv, TypeOK, Disconnect, Call
  <2> QED BY <2>1, <2>2 DEF IInv, ClearInv
<1> QED BY <1>2, <1>3, <1>4, <1>5, <1>6, <1>7, <1>8, <1>9, <1>10, <1>11, <1>12 DEF IInv

\* connect starts the worker.
LEMMA ConnectSpawnsIInv ==
  ASSUME IInv, ConnectSpawns
  PROVE  IInv'
<1>a. pc[W] = "idle" /\ wpc \in {"none", "done"}
  BY DEF IInv, DispatchInv, RunInv, ConnectSpawns
<1>1. FlagsOK'
  BY DEF IInv, TypeOK, FlagsOK, ConnectSpawns
<1>2. TypeOK'
  <2>1. pc' \in [Threads -> Places] /\ wpc' \in WorkerPlaces
    BY DEF IInv, TypeOK, Places, WorkerPlaces, ConnectSpawns
  <2>2. IfTypeOK'
    BY DEF IInv, TypeOK, IfTypeOK, ConnectSpawns
  <2>3. calls' \in [Threads -> Nat] /\ \A u \in Threads : calls'[u] <= MaxCalls[u]
    BY DEF IInv, TypeOK, ConnectSpawns
  <2>4. /\ hand' \in 0 .. sent' /\ last' \in 0 .. sent' /\ barrier' \in 0 .. sent'
        /\ events' \in Seq(1 .. sent') /\ dispatch' \in Threads \cup {None}
    BY DEF IInv, TypeOK, IfTypeOK, ConnectSpawns
  <2> QED BY <1>1, <2>1, <2>2, <2>3, <2>4 DEF TypeOK
<1>3. LockInv'
  BY DEF IInv, TypeOK, IfTypeOK, LockInv, CommandPlaces, ClearPlaces, ClosePlaces, OwnerPlaces,
    ConnectSpawns
<1>4. DispatchInv'
  BY <1>a DEF IInv, TypeOK, IfTypeOK, DispatchInv, LockInv, WorkerHolds, CommandPlaces, ClearPlaces,
    ClosePlaces, OwnerPlaces, ConnectSpawns
<1>5. RunInv'
  BY DEF IInv, TypeOK, IfTypeOK, RunInv, LockInv, CommandPlaces, ClearPlaces, ClosePlaces,
    OwnerPlaces, ConnectSpawns
<1>6. ReaderInv'
  BY DEF IInv, TypeOK, IfTypeOK, ReaderInv, ConnectSpawns
<1>7. ClosedInv'
  BY DEF IInv, TypeOK, IfTypeOK, ClosedInv, Closed, LockInv, RunInv, ReaderInv, CommandPlaces,
    ClearPlaces, ClosePlaces, OwnerPlaces, ConnectSpawns
<1>8. PendingInv'
  BY DEF IInv, TypeOK, IfTypeOK, PendingInv, LockInv, ReaderInv, CommandPlaces, ClearPlaces,
    ClosePlaces, OwnerPlaces, ConnectSpawns
<1>9. FlightInv'
  BY DEF IInv, TypeOK, IfTypeOK, FlightInv, PendingInv, LockInv, ReaderInv, Live, IsReply,
    NoReplyComes, OneReplyComes, CommandPlaces, ClearPlaces, ClosePlaces, OwnerPlaces, ConnectSpawns
<1>10. ReplyIsOwn'
  BY DEF IInv, TypeOK, IfTypeOK, ReplyIsOwn, FlightInv, PendingInv, LockInv, IsReply, NoReplyComes,
    OneReplyComes, CommandPlaces, ClearPlaces, ClosePlaces, OwnerPlaces, ConnectSpawns
<1>11. OrderInv'
  BY DEF IInv, TypeOK, IfTypeOK, OrderInv, ConnectSpawns
<1>12. ClearInv'
  BY DEF IInv, TypeOK, IfTypeOK, ClearInv, DispatchInv, LockInv, WorkerHolds, OrderInv,
    CommandPlaces, ClearPlaces, ClosePlaces, OwnerPlaces, ConnectSpawns
<1> QED BY <1>2, <1>3, <1>4, <1>5, <1>6, <1>7, <1>8, <1>9, <1>10, <1>11, <1>12 DEF IInv

\* connect cannot start the worker.
LEMMA ConnectSpawnFailsIInv ==
  ASSUME IInv, ConnectSpawnFails
  PROVE  IInv'
<1>1. FlagsOK'
  BY DEF IInv, TypeOK, FlagsOK, ConnectSpawnFails
<1>2. TypeOK'
  <2>1. pc' \in [Threads -> Places] /\ wpc' \in WorkerPlaces
    BY DEF IInv, TypeOK, Places, WorkerPlaces, ConnectSpawnFails
  <2>2. IfTypeOK'
    BY DEF IInv, TypeOK, IfTypeOK, ConnectSpawnFails
  <2>3. calls' \in [Threads -> Nat] /\ \A u \in Threads : calls'[u] <= MaxCalls[u]
    BY DEF IInv, TypeOK, ConnectSpawnFails
  <2>4. /\ hand' \in 0 .. sent' /\ last' \in 0 .. sent' /\ barrier' \in 0 .. sent'
        /\ events' \in Seq(1 .. sent') /\ dispatch' \in Threads \cup {None}
    BY DEF IInv, TypeOK, IfTypeOK, ConnectSpawnFails
  <2> QED BY <1>1, <2>1, <2>2, <2>3, <2>4 DEF TypeOK
<1>3. LockInv'
  BY DEF IInv, TypeOK, IfTypeOK, LockInv, CommandPlaces, ClearPlaces, ClosePlaces, OwnerPlaces,
    ConnectSpawnFails
<1>4. DispatchInv'
  BY DEF IInv, TypeOK, IfTypeOK, DispatchInv, LockInv, WorkerHolds, CommandPlaces, ClearPlaces,
    ClosePlaces, OwnerPlaces, ConnectSpawnFails
<1>5. RunInv'
  BY DEF IInv, TypeOK, IfTypeOK, RunInv, LockInv, CommandPlaces, ClearPlaces, ClosePlaces,
    OwnerPlaces, ConnectSpawnFails
<1>6. ReaderInv'
  BY DEF IInv, TypeOK, IfTypeOK, ReaderInv, ConnectSpawnFails
<1>7. ClosedInv'
  BY DEF IInv, TypeOK, IfTypeOK, ClosedInv, Closed, LockInv, RunInv, ReaderInv, CommandPlaces,
    ClearPlaces, ClosePlaces, OwnerPlaces, ConnectSpawnFails
<1>8. PendingInv'
  BY DEF IInv, TypeOK, IfTypeOK, PendingInv, LockInv, ReaderInv, CommandPlaces, ClearPlaces,
    ClosePlaces, OwnerPlaces, ConnectSpawnFails
<1>9. FlightInv'
  BY DEF IInv, TypeOK, IfTypeOK, FlightInv, PendingInv, LockInv, ReaderInv, Live, IsReply,
    NoReplyComes, OneReplyComes, CommandPlaces, ClearPlaces, ClosePlaces, OwnerPlaces,
    ConnectSpawnFails
<1>10. ReplyIsOwn'
  BY DEF IInv, TypeOK, IfTypeOK, ReplyIsOwn, FlightInv, PendingInv, LockInv, IsReply, NoReplyComes,
    OneReplyComes, CommandPlaces, ClearPlaces, ClosePlaces, OwnerPlaces, ConnectSpawnFails
<1>11. OrderInv'
  BY DEF IInv, TypeOK, IfTypeOK, OrderInv, ConnectSpawnFails
<1>12. ClearInv'
  BY DEF IInv, TypeOK, IfTypeOK, ClearInv, DispatchInv, LockInv, WorkerHolds, OrderInv,
    CommandPlaces, ClearPlaces, ClosePlaces, OwnerPlaces, ConnectSpawnFails
<1> QED BY <1>2, <1>3, <1>4, <1>5, <1>6, <1>7, <1>8, <1>9, <1>10, <1>11, <1>12 DEF IInv

\* disconnect notifies the worker.
LEMMA DisconnectDispatchIInv ==
  ASSUME IInv, DisconnectDispatch
  PROVE  IInv'
<1>1. FlagsOK'
  BY DEF IInv, TypeOK, FlagsOK, DisconnectDispatch, NotifyWorker
<1>2. TypeOK'
  <2>1. pc' \in [Threads -> Places] /\ wpc' \in WorkerPlaces
    BY DEF IInv, TypeOK, Places, WorkerPlaces, DisconnectDispatch, NotifyWorker
  <2>2. IfTypeOK'
    BY DEF IInv, TypeOK, IfTypeOK, DisconnectDispatch, NotifyWorker
  <2>3. calls' \in [Threads -> Nat] /\ \A u \in Threads : calls'[u] <= MaxCalls[u]
    BY DEF IInv, TypeOK, DisconnectDispatch, NotifyWorker
  <2>4. /\ hand' \in 0 .. sent' /\ last' \in 0 .. sent' /\ barrier' \in 0 .. sent'
        /\ events' \in Seq(1 .. sent') /\ dispatch' \in Threads \cup {None}
    BY DEF IInv, TypeOK, IfTypeOK, DisconnectDispatch, NotifyWorker
  <2> QED BY <1>1, <2>1, <2>2, <2>3, <2>4 DEF TypeOK
<1>3. LockInv'
  BY DEF IInv, TypeOK, IfTypeOK, LockInv, CommandPlaces, ClearPlaces, ClosePlaces, OwnerPlaces,
    DisconnectDispatch, NotifyWorker
<1>4. DispatchInv'
  BY DEF IInv, TypeOK, IfTypeOK, DispatchInv, LockInv, WorkerHolds, CommandPlaces, ClearPlaces,
    ClosePlaces, OwnerPlaces, DisconnectDispatch, NotifyWorker
<1>5. RunInv'
  BY DEF IInv, TypeOK, IfTypeOK, RunInv, LockInv, CommandPlaces, ClearPlaces, ClosePlaces,
    OwnerPlaces, DisconnectDispatch, NotifyWorker
<1>6. ReaderInv'
  BY DEF IInv, TypeOK, IfTypeOK, ReaderInv, DisconnectDispatch, NotifyWorker
<1>7. ClosedInv'
  BY DEF IInv, TypeOK, IfTypeOK, ClosedInv, Closed, LockInv, RunInv, ReaderInv, CommandPlaces,
    ClearPlaces, ClosePlaces, OwnerPlaces, DisconnectDispatch, NotifyWorker
<1>8. PendingInv'
  BY DEF IInv, TypeOK, IfTypeOK, PendingInv, LockInv, ReaderInv, CommandPlaces, ClearPlaces,
    ClosePlaces, OwnerPlaces, DisconnectDispatch, NotifyWorker
<1>9. FlightInv'
  BY DEF IInv, TypeOK, IfTypeOK, FlightInv, PendingInv, LockInv, ReaderInv, Live, IsReply,
    NoReplyComes, OneReplyComes, CommandPlaces, ClearPlaces, ClosePlaces, OwnerPlaces,
    DisconnectDispatch, NotifyWorker
<1>10. ReplyIsOwn'
  BY DEF IInv, TypeOK, IfTypeOK, ReplyIsOwn, FlightInv, PendingInv, LockInv, IsReply, NoReplyComes,
    OneReplyComes, CommandPlaces, ClearPlaces, ClosePlaces, OwnerPlaces, DisconnectDispatch,
    NotifyWorker
<1>11. OrderInv'
  BY DEF IInv, TypeOK, IfTypeOK, OrderInv, DisconnectDispatch, NotifyWorker
<1>12. ClearInv'
  BY DEF IInv, TypeOK, IfTypeOK, ClearInv, DispatchInv, LockInv, WorkerHolds, OrderInv,
    CommandPlaces, ClearPlaces, ClosePlaces, OwnerPlaces, DisconnectDispatch, NotifyWorker
<1> QED BY <1>2, <1>3, <1>4, <1>5, <1>6, <1>7, <1>8, <1>9, <1>10, <1>11, <1>12 DEF IInv

\* disconnect joins the worker.
LEMMA DisconnectJoinIInv ==
  ASSUME IInv, DisconnectJoin
  PROVE  IInv'
<1>1. FlagsOK'
  BY DEF IInv, TypeOK, FlagsOK, DisconnectJoin
<1>2. TypeOK'
  <2>1. pc' \in [Threads -> Places] /\ wpc' \in WorkerPlaces
    BY DEF IInv, TypeOK, Places, WorkerPlaces, DisconnectJoin
  <2>2. IfTypeOK'
    BY DEF IInv, TypeOK, IfTypeOK, DisconnectJoin
  <2>3. calls' \in [Threads -> Nat] /\ \A u \in Threads : calls'[u] <= MaxCalls[u]
    BY DEF IInv, TypeOK, DisconnectJoin
  <2>4. /\ hand' \in 0 .. sent' /\ last' \in 0 .. sent' /\ barrier' \in 0 .. sent'
        /\ events' \in Seq(1 .. sent') /\ dispatch' \in Threads \cup {None}
    BY DEF IInv, TypeOK, IfTypeOK, DisconnectJoin
  <2> QED BY <1>1, <2>1, <2>2, <2>3, <2>4 DEF TypeOK
<1>3. LockInv'
  BY DEF IInv, TypeOK, IfTypeOK, LockInv, CommandPlaces, ClearPlaces, ClosePlaces, OwnerPlaces,
    DisconnectJoin
<1>4. DispatchInv'
  BY DEF IInv, TypeOK, IfTypeOK, DispatchInv, LockInv, WorkerHolds, CommandPlaces, ClearPlaces,
    ClosePlaces, OwnerPlaces, DisconnectJoin
<1>5. RunInv'
  BY DEF IInv, TypeOK, IfTypeOK, RunInv, LockInv, CommandPlaces, ClearPlaces, ClosePlaces,
    OwnerPlaces, DisconnectJoin
<1>6. ReaderInv'
  BY DEF IInv, TypeOK, IfTypeOK, ReaderInv, DisconnectJoin
<1>7. ClosedInv'
  BY DEF IInv, TypeOK, IfTypeOK, ClosedInv, Closed, LockInv, RunInv, ReaderInv, CommandPlaces,
    ClearPlaces, ClosePlaces, OwnerPlaces, DisconnectJoin
<1>8. PendingInv'
  BY DEF IInv, TypeOK, IfTypeOK, PendingInv, LockInv, ReaderInv, CommandPlaces, ClearPlaces,
    ClosePlaces, OwnerPlaces, DisconnectJoin
<1>9. FlightInv'
  BY DEF IInv, TypeOK, IfTypeOK, FlightInv, PendingInv, LockInv, ReaderInv, Live, IsReply,
    NoReplyComes, OneReplyComes, CommandPlaces, ClearPlaces, ClosePlaces, OwnerPlaces,
    DisconnectJoin
<1>10. ReplyIsOwn'
  BY DEF IInv, TypeOK, IfTypeOK, ReplyIsOwn, FlightInv, PendingInv, LockInv, IsReply, NoReplyComes,
    OneReplyComes, CommandPlaces, ClearPlaces, ClosePlaces, OwnerPlaces, DisconnectJoin
<1>11. OrderInv'
  BY DEF IInv, TypeOK, IfTypeOK, OrderInv, DisconnectJoin
<1>12. ClearInv'
  BY DEF IInv, TypeOK, IfTypeOK, ClearInv, DispatchInv, LockInv, WorkerHolds, OrderInv,
    CommandPlaces, ClearPlaces, ClosePlaces, OwnerPlaces, DisconnectJoin
<1> QED BY <1>2, <1>3, <1>4, <1>5, <1>6, <1>7, <1>8, <1>9, <1>10, <1>11, <1>12 DEF IInv

\* send begins.
LEMMA SendIInv ==
  ASSUME IInv, NEW t \in Threads, Send(t)
  PROVE  IInv'
<1>1. FlagsOK'
  BY DEF IInv, TypeOK, FlagsOK, Send, Call
<1>2. TypeOK'
  <2>1. pc' \in [Threads -> Places] /\ wpc' \in WorkerPlaces
    BY DEF IInv, TypeOK, Places, WorkerPlaces, Send, Call
  <2>2. IfTypeOK'
    BY DEF IInv, TypeOK, IfTypeOK, Send, Call
  <2>3. calls' \in [Threads -> Nat] /\ \A u \in Threads : calls'[u] <= MaxCalls[u]
    BY DEF IInv, TypeOK, Send, Call
  <2>4. /\ hand' \in 0 .. sent' /\ last' \in 0 .. sent' /\ barrier' \in 0 .. sent'
        /\ events' \in Seq(1 .. sent') /\ dispatch' \in Threads \cup {None}
    BY DEF IInv, TypeOK, IfTypeOK, Send, Call
  <2> QED BY <1>1, <2>1, <2>2, <2>3, <2>4 DEF TypeOK
<1>3. LockInv'
  BY DEF IInv, TypeOK, IfTypeOK, LockInv, CommandPlaces, ClearPlaces, ClosePlaces, OwnerPlaces,
    Send, Call
<1>4. DispatchInv'
  BY DEF IInv, TypeOK, IfTypeOK, DispatchInv, LockInv, WorkerHolds, CommandPlaces, ClearPlaces,
    ClosePlaces, OwnerPlaces, Send, Call
<1>5. RunInv'
  BY DEF IInv, TypeOK, IfTypeOK, RunInv, LockInv, CommandPlaces, ClearPlaces, ClosePlaces,
    OwnerPlaces, Send, Call
<1>6. ReaderInv'
  BY DEF IInv, TypeOK, IfTypeOK, ReaderInv, Send, Call
<1>7. ClosedInv'
  BY DEF IInv, TypeOK, IfTypeOK, ClosedInv, Closed, LockInv, RunInv, ReaderInv, CommandPlaces,
    ClearPlaces, ClosePlaces, OwnerPlaces, Send, Call
<1>8. PendingInv'
  BY DEF IInv, TypeOK, IfTypeOK, PendingInv, LockInv, ReaderInv, CommandPlaces, ClearPlaces,
    ClosePlaces, OwnerPlaces, Send, Call
<1>9. FlightInv'
  BY DEF IInv, TypeOK, IfTypeOK, FlightInv, PendingInv, LockInv, ReaderInv, Live, IsReply,
    NoReplyComes, OneReplyComes, CommandPlaces, ClearPlaces, ClosePlaces, OwnerPlaces, Send, Call
<1>10. ReplyIsOwn'
  BY DEF IInv, TypeOK, IfTypeOK, ReplyIsOwn, FlightInv, PendingInv, LockInv, IsReply, NoReplyComes,
    OneReplyComes, CommandPlaces, ClearPlaces, ClosePlaces, OwnerPlaces, Send, Call
<1>11. OrderInv'
  BY DEF IInv, TypeOK, IfTypeOK, OrderInv, Send, Call
<1>12. ClearInv'
  BY DEF IInv, TypeOK, IfTypeOK, ClearInv, DispatchInv, LockInv, WorkerHolds, OrderInv,
    CommandPlaces, ClearPlaces, ClosePlaces, OwnerPlaces, Send, Call
<1> QED BY <1>2, <1>3, <1>4, <1>5, <1>6, <1>7, <1>8, <1>9, <1>10, <1>11, <1>12 DEF IInv

\* clear begins.
LEMMA ClearIInv ==
  ASSUME IInv, NEW t \in Threads, Clear(t)
  PROVE  IInv'
<1>1. FlagsOK'
  BY DEF IInv, TypeOK, FlagsOK, Clear, Call
<1>2. TypeOK'
  <2>1. pc' \in [Threads -> Places] /\ wpc' \in WorkerPlaces
    BY DEF IInv, TypeOK, Places, WorkerPlaces, Clear, Call
  <2>2. IfTypeOK'
    BY DEF IInv, TypeOK, IfTypeOK, Clear, Call
  <2>3. calls' \in [Threads -> Nat] /\ \A u \in Threads : calls'[u] <= MaxCalls[u]
    BY DEF IInv, TypeOK, Clear, Call
  <2>4. /\ hand' \in 0 .. sent' /\ last' \in 0 .. sent' /\ barrier' \in 0 .. sent'
        /\ events' \in Seq(1 .. sent') /\ dispatch' \in Threads \cup {None}
    BY DEF IInv, TypeOK, IfTypeOK, Clear, Call
  <2> QED BY <1>1, <2>1, <2>2, <2>3, <2>4 DEF TypeOK
<1>3. LockInv'
  BY DEF IInv, TypeOK, IfTypeOK, LockInv, CommandPlaces, ClearPlaces, ClosePlaces, OwnerPlaces,
    Clear, Call
<1>4. DispatchInv'
  BY DEF IInv, TypeOK, IfTypeOK, DispatchInv, LockInv, WorkerHolds, CommandPlaces, ClearPlaces,
    ClosePlaces, OwnerPlaces, Clear, Call
<1>5. RunInv'
  BY DEF IInv, TypeOK, IfTypeOK, RunInv, LockInv, CommandPlaces, ClearPlaces, ClosePlaces,
    OwnerPlaces, Clear, Call
<1>6. ReaderInv'
  BY DEF IInv, TypeOK, IfTypeOK, ReaderInv, Clear, Call
<1>7. ClosedInv'
  BY DEF IInv, TypeOK, IfTypeOK, ClosedInv, Closed, LockInv, RunInv, ReaderInv, CommandPlaces,
    ClearPlaces, ClosePlaces, OwnerPlaces, Clear, Call
<1>8. PendingInv'
  BY DEF IInv, TypeOK, IfTypeOK, PendingInv, LockInv, ReaderInv, CommandPlaces, ClearPlaces,
    ClosePlaces, OwnerPlaces, Clear, Call
<1>9. FlightInv'
  BY DEF IInv, TypeOK, IfTypeOK, FlightInv, PendingInv, LockInv, ReaderInv, Live, IsReply,
    NoReplyComes, OneReplyComes, CommandPlaces, ClearPlaces, ClosePlaces, OwnerPlaces, Clear, Call
<1>10. ReplyIsOwn'
  BY DEF IInv, TypeOK, IfTypeOK, ReplyIsOwn, FlightInv, PendingInv, LockInv, IsReply, NoReplyComes,
    OneReplyComes, CommandPlaces, ClearPlaces, ClosePlaces, OwnerPlaces, Clear, Call
<1>11. OrderInv'
  BY DEF IInv, TypeOK, IfTypeOK, OrderInv, Clear, Call
<1>12. ClearInv'
  BY DEF IInv, TypeOK, IfTypeOK, ClearInv, DispatchInv, LockInv, WorkerHolds, OrderInv,
    CommandPlaces, ClearPlaces, ClosePlaces, OwnerPlaces, Clear, Call
<1> QED BY <1>2, <1>3, <1>4, <1>5, <1>6, <1>7, <1>8, <1>9, <1>10, <1>11, <1>12 DEF IInv

\* receive begins to wait.
LEMMA ReceiveBlockingIInv ==
  ASSUME IInv, NEW t \in Threads, ReceiveBlocking(t)
  PROVE  IInv'
<1>1. FlagsOK'
  BY DEF IInv, TypeOK, FlagsOK, ReceiveBlocking, Call
<1>2. TypeOK'
  <2>1. pc' \in [Threads -> Places] /\ wpc' \in WorkerPlaces
    BY DEF IInv, TypeOK, Places, WorkerPlaces, ReceiveBlocking, Call
  <2>2. IfTypeOK'
    BY DEF IInv, TypeOK, IfTypeOK, ReceiveBlocking, Call
  <2>3. calls' \in [Threads -> Nat] /\ \A u \in Threads : calls'[u] <= MaxCalls[u]
    BY DEF IInv, TypeOK, ReceiveBlocking, Call
  <2>4. /\ hand' \in 0 .. sent' /\ last' \in 0 .. sent' /\ barrier' \in 0 .. sent'
        /\ events' \in Seq(1 .. sent') /\ dispatch' \in Threads \cup {None}
    BY DEF IInv, TypeOK, IfTypeOK, ReceiveBlocking, Call
  <2> QED BY <1>1, <2>1, <2>2, <2>3, <2>4 DEF TypeOK
<1>3. LockInv'
  BY DEF IInv, TypeOK, IfTypeOK, LockInv, CommandPlaces, ClearPlaces, ClosePlaces, OwnerPlaces,
    ReceiveBlocking, Call
<1>4. DispatchInv'
  BY DEF IInv, TypeOK, IfTypeOK, DispatchInv, LockInv, WorkerHolds, CommandPlaces, ClearPlaces,
    ClosePlaces, OwnerPlaces, ReceiveBlocking, Call
<1>5. RunInv'
  BY DEF IInv, TypeOK, IfTypeOK, RunInv, LockInv, CommandPlaces, ClearPlaces, ClosePlaces,
    OwnerPlaces, ReceiveBlocking, Call
<1>6. ReaderInv'
  BY DEF IInv, TypeOK, IfTypeOK, ReaderInv, ReceiveBlocking, Call
<1>7. ClosedInv'
  BY DEF IInv, TypeOK, IfTypeOK, ClosedInv, Closed, LockInv, RunInv, ReaderInv, CommandPlaces,
    ClearPlaces, ClosePlaces, OwnerPlaces, ReceiveBlocking, Call
<1>8. PendingInv'
  BY DEF IInv, TypeOK, IfTypeOK, PendingInv, LockInv, ReaderInv, CommandPlaces, ClearPlaces,
    ClosePlaces, OwnerPlaces, ReceiveBlocking, Call
<1>9. FlightInv'
  BY DEF IInv, TypeOK, IfTypeOK, FlightInv, PendingInv, LockInv, ReaderInv, Live, IsReply,
    NoReplyComes, OneReplyComes, CommandPlaces, ClearPlaces, ClosePlaces, OwnerPlaces,
    ReceiveBlocking, Call
<1>10. ReplyIsOwn'
  BY DEF IInv, TypeOK, IfTypeOK, ReplyIsOwn, FlightInv, PendingInv, LockInv, IsReply, NoReplyComes,
    OneReplyComes, CommandPlaces, ClearPlaces, ClosePlaces, OwnerPlaces, ReceiveBlocking, Call
<1>11. OrderInv'
  BY DEF IInv, TypeOK, IfTypeOK, OrderInv, ReceiveBlocking, Call
<1>12. ClearInv'
  BY DEF IInv, TypeOK, IfTypeOK, ClearInv, DispatchInv, LockInv, WorkerHolds, OrderInv,
    CommandPlaces, ClearPlaces, ClosePlaces, OwnerPlaces, ReceiveBlocking, Call
<1> QED BY <1>2, <1>3, <1>4, <1>5, <1>6, <1>7, <1>8, <1>9, <1>10, <1>11, <1>12 DEF IInv

\* receive takes an event.
LEMMA ReceiveIInv ==
  ASSUME IInv, NEW t \in Threads, Receive(t)
  PROVE  IInv'
<1>s. events \in Seq(1 .. sent) /\ events # <<>> /\ events' = Tail(events) /\ last' = Head(events)
  BY DEF IInv, TypeOK, IfTypeOK, Receive, Pop
<1>a. /\ events' \in Seq(1 .. sent) /\ Len(events) \in Nat /\ Len(events) >= 1
      /\ Len(events') = Len(events) - 1 /\ Head(events) = events[1] /\ Head(events) \in 1 .. sent
      /\ \A i \in 1 .. Len(events) - 1 : events'[i] = events[i + 1]
      /\ last' = events[1]
  BY <1>s, NumberPopped
<1>d. UNCHANGED <<eventQueue, barrier, wpc, hand, acked, sent>> /\ pc' = [pc EXCEPT ![t] = "idle"]
  BY DEF Receive, Call
<1>1. FlagsOK'
  BY DEF IInv, TypeOK, FlagsOK, Receive, Call, Pop
<1>2. TypeOK'
  <2>1. pc' \in [Threads -> Places] /\ wpc' \in WorkerPlaces
    BY DEF IInv, TypeOK, Places, WorkerPlaces, Receive, Call, Pop
  <2>2. IfTypeOK'
    BY <1>a DEF IInv, TypeOK, IfTypeOK, Receive, Call, Pop
  <2>3. calls' \in [Threads -> Nat] /\ \A u \in Threads : calls'[u] <= MaxCalls[u]
    BY SMTT(30) DEF IInv, TypeOK, Receive, Call, Pop
  <2>4. /\ hand' \in 0 .. sent' /\ last' \in 0 .. sent' /\ barrier' \in 0 .. sent'
        /\ events' \in Seq(1 .. sent') /\ dispatch' \in Threads \cup {None}
    BY <1>a DEF IInv, TypeOK, IfTypeOK, Receive, Call, Pop
  <2> QED BY <1>1, <2>1, <2>2, <2>3, <2>4 DEF TypeOK
<1>3. LockInv'
  BY DEF IInv, TypeOK, IfTypeOK, LockInv, CommandPlaces, ClearPlaces, ClosePlaces, OwnerPlaces,
    Receive, Call, Pop
<1>4. DispatchInv'
  BY DEF IInv, TypeOK, IfTypeOK, DispatchInv, LockInv, WorkerHolds, CommandPlaces, ClearPlaces,
    ClosePlaces, OwnerPlaces, Receive, Call, Pop
<1>5. RunInv'
  BY DEF IInv, TypeOK, IfTypeOK, RunInv, LockInv, CommandPlaces, ClearPlaces, ClosePlaces,
    OwnerPlaces, Receive, Call, Pop
<1>6. ReaderInv'
  BY DEF IInv, TypeOK, IfTypeOK, ReaderInv, Receive, Call, Pop
<1>7. ClosedInv'
  BY DEF IInv, TypeOK, IfTypeOK, ClosedInv, Closed, LockInv, RunInv, ReaderInv, CommandPlaces,
    ClearPlaces, ClosePlaces, OwnerPlaces, Receive, Call, Pop
<1>8. PendingInv'
  BY DEF IInv, TypeOK, IfTypeOK, PendingInv, LockInv, ReaderInv, CommandPlaces, ClearPlaces,
    ClosePlaces, OwnerPlaces, Receive, Call, Pop
<1>9. FlightInv'
  BY DEF IInv, TypeOK, IfTypeOK, FlightInv, PendingInv, LockInv, ReaderInv, Live, IsReply,
    NoReplyComes, OneReplyComes, CommandPlaces, ClearPlaces, ClosePlaces, OwnerPlaces, Receive,
    Call, Pop
<1>10. ReplyIsOwn'
  BY DEF IInv, TypeOK, IfTypeOK, ReplyIsOwn, FlightInv, PendingInv, LockInv, IsReply, NoReplyComes,
    OneReplyComes, CommandPlaces, ClearPlaces, ClosePlaces, OwnerPlaces, Receive, Call, Pop
<1>11. OrderInv'
  BY DEF IInv, TypeOK, IfTypeOK, OrderInv, Receive, Call, Pop
<1>12. ClearInv'
  <2>1. \A i \in 1 .. Len(events') : i + 1 \in 1 .. Len(events) /\ events'[i] = events[i + 1]
    BY <1>a
  <2>2. \A i \in 1 .. Len(events') : events'[i] > barrier
    BY <2>1 DEF IInv, ClearInv
  <2> QED BY <1>d, <2>2 DEF IInv, TypeOK, ClearInv
<1> QED BY <1>2, <1>3, <1>4, <1>5, <1>6, <1>7, <1>8, <1>9, <1>10, <1>11, <1>12 DEF IInv

\* receive takes an event, or gives up.
LEMMA ReceiveReturnsIInv ==
  ASSUME IInv, NEW t \in Threads, ReceiveReturns(t)
  PROVE  IInv'
<1>a. \/ UNCHANGED <<events, last>>
      \/ /\ events' \in Seq(1 .. sent) /\ last' \in 1 .. sent
         /\ Len(events) \in Nat /\ Len(events') = Len(events) - 1
         /\ \A i \in 1 .. Len(events) - 1 : events'[i] = events[i + 1]
  <2>1. CASE events # <<>>
    <3>1. events \in Seq(1 .. sent) /\ events' = Tail(events) /\ last' = Head(events)
      BY <2>1 DEF IInv, TypeOK, ReceiveReturns, Pop
    <3> QED BY <2>1, <3>1, NumberPopped
  <2>2. CASE events = <<>>
    BY <2>2 DEF ReceiveReturns
  <2> QED BY <2>1, <2>2
<1>d. UNCHANGED <<eventQueue, barrier, wpc, hand, acked, sent>> /\ pc' = [pc EXCEPT ![t] = "idle"]
  BY DEF ReceiveReturns
<1>1. FlagsOK'
  BY DEF IInv, TypeOK, FlagsOK, ReceiveReturns, Pop
<1>2. TypeOK'
  <2>1. pc' \in [Threads -> Places] /\ wpc' \in WorkerPlaces
    BY DEF IInv, TypeOK, Places, WorkerPlaces, ReceiveReturns, Pop
  <2>2. IfTypeOK'
    BY DEF IInv, TypeOK, IfTypeOK, ReceiveReturns, Pop
  <2>3. calls' \in [Threads -> Nat] /\ \A u \in Threads : calls'[u] <= MaxCalls[u]
    BY DEF IInv, TypeOK, ReceiveReturns, Pop
  <2>4. /\ hand' \in 0 .. sent' /\ last' \in 0 .. sent' /\ barrier' \in 0 .. sent'
        /\ events' \in Seq(1 .. sent') /\ dispatch' \in Threads \cup {None}
    <3>1. /\ hand \in 0 .. sent /\ last \in 0 .. sent /\ barrier \in 0 .. sent
          /\ events \in Seq(1 .. sent) /\ dispatch \in Threads \cup {None} /\ sent \in Nat
      BY DEF IInv, TypeOK, IfTypeOK
    <3>2. UNCHANGED <<hand, barrier, dispatch, sent>>
      BY DEF ReceiveReturns
    <3>3. last' \in 0 .. sent /\ events' \in Seq(1 .. sent)
      BY <1>a, <3>1
    <3> QED BY <3>1, <3>2, <3>3
  <2> QED BY <1>1, <2>1, <2>2, <2>3, <2>4 DEF TypeOK
<1>3. LockInv'
  BY DEF IInv, TypeOK, IfTypeOK, LockInv, CommandPlaces, ClearPlaces, ClosePlaces, OwnerPlaces,
    ReceiveReturns, Pop
<1>4. DispatchInv'
  BY DEF IInv, TypeOK, IfTypeOK, DispatchInv, LockInv, WorkerHolds, CommandPlaces, ClearPlaces,
    ClosePlaces, OwnerPlaces, ReceiveReturns, Pop
<1>5. RunInv'
  BY DEF IInv, TypeOK, IfTypeOK, RunInv, LockInv, CommandPlaces, ClearPlaces, ClosePlaces,
    OwnerPlaces, ReceiveReturns, Pop
<1>6. ReaderInv'
  BY DEF IInv, TypeOK, IfTypeOK, ReaderInv, ReceiveReturns, Pop
<1>7. ClosedInv'
  BY DEF IInv, TypeOK, IfTypeOK, ClosedInv, Closed, LockInv, RunInv, ReaderInv, CommandPlaces,
    ClearPlaces, ClosePlaces, OwnerPlaces, ReceiveReturns, Pop
<1>8. PendingInv'
  BY DEF IInv, TypeOK, IfTypeOK, PendingInv, LockInv, ReaderInv, CommandPlaces, ClearPlaces,
    ClosePlaces, OwnerPlaces, ReceiveReturns, Pop
<1>9. FlightInv'
  BY DEF IInv, TypeOK, IfTypeOK, FlightInv, PendingInv, LockInv, ReaderInv, Live, IsReply,
    NoReplyComes, OneReplyComes, CommandPlaces, ClearPlaces, ClosePlaces, OwnerPlaces,
    ReceiveReturns, Pop
<1>10. ReplyIsOwn'
  BY DEF IInv, TypeOK, IfTypeOK, ReplyIsOwn, FlightInv, PendingInv, LockInv, IsReply, NoReplyComes,
    OneReplyComes, CommandPlaces, ClearPlaces, ClosePlaces, OwnerPlaces, ReceiveReturns, Pop
<1>11. OrderInv'
  BY DEF IInv, TypeOK, IfTypeOK, OrderInv, ReceiveReturns, Pop
<1>12. ClearInv'
  <2>1. \/ events' = events
        \/ \A i \in 1 .. Len(events') : i + 1 \in 1 .. Len(events) /\ events'[i] = events[i + 1]
    BY <1>a
  <2>2. \A i \in 1 .. Len(events') : events'[i] > barrier
    BY <2>1 DEF IInv, ClearInv
  <2> QED BY <1>d, <2>2 DEF IInv, TypeOK, ClearInv
<1> QED BY <1>2, <1>3, <1>4, <1>5, <1>6, <1>7, <1>8, <1>9, <1>10, <1>11, <1>12 DEF IInv

\* send takes the command mutex.
LEMMA SendLockIInv ==
  ASSUME IInv, NEW t \in Threads, SendLock(t)
  PROVE  IInv'
<1>1. FlagsOK'
  BY DEF IInv, TypeOK, FlagsOK, SendLock, LockCommand
<1>2. TypeOK'
  <2>1. pc' \in [Threads -> Places] /\ wpc' \in WorkerPlaces
    BY DEF IInv, TypeOK, Places, WorkerPlaces, SendLock, LockCommand
  <2>2. IfTypeOK'
    BY DEF IInv, TypeOK, IfTypeOK, SendLock, LockCommand
  <2>3. calls' \in [Threads -> Nat] /\ \A u \in Threads : calls'[u] <= MaxCalls[u]
    BY DEF IInv, TypeOK, SendLock, LockCommand
  <2>4. /\ hand' \in 0 .. sent' /\ last' \in 0 .. sent' /\ barrier' \in 0 .. sent'
        /\ events' \in Seq(1 .. sent') /\ dispatch' \in Threads \cup {None}
    BY DEF IInv, TypeOK, IfTypeOK, SendLock, LockCommand
  <2> QED BY <1>1, <2>1, <2>2, <2>3, <2>4 DEF TypeOK
<1>3. LockInv'
  <2>1. CASE running
    BY <2>1, SMTT(30) DEF IInv, TypeOK, IfTypeOK, LockInv, CommandPlaces, ClearPlaces, ClosePlaces,
      OwnerPlaces, SendLock, LockCommand
  <2>2. CASE ~running
    BY <2>2, SMTT(30) DEF IInv, TypeOK, IfTypeOK, LockInv, CommandPlaces, ClearPlaces, ClosePlaces,
      OwnerPlaces, SendLock, LockCommand
  <2> QED BY <2>1, <2>2
<1>4. DispatchInv'
  BY DEF IInv, TypeOK, IfTypeOK, DispatchInv, LockInv, WorkerHolds, CommandPlaces, ClearPlaces,
    ClosePlaces, OwnerPlaces, SendLock, LockCommand
<1>5. RunInv'
  BY SMTT(30) DEF IInv, TypeOK, IfTypeOK, RunInv, LockInv, CommandPlaces, ClearPlaces, ClosePlaces,
    OwnerPlaces, SendLock, LockCommand
<1>6. ReaderInv'
  BY DEF IInv, TypeOK, IfTypeOK, ReaderInv, SendLock, LockCommand
<1>7. ClosedInv'
  BY DEF IInv, TypeOK, IfTypeOK, ClosedInv, Closed, LockInv, RunInv, ReaderInv, CommandPlaces,
    ClearPlaces, ClosePlaces, OwnerPlaces, SendLock, LockCommand
<1>8. PendingInv'
  BY SMTT(30) DEF IInv, TypeOK, IfTypeOK, PendingInv, LockInv, ReaderInv, CommandPlaces, ClearPlaces,
    ClosePlaces, OwnerPlaces, SendLock, LockCommand
<1>9. FlightInv'
  BY DEF IInv, TypeOK, IfTypeOK, FlightInv, PendingInv, LockInv, ReaderInv, Live, IsReply,
    NoReplyComes, OneReplyComes, CommandPlaces, ClearPlaces, ClosePlaces, OwnerPlaces, SendLock,
    LockCommand
<1>10. ReplyIsOwn'
  BY DEF IInv, TypeOK, IfTypeOK, ReplyIsOwn, FlightInv, PendingInv, LockInv, IsReply, NoReplyComes,
    OneReplyComes, CommandPlaces, ClearPlaces, ClosePlaces, OwnerPlaces, SendLock, LockCommand
<1>11. OrderInv'
  BY DEF IInv, TypeOK, IfTypeOK, OrderInv, SendLock, LockCommand
<1>12. ClearInv'
  BY DEF IInv, TypeOK, IfTypeOK, ClearInv, DispatchInv, LockInv, WorkerHolds, OrderInv,
    CommandPlaces, ClearPlaces, ClosePlaces, OwnerPlaces, SendLock, LockCommand
<1> QED BY <1>2, <1>3, <1>4, <1>5, <1>6, <1>7, <1>8, <1>9, <1>10, <1>11, <1>12 DEF IInv

\* send returns.
LEMMA SendReturnsIInv ==
  ASSUME IInv, NEW t \in Threads, SendReturns(t)
  PROVE  IInv'
<1>1. FlagsOK'
  BY DEF IInv, TypeOK, FlagsOK, SendReturns, UnlockCommand
<1>2. TypeOK'
  <2>1. pc' \in [Threads -> Places] /\ wpc' \in WorkerPlaces
    BY DEF IInv, TypeOK, Places, WorkerPlaces, SendReturns, UnlockCommand
  <2>2. IfTypeOK'
    BY DEF IInv, TypeOK, IfTypeOK, SendReturns, UnlockCommand
  <2>3. calls' \in [Threads -> Nat] /\ \A u \in Threads : calls'[u] <= MaxCalls[u]
    BY DEF IInv, TypeOK, SendReturns, UnlockCommand
  <2>4. /\ hand' \in 0 .. sent' /\ last' \in 0 .. sent' /\ barrier' \in 0 .. sent'
        /\ events' \in Seq(1 .. sent') /\ dispatch' \in Threads \cup {None}
    BY DEF IInv, TypeOK, IfTypeOK, SendReturns, UnlockCommand
  <2> QED BY <1>1, <2>1, <2>2, <2>3, <2>4 DEF TypeOK
<1>3. LockInv'
  BY DEF IInv, TypeOK, IfTypeOK, LockInv, CommandPlaces, ClearPlaces, ClosePlaces, OwnerPlaces,
    SendReturns, UnlockCommand
<1>4. DispatchInv'
  BY DEF IInv, TypeOK, IfTypeOK, DispatchInv, LockInv, WorkerHolds, CommandPlaces, ClearPlaces,
    ClosePlaces, OwnerPlaces, SendReturns, UnlockCommand
<1>5. RunInv'
  BY DEF IInv, TypeOK, IfTypeOK, RunInv, LockInv, CommandPlaces, ClearPlaces, ClosePlaces,
    OwnerPlaces, SendReturns, UnlockCommand
<1>6. ReaderInv'
  BY DEF IInv, TypeOK, IfTypeOK, ReaderInv, SendReturns, UnlockCommand
<1>7. ClosedInv'
  BY DEF IInv, TypeOK, IfTypeOK, ClosedInv, Closed, LockInv, RunInv, ReaderInv, CommandPlaces,
    ClearPlaces, ClosePlaces, OwnerPlaces, SendReturns, UnlockCommand
<1>8. PendingInv'
  BY DEF IInv, TypeOK, IfTypeOK, PendingInv, LockInv, ReaderInv, CommandPlaces, ClearPlaces,
    ClosePlaces, OwnerPlaces, SendReturns, UnlockCommand
<1>9. FlightInv'
  BY DEF IInv, TypeOK, IfTypeOK, FlightInv, PendingInv, LockInv, ReaderInv, Live, IsReply,
    NoReplyComes, OneReplyComes, CommandPlaces, ClearPlaces, ClosePlaces, OwnerPlaces, SendReturns,
    UnlockCommand
<1>10. ReplyIsOwn'
  BY DEF IInv, TypeOK, IfTypeOK, ReplyIsOwn, FlightInv, PendingInv, LockInv, IsReply, NoReplyComes,
    OneReplyComes, CommandPlaces, ClearPlaces, ClosePlaces, OwnerPlaces, SendReturns, UnlockCommand
<1>11. OrderInv'
  BY DEF IInv, TypeOK, IfTypeOK, OrderInv, SendReturns, UnlockCommand
<1>12. ClearInv'
  BY DEF IInv, TypeOK, IfTypeOK, ClearInv, DispatchInv, LockInv, WorkerHolds, OrderInv,
    CommandPlaces, ClearPlaces, ClosePlaces, OwnerPlaces, SendReturns, UnlockCommand
<1> QED BY <1>2, <1>3, <1>4, <1>5, <1>6, <1>7, <1>8, <1>9, <1>10, <1>11, <1>12 DEF IInv

\* clear takes the command mutex.
LEMMA ClearLockIInv ==
  ASSUME IInv, NEW t \in Threads, ClearLock(t)
  PROVE  IInv'
<1>1. FlagsOK'
  BY DEF IInv, TypeOK, FlagsOK, ClearLock, LockCommand
<1>2. TypeOK'
  <2>1. pc' \in [Threads -> Places] /\ wpc' \in WorkerPlaces
    BY DEF IInv, TypeOK, Places, WorkerPlaces, ClearLock, LockCommand
  <2>2. IfTypeOK'
    BY DEF IInv, TypeOK, IfTypeOK, ClearLock, LockCommand
  <2>3. calls' \in [Threads -> Nat] /\ \A u \in Threads : calls'[u] <= MaxCalls[u]
    BY DEF IInv, TypeOK, ClearLock, LockCommand
  <2>4. /\ hand' \in 0 .. sent' /\ last' \in 0 .. sent' /\ barrier' \in 0 .. sent'
        /\ events' \in Seq(1 .. sent') /\ dispatch' \in Threads \cup {None}
    BY DEF IInv, TypeOK, IfTypeOK, ClearLock, LockCommand
  <2> QED BY <1>1, <2>1, <2>2, <2>3, <2>4 DEF TypeOK
<1>3. LockInv'
  <2>1. CASE running
    BY <2>1, SMTT(30) DEF IInv, TypeOK, IfTypeOK, LockInv, CommandPlaces, ClearPlaces, ClosePlaces,
      OwnerPlaces, ClearLock, LockCommand
  <2>2. CASE ~running
    BY <2>2, SMTT(30) DEF IInv, TypeOK, IfTypeOK, LockInv, CommandPlaces, ClearPlaces, ClosePlaces,
      OwnerPlaces, ClearLock, LockCommand
  <2> QED BY <2>1, <2>2
<1>4. DispatchInv'
  BY SMTT(30) DEF IInv, TypeOK, IfTypeOK, DispatchInv, LockInv, WorkerHolds, CommandPlaces, ClearPlaces,
    ClosePlaces, OwnerPlaces, ClearLock, LockCommand
<1>5. RunInv'
  BY SMTT(30) DEF IInv, TypeOK, IfTypeOK, RunInv, LockInv, CommandPlaces, ClearPlaces, ClosePlaces,
    OwnerPlaces, ClearLock, LockCommand
<1>6. ReaderInv'
  BY DEF IInv, TypeOK, IfTypeOK, ReaderInv, ClearLock, LockCommand
<1>7. ClosedInv'
  BY DEF IInv, TypeOK, IfTypeOK, ClosedInv, Closed, LockInv, RunInv, ReaderInv, CommandPlaces,
    ClearPlaces, ClosePlaces, OwnerPlaces, ClearLock, LockCommand
<1>8. PendingInv'
  BY SMTT(30) DEF IInv, TypeOK, IfTypeOK, PendingInv, LockInv, ReaderInv, CommandPlaces, ClearPlaces,
    ClosePlaces, OwnerPlaces, ClearLock, LockCommand
<1>9. FlightInv'
  BY DEF IInv, TypeOK, IfTypeOK, FlightInv, PendingInv, LockInv, ReaderInv, Live, IsReply,
    NoReplyComes, OneReplyComes, CommandPlaces, ClearPlaces, ClosePlaces, OwnerPlaces, ClearLock,
    LockCommand
<1>10. ReplyIsOwn'
  BY DEF IInv, TypeOK, IfTypeOK, ReplyIsOwn, FlightInv, PendingInv, LockInv, IsReply, NoReplyComes,
    OneReplyComes, CommandPlaces, ClearPlaces, ClosePlaces, OwnerPlaces, ClearLock, LockCommand
<1>11. OrderInv'
  BY DEF IInv, TypeOK, IfTypeOK, OrderInv, ClearLock, LockCommand
<1>12. ClearInv'
  BY DEF IInv, TypeOK, IfTypeOK, ClearInv, DispatchInv, LockInv, WorkerHolds, OrderInv,
    CommandPlaces, ClearPlaces, ClosePlaces, OwnerPlaces, ClearLock, LockCommand
<1> QED BY <1>2, <1>3, <1>4, <1>5, <1>6, <1>7, <1>8, <1>9, <1>10, <1>11, <1>12 DEF IInv

\* clear takes the dispatch mutex.
LEMMA ClearDispatchIInv ==
  ASSUME IInv, NEW t \in Threads, ClearDispatch(t)
  PROVE  IInv'
<1>1. FlagsOK'
  BY DEF IInv, TypeOK, FlagsOK, ClearDispatch
<1>2. TypeOK'
  <2>1. pc' \in [Threads -> Places] /\ wpc' \in WorkerPlaces
    BY DEF IInv, TypeOK, Places, WorkerPlaces, ClearDispatch
  <2>2. IfTypeOK'
    BY DEF IInv, TypeOK, IfTypeOK, ClearDispatch
  <2>3. calls' \in [Threads -> Nat] /\ \A u \in Threads : calls'[u] <= MaxCalls[u]
    BY DEF IInv, TypeOK, ClearDispatch
  <2>4. /\ hand' \in 0 .. sent' /\ last' \in 0 .. sent' /\ barrier' \in 0 .. sent'
        /\ events' \in Seq(1 .. sent') /\ dispatch' \in Threads \cup {None}
    BY DEF IInv, TypeOK, IfTypeOK, ClearDispatch
  <2> QED BY <1>1, <2>1, <2>2, <2>3, <2>4 DEF TypeOK
<1>3. LockInv'
  BY SMTT(30) DEF IInv, TypeOK, IfTypeOK, LockInv, CommandPlaces, ClearPlaces, ClosePlaces, OwnerPlaces,
    ClearDispatch
<1>4. DispatchInv'
  <2>1. CASE running
    BY <2>1 DEF IInv, TypeOK, IfTypeOK, DispatchInv, LockInv, WorkerHolds, CommandPlaces,
      ClearPlaces, ClosePlaces, OwnerPlaces, ClearDispatch
  <2>2. CASE ~running
    BY <2>2 DEF IInv, TypeOK, IfTypeOK, DispatchInv, LockInv, WorkerHolds, CommandPlaces,
      ClearPlaces, ClosePlaces, OwnerPlaces, ClearDispatch
  <2> QED BY <2>1, <2>2
<1>5. RunInv'
  BY DEF IInv, TypeOK, IfTypeOK, RunInv, LockInv, CommandPlaces, ClearPlaces, ClosePlaces,
    OwnerPlaces, ClearDispatch
<1>6. ReaderInv'
  BY DEF IInv, TypeOK, IfTypeOK, ReaderInv, ClearDispatch
<1>7. ClosedInv'
  BY DEF IInv, TypeOK, IfTypeOK, ClosedInv, Closed, LockInv, RunInv, ReaderInv, CommandPlaces,
    ClearPlaces, ClosePlaces, OwnerPlaces, ClearDispatch
<1>8. PendingInv'
  BY DEF IInv, TypeOK, IfTypeOK, PendingInv, LockInv, ReaderInv, CommandPlaces, ClearPlaces,
    ClosePlaces, OwnerPlaces, ClearDispatch
<1>9. FlightInv'
  BY DEF IInv, TypeOK, IfTypeOK, FlightInv, PendingInv, LockInv, ReaderInv, Live, IsReply,
    NoReplyComes, OneReplyComes, CommandPlaces, ClearPlaces, ClosePlaces, OwnerPlaces, ClearDispatch
<1>10. ReplyIsOwn'
  BY DEF IInv, TypeOK, IfTypeOK, ReplyIsOwn, FlightInv, PendingInv, LockInv, IsReply, NoReplyComes,
    OneReplyComes, CommandPlaces, ClearPlaces, ClosePlaces, OwnerPlaces, ClearDispatch
<1>11. OrderInv'
  BY DEF IInv, TypeOK, IfTypeOK, OrderInv, ClearDispatch
<1>12. ClearInv'
  BY DEF IInv, TypeOK, IfTypeOK, ClearInv, DispatchInv, LockInv, WorkerHolds, OrderInv,
    CommandPlaces, ClearPlaces, ClosePlaces, OwnerPlaces, ClearDispatch
<1> QED BY <1>2, <1>3, <1>4, <1>5, <1>6, <1>7, <1>8, <1>9, <1>10, <1>11, <1>12 DEF IInv

\* clear empties the queue of the interface.
LEMMA ClearReturnsIInv ==
  ASSUME IInv, NEW t \in Threads, ClearReturns(t)
  PROVE  IInv'
<1>a. eventQueue' = <<>> \/ (eventQueue' = eventQueue /\ ~ret)
  BY DEF IInv, PendingInv, ClearReturns
<1>1. FlagsOK'
  BY DEF IInv, TypeOK, FlagsOK, ClearReturns
<1>2. TypeOK'
  <2>1. pc' \in [Threads -> Places] /\ wpc' \in WorkerPlaces
    BY DEF IInv, TypeOK, Places, WorkerPlaces, ClearReturns
  <2>2. IfTypeOK'
    <3>1. UNCHANGED <<transport, sent, bad, issued, toServer, fromServer, rline, rpc, cmd, op, seen, complete, response, acked>>
      BY DEF ClearReturns
    <3>2. eventQueue' \in Seq(1 .. sent)
      <4>1. eventQueue \in Seq(1 .. sent)
        BY DEF IInv, TypeOK, IfTypeOK
      <4>2. <<>> \in Seq(1 .. sent)
        OBVIOUS
      <4> QED BY <1>a, <4>1, <4>2
    <3> QED BY <3>1, <3>2 DEF IInv, TypeOK, IfTypeOK
  <2>3. calls' \in [Threads -> Nat] /\ \A u \in Threads : calls'[u] <= MaxCalls[u]
    BY DEF IInv, TypeOK, ClearReturns
  <2>4. /\ hand' \in 0 .. sent' /\ last' \in 0 .. sent' /\ barrier' \in 0 .. sent'
        /\ events' \in Seq(1 .. sent') /\ dispatch' \in Threads \cup {None}
    BY DEF IInv, TypeOK, IfTypeOK, ClearReturns
  <2> QED BY <1>1, <2>1, <2>2, <2>3, <2>4 DEF TypeOK
<1>3. LockInv'
  BY DEF IInv, TypeOK, IfTypeOK, LockInv, CommandPlaces, ClearPlaces, ClosePlaces, OwnerPlaces,
    ClearReturns
<1>4. DispatchInv'
  BY DEF IInv, TypeOK, IfTypeOK, DispatchInv, LockInv, WorkerHolds, CommandPlaces, ClearPlaces,
    ClosePlaces, OwnerPlaces, ClearReturns
<1>5. RunInv'
  BY DEF IInv, TypeOK, IfTypeOK, RunInv, LockInv, CommandPlaces, ClearPlaces, ClosePlaces,
    OwnerPlaces, ClearReturns
<1>6. ReaderInv'
  BY DEF IInv, TypeOK, IfTypeOK, ReaderInv, ClearReturns
<1>7. ClosedInv'
  BY DEF IInv, TypeOK, IfTypeOK, ClosedInv, Closed, LockInv, RunInv, ReaderInv, CommandPlaces,
    ClearPlaces, ClosePlaces, OwnerPlaces, ClearReturns
<1>8. PendingInv'
  BY DEF IInv, TypeOK, IfTypeOK, PendingInv, LockInv, ReaderInv, CommandPlaces, ClearPlaces,
    ClosePlaces, OwnerPlaces, ClearReturns
<1>9. FlightInv'
  BY DEF IInv, TypeOK, IfTypeOK, FlightInv, PendingInv, LockInv, ReaderInv, Live, IsReply,
    NoReplyComes, OneReplyComes, CommandPlaces, ClearPlaces, ClosePlaces, OwnerPlaces, ClearReturns
<1>10. ReplyIsOwn'
  BY DEF IInv, TypeOK, IfTypeOK, ReplyIsOwn, FlightInv, PendingInv, LockInv, IsReply, NoReplyComes,
    OneReplyComes, CommandPlaces, ClearPlaces, ClosePlaces, OwnerPlaces, ClearReturns
<1>11. OrderInv'
  BY DEF IInv, TypeOK, IfTypeOK, OrderInv, ClearReturns
<1>12. ClearInv'
  <2>1. UNCHANGED <<events, barrier, wpc, hand, acked>>
    BY DEF ClearReturns
  <2>2. \A u \in Threads : pc'[u] = "clearEvents" => u = t /\ eventQueue' = <<>>
    BY <1>a DEF IInv, TypeOK, LockInv, CommandPlaces, ClearPlaces, ClearReturns
  <2>3. \A i \in 1 .. Len(eventQueue') : eventQueue'[i] > barrier
    BY <1>a DEF IInv, ClearInv
  <2>4. ASSUME NEW u \in Threads, pc'[u] = "clearEvents"
        PROVE  \A i \in 1 .. Len(eventQueue') : eventQueue'[i] > acked
    BY <2>2, <2>4
  <2> QED BY <2>1, <2>3, <2>4 DEF IInv, ClearInv
<1> QED BY <1>2, <1>3, <1>4, <1>5, <1>6, <1>7, <1>8, <1>9, <1>10, <1>11, <1>12 DEF IInv

\* clear empties the queue of the client.
LEMMA ClearEventsIInv ==
  ASSUME IInv, NEW t \in Threads, ClearEvents(t)
  PROVE  IInv'
<1>1. FlagsOK'
  BY DEF IInv, TypeOK, FlagsOK, ClearEvents
<1>2. TypeOK'
  <2>1. pc' \in [Threads -> Places] /\ wpc' \in WorkerPlaces
    BY DEF IInv, TypeOK, Places, WorkerPlaces, ClearEvents
  <2>2. IfTypeOK'
    BY DEF IInv, TypeOK, IfTypeOK, ClearEvents
  <2>3. calls' \in [Threads -> Nat] /\ \A u \in Threads : calls'[u] <= MaxCalls[u]
    BY DEF IInv, TypeOK, ClearEvents
  <2>4. /\ hand' \in 0 .. sent' /\ last' \in 0 .. sent' /\ barrier' \in 0 .. sent'
        /\ events' \in Seq(1 .. sent') /\ dispatch' \in Threads \cup {None}
    BY DEF IInv, TypeOK, IfTypeOK, ClearEvents
  <2> QED BY <1>1, <2>1, <2>2, <2>3, <2>4 DEF TypeOK
<1>3. LockInv'
  BY DEF IInv, TypeOK, IfTypeOK, LockInv, CommandPlaces, ClearPlaces, ClosePlaces, OwnerPlaces,
    ClearEvents
<1>4. DispatchInv'
  BY DEF IInv, TypeOK, IfTypeOK, DispatchInv, LockInv, WorkerHolds, CommandPlaces, ClearPlaces,
    ClosePlaces, OwnerPlaces, ClearEvents
<1>5. RunInv'
  BY DEF IInv, TypeOK, IfTypeOK, RunInv, LockInv, CommandPlaces, ClearPlaces, ClosePlaces,
    OwnerPlaces, ClearEvents
<1>6. ReaderInv'
  BY DEF IInv, TypeOK, IfTypeOK, ReaderInv, ClearEvents
<1>7. ClosedInv'
  BY DEF IInv, TypeOK, IfTypeOK, ClosedInv, Closed, LockInv, RunInv, ReaderInv, CommandPlaces,
    ClearPlaces, ClosePlaces, OwnerPlaces, ClearEvents
<1>8. PendingInv'
  BY DEF IInv, TypeOK, IfTypeOK, PendingInv, LockInv, ReaderInv, CommandPlaces, ClearPlaces,
    ClosePlaces, OwnerPlaces, ClearEvents
<1>9. FlightInv'
  BY DEF IInv, TypeOK, IfTypeOK, FlightInv, PendingInv, LockInv, ReaderInv, Live, IsReply,
    NoReplyComes, OneReplyComes, CommandPlaces, ClearPlaces, ClosePlaces, OwnerPlaces, ClearEvents
<1>10. ReplyIsOwn'
  BY DEF IInv, TypeOK, IfTypeOK, ReplyIsOwn, FlightInv, PendingInv, LockInv, IsReply, NoReplyComes,
    OneReplyComes, CommandPlaces, ClearPlaces, ClosePlaces, OwnerPlaces, ClearEvents
<1>11. OrderInv'
  BY DEF IInv, TypeOK, IfTypeOK, OrderInv, ClearEvents
<1>12. ClearInv'
  BY DEF IInv, TypeOK, IfTypeOK, ClearInv, DispatchInv, LockInv, WorkerHolds, OrderInv,
    CommandPlaces, ClearPlaces, ClosePlaces, OwnerPlaces, ClearEvents
<1> QED BY <1>2, <1>3, <1>4, <1>5, <1>6, <1>7, <1>8, <1>9, <1>10, <1>11, <1>12 DEF IInv

\* clear releases the dispatch mutex.
LEMMA ClearUnlockIInv ==
  ASSUME IInv, NEW t \in Threads, ClearUnlock(t)
  PROVE  IInv'
<1>1. FlagsOK'
  BY DEF IInv, TypeOK, FlagsOK, ClearUnlock
<1>2. TypeOK'
  <2>1. pc' \in [Threads -> Places] /\ wpc' \in WorkerPlaces
    BY DEF IInv, TypeOK, Places, WorkerPlaces, ClearUnlock
  <2>2. IfTypeOK'
    BY DEF IInv, TypeOK, IfTypeOK, ClearUnlock
  <2>3. calls' \in [Threads -> Nat] /\ \A u \in Threads : calls'[u] <= MaxCalls[u]
    BY DEF IInv, TypeOK, ClearUnlock
  <2>4. /\ hand' \in 0 .. sent' /\ last' \in 0 .. sent' /\ barrier' \in 0 .. sent'
        /\ events' \in Seq(1 .. sent') /\ dispatch' \in Threads \cup {None}
    BY DEF IInv, TypeOK, IfTypeOK, ClearUnlock
  <2> QED BY <1>1, <2>1, <2>2, <2>3, <2>4 DEF TypeOK
<1>3. LockInv'
  BY DEF IInv, TypeOK, IfTypeOK, LockInv, CommandPlaces, ClearPlaces, ClosePlaces, OwnerPlaces,
    ClearUnlock
<1>4. DispatchInv'
  BY DEF IInv, TypeOK, IfTypeOK, DispatchInv, LockInv, WorkerHolds, CommandPlaces, ClearPlaces,
    ClosePlaces, OwnerPlaces, ClearUnlock
<1>5. RunInv'
  BY DEF IInv, TypeOK, IfTypeOK, RunInv, LockInv, CommandPlaces, ClearPlaces, ClosePlaces,
    OwnerPlaces, ClearUnlock
<1>6. ReaderInv'
  BY DEF IInv, TypeOK, IfTypeOK, ReaderInv, ClearUnlock
<1>7. ClosedInv'
  BY DEF IInv, TypeOK, IfTypeOK, ClosedInv, Closed, LockInv, RunInv, ReaderInv, CommandPlaces,
    ClearPlaces, ClosePlaces, OwnerPlaces, ClearUnlock
<1>8. PendingInv'
  BY DEF IInv, TypeOK, IfTypeOK, PendingInv, LockInv, ReaderInv, CommandPlaces, ClearPlaces,
    ClosePlaces, OwnerPlaces, ClearUnlock
<1>9. FlightInv'
  BY DEF IInv, TypeOK, IfTypeOK, FlightInv, PendingInv, LockInv, ReaderInv, Live, IsReply,
    NoReplyComes, OneReplyComes, CommandPlaces, ClearPlaces, ClosePlaces, OwnerPlaces, ClearUnlock
<1>10. ReplyIsOwn'
  BY DEF IInv, TypeOK, IfTypeOK, ReplyIsOwn, FlightInv, PendingInv, LockInv, IsReply, NoReplyComes,
    OneReplyComes, CommandPlaces, ClearPlaces, ClosePlaces, OwnerPlaces, ClearUnlock
<1>11. OrderInv'
  BY DEF IInv, TypeOK, IfTypeOK, OrderInv, ClearUnlock
<1>12. ClearInv'
  BY DEF IInv, TypeOK, IfTypeOK, ClearInv, DispatchInv, LockInv, WorkerHolds, OrderInv,
    CommandPlaces, ClearPlaces, ClosePlaces, OwnerPlaces, ClearUnlock
<1> QED BY <1>2, <1>3, <1>4, <1>5, <1>6, <1>7, <1>8, <1>9, <1>10, <1>11, <1>12 DEF IInv

\* clear ends the pause, and returns.
LEMMA ClearUnpauseIInv ==
  ASSUME IInv, NEW t \in Threads, ClearUnpause(t)
  PROVE  IInv'
<1>1. FlagsOK'
  BY DEF IInv, TypeOK, FlagsOK, ClearUnpause, Unpause, NotifyWorker, UnlockCommand
<1>2. TypeOK'
  <2>1. pc' \in [Threads -> Places] /\ wpc' \in WorkerPlaces
    BY DEF IInv, TypeOK, Places, WorkerPlaces, ClearUnpause, Unpause, NotifyWorker, UnlockCommand
  <2>2. IfTypeOK'
    BY DEF IInv, TypeOK, IfTypeOK, ClearUnpause, Unpause, NotifyWorker, UnlockCommand
  <2>3. calls' \in [Threads -> Nat] /\ \A u \in Threads : calls'[u] <= MaxCalls[u]
    BY DEF IInv, TypeOK, ClearUnpause, Unpause, NotifyWorker, UnlockCommand
  <2>4. /\ hand' \in 0 .. sent' /\ last' \in 0 .. sent' /\ barrier' \in 0 .. sent'
        /\ events' \in Seq(1 .. sent') /\ dispatch' \in Threads \cup {None}
    BY DEF IInv, TypeOK, IfTypeOK, ClearUnpause, Unpause, NotifyWorker, UnlockCommand
  <2> QED BY <1>1, <2>1, <2>2, <2>3, <2>4 DEF TypeOK
<1>3. LockInv'
  BY DEF IInv, TypeOK, IfTypeOK, LockInv, CommandPlaces, ClearPlaces, ClosePlaces, OwnerPlaces,
    ClearUnpause, Unpause, NotifyWorker, UnlockCommand
<1>4. DispatchInv'
  BY DEF IInv, TypeOK, IfTypeOK, DispatchInv, LockInv, WorkerHolds, CommandPlaces, ClearPlaces,
    ClosePlaces, OwnerPlaces, ClearUnpause, Unpause, NotifyWorker, UnlockCommand
<1>5. RunInv'
  BY DEF IInv, TypeOK, IfTypeOK, RunInv, LockInv, CommandPlaces, ClearPlaces, ClosePlaces,
    OwnerPlaces, ClearUnpause, Unpause, NotifyWorker, UnlockCommand
<1>6. ReaderInv'
  BY DEF IInv, TypeOK, IfTypeOK, ReaderInv, ClearUnpause, Unpause, NotifyWorker, UnlockCommand
<1>7. ClosedInv'
  BY DEF IInv, TypeOK, IfTypeOK, ClosedInv, Closed, LockInv, RunInv, ReaderInv, CommandPlaces,
    ClearPlaces, ClosePlaces, OwnerPlaces, ClearUnpause, Unpause, NotifyWorker, UnlockCommand
<1>8. PendingInv'
  BY DEF IInv, TypeOK, IfTypeOK, PendingInv, LockInv, ReaderInv, CommandPlaces, ClearPlaces,
    ClosePlaces, OwnerPlaces, ClearUnpause, Unpause, NotifyWorker, UnlockCommand
<1>9. FlightInv'
  BY DEF IInv, TypeOK, IfTypeOK, FlightInv, PendingInv, LockInv, ReaderInv, Live, IsReply,
    NoReplyComes, OneReplyComes, CommandPlaces, ClearPlaces, ClosePlaces, OwnerPlaces, ClearUnpause,
    Unpause, NotifyWorker, UnlockCommand
<1>10. ReplyIsOwn'
  BY DEF IInv, TypeOK, IfTypeOK, ReplyIsOwn, FlightInv, PendingInv, LockInv, IsReply, NoReplyComes,
    OneReplyComes, CommandPlaces, ClearPlaces, ClosePlaces, OwnerPlaces, ClearUnpause, Unpause,
    NotifyWorker, UnlockCommand
<1>11. OrderInv'
  BY DEF IInv, TypeOK, IfTypeOK, OrderInv, ClearUnpause, Unpause, NotifyWorker, UnlockCommand
<1>12. ClearInv'
  BY DEF IInv, TypeOK, IfTypeOK, ClearInv, DispatchInv, LockInv, WorkerHolds, OrderInv,
    CommandPlaces, ClearPlaces, ClosePlaces, OwnerPlaces, ClearUnpause, Unpause, NotifyWorker,
    UnlockCommand
<1> QED BY <1>2, <1>3, <1>4, <1>5, <1>6, <1>7, <1>8, <1>9, <1>10, <1>11, <1>12 DEF IInv

\* The worker takes the dispatch mutex, or ends.
LEMMA WorkerTopIInv ==
  ASSUME IInv, WorkerTop
  PROVE  IInv'
<1>1. FlagsOK'
  BY DEF IInv, TypeOK, FlagsOK, WorkerTop
<1>2. LockInv' /\ ReaderInv' /\ PendingInv' /\ FlightInv' /\ ReplyIsOwn' /\ OrderInv'
  BY ConnectionFrame DEF IInv, WorkerTop
<1>3. TypeOK'
  BY <1>1 DEF IInv, TypeOK, IfTypeOK, Places, WorkerPlaces, WorkerTop
<1>4. DispatchInv'
  BY DEF IInv, TypeOK, IfTypeOK, DispatchInv, LockInv, WorkerHolds, CommandPlaces, ClearPlaces,
    ClosePlaces, OwnerPlaces, WorkerTop
<1>5. RunInv'
  BY DEF IInv, TypeOK, IfTypeOK, RunInv, LockInv, CommandPlaces, ClearPlaces, ClosePlaces,
    OwnerPlaces, WorkerTop
<1>6. ClosedInv'
  BY DEF IInv, TypeOK, IfTypeOK, ClosedInv, Closed, LockInv, RunInv, ReaderInv, CommandPlaces,
    ClearPlaces, ClosePlaces, OwnerPlaces, WorkerTop
<1>7. ClearInv'
  BY DEF IInv, TypeOK, IfTypeOK, ClearInv, DispatchInv, LockInv, WorkerHolds, OrderInv,
    CommandPlaces, ClearPlaces, ClosePlaces, OwnerPlaces, WorkerTop
<1> QED BY <1>2, <1>3, <1>4, <1>5, <1>6, <1>7 DEF IInv

\* The worker looks for a pause.
LEMMA WorkerEvalIInv ==
  ASSUME IInv, WorkerEval
  PROVE  IInv'
<1>1. FlagsOK'
  BY DEF IInv, TypeOK, FlagsOK, WorkerEval
<1>2. LockInv' /\ ReaderInv' /\ PendingInv' /\ FlightInv' /\ ReplyIsOwn' /\ OrderInv'
  BY ConnectionFrame DEF IInv, WorkerEval
<1>3. TypeOK'
  BY <1>1 DEF IInv, TypeOK, IfTypeOK, Places, WorkerPlaces, WorkerEval
<1>4. DispatchInv'
  BY DEF IInv, TypeOK, IfTypeOK, DispatchInv, LockInv, WorkerHolds, CommandPlaces, ClearPlaces,
    ClosePlaces, OwnerPlaces, WorkerEval
<1>5. RunInv'
  BY DEF IInv, TypeOK, IfTypeOK, RunInv, LockInv, CommandPlaces, ClearPlaces, ClosePlaces,
    OwnerPlaces, WorkerEval
<1>6. ClosedInv'
  BY DEF IInv, TypeOK, IfTypeOK, ClosedInv, Closed, LockInv, RunInv, ReaderInv, CommandPlaces,
    ClearPlaces, ClosePlaces, OwnerPlaces, WorkerEval
<1>7. ClearInv'
  BY DEF IInv, TypeOK, IfTypeOK, ClearInv, DispatchInv, LockInv, WorkerHolds, OrderInv,
    CommandPlaces, ClearPlaces, ClosePlaces, OwnerPlaces, WorkerEval
<1> QED BY <1>2, <1>3, <1>4, <1>5, <1>6, <1>7 DEF IInv

\* The worker waits for the end of the pause.
LEMMA WorkerBlockIInv ==
  ASSUME IInv, WorkerBlock
  PROVE  IInv'
<1>1. FlagsOK'
  BY DEF IInv, TypeOK, FlagsOK, WorkerBlock
<1>2. LockInv' /\ ReaderInv' /\ PendingInv' /\ FlightInv' /\ ReplyIsOwn' /\ OrderInv'
  BY ConnectionFrame DEF IInv, WorkerBlock
<1>3. TypeOK'
  BY <1>1 DEF IInv, TypeOK, IfTypeOK, Places, WorkerPlaces, WorkerBlock
<1>4. DispatchInv'
  BY DEF IInv, TypeOK, IfTypeOK, DispatchInv, LockInv, WorkerHolds, CommandPlaces, ClearPlaces,
    ClosePlaces, OwnerPlaces, WorkerBlock
<1>5. RunInv'
  BY DEF IInv, TypeOK, IfTypeOK, RunInv, LockInv, CommandPlaces, ClearPlaces, ClosePlaces,
    OwnerPlaces, WorkerBlock
<1>6. ClosedInv'
  BY DEF IInv, TypeOK, IfTypeOK, ClosedInv, Closed, LockInv, RunInv, ReaderInv, CommandPlaces,
    ClearPlaces, ClosePlaces, OwnerPlaces, WorkerBlock
<1>7. ClearInv'
  BY DEF IInv, TypeOK, IfTypeOK, ClearInv, DispatchInv, LockInv, WorkerHolds, OrderInv,
    CommandPlaces, ClearPlaces, ClosePlaces, OwnerPlaces, WorkerBlock
<1> QED BY <1>2, <1>3, <1>4, <1>5, <1>6, <1>7 DEF IInv

\* The worker has been notified.
LEMMA WorkerWokenIInv ==
  ASSUME IInv, WorkerWoken
  PROVE  IInv'
<1>1. FlagsOK'
  BY DEF IInv, TypeOK, FlagsOK, WorkerWoken
<1>2. LockInv' /\ ReaderInv' /\ PendingInv' /\ FlightInv' /\ ReplyIsOwn' /\ OrderInv'
  BY ConnectionFrame DEF IInv, WorkerWoken
<1>3. TypeOK'
  BY <1>1 DEF IInv, TypeOK, IfTypeOK, Places, WorkerPlaces, WorkerWoken
<1>4. DispatchInv'
  BY DEF IInv, TypeOK, IfTypeOK, DispatchInv, LockInv, WorkerHolds, CommandPlaces, ClearPlaces,
    ClosePlaces, OwnerPlaces, WorkerWoken
<1>5. RunInv'
  BY DEF IInv, TypeOK, IfTypeOK, RunInv, LockInv, CommandPlaces, ClearPlaces, ClosePlaces,
    OwnerPlaces, WorkerWoken
<1>6. ClosedInv'
  BY DEF IInv, TypeOK, IfTypeOK, ClosedInv, Closed, LockInv, RunInv, ReaderInv, CommandPlaces,
    ClearPlaces, ClosePlaces, OwnerPlaces, WorkerWoken
<1>7. ClearInv'
  BY DEF IInv, TypeOK, IfTypeOK, ClearInv, DispatchInv, LockInv, WorkerHolds, OrderInv,
    CommandPlaces, ClearPlaces, ClosePlaces, OwnerPlaces, WorkerWoken
<1> QED BY <1>2, <1>3, <1>4, <1>5, <1>6, <1>7 DEF IInv

\* The worker begins to wait for an event.
LEMMA WorkerReceiveIInv ==
  ASSUME IInv, WorkerReceive
  PROVE  IInv'
<1>1. FlagsOK'
  BY DEF IInv, TypeOK, FlagsOK, WorkerReceive
<1>2. LockInv' /\ ReaderInv' /\ PendingInv' /\ FlightInv' /\ ReplyIsOwn' /\ OrderInv'
  BY ConnectionFrame DEF IInv, WorkerReceive
<1>3. TypeOK'
  BY <1>1 DEF IInv, TypeOK, IfTypeOK, Places, WorkerPlaces, WorkerReceive
<1>4. DispatchInv'
  BY DEF IInv, TypeOK, IfTypeOK, DispatchInv, LockInv, WorkerHolds, CommandPlaces, ClearPlaces,
    ClosePlaces, OwnerPlaces, WorkerReceive
<1>5. RunInv'
  BY DEF IInv, TypeOK, IfTypeOK, RunInv, LockInv, CommandPlaces, ClearPlaces, ClosePlaces,
    OwnerPlaces, WorkerReceive
<1>6. ClosedInv'
  BY DEF IInv, TypeOK, IfTypeOK, ClosedInv, Closed, LockInv, RunInv, ReaderInv, CommandPlaces,
    ClearPlaces, ClosePlaces, OwnerPlaces, WorkerReceive
<1>7. ClearInv'
  BY DEF IInv, TypeOK, IfTypeOK, ClearInv, DispatchInv, LockInv, WorkerHolds, OrderInv,
    CommandPlaces, ClearPlaces, ClosePlaces, OwnerPlaces, WorkerReceive
<1> QED BY <1>2, <1>3, <1>4, <1>5, <1>6, <1>7 DEF IInv

\* The worker has waited in vain.
LEMMA WorkerTimeoutIInv ==
  ASSUME IInv, WorkerTimeout
  PROVE  IInv'
<1>1. FlagsOK'
  BY DEF IInv, TypeOK, FlagsOK, WorkerTimeout
<1>2. LockInv' /\ ReaderInv' /\ PendingInv' /\ FlightInv' /\ ReplyIsOwn' /\ OrderInv'
  BY ConnectionFrame DEF IInv, WorkerTimeout
<1>3. TypeOK'
  BY <1>1 DEF IInv, TypeOK, IfTypeOK, Places, WorkerPlaces, WorkerTimeout
<1>4. DispatchInv'
  BY DEF IInv, TypeOK, IfTypeOK, DispatchInv, LockInv, WorkerHolds, CommandPlaces, ClearPlaces,
    ClosePlaces, OwnerPlaces, WorkerTimeout
<1>5. RunInv'
  BY DEF IInv, TypeOK, IfTypeOK, RunInv, LockInv, CommandPlaces, ClearPlaces, ClosePlaces,
    OwnerPlaces, WorkerTimeout
<1>6. ClosedInv'
  BY DEF IInv, TypeOK, IfTypeOK, ClosedInv, Closed, LockInv, RunInv, ReaderInv, CommandPlaces,
    ClearPlaces, ClosePlaces, OwnerPlaces, WorkerTimeout
<1>7. ClearInv'
  BY DEF IInv, TypeOK, IfTypeOK, ClearInv, DispatchInv, LockInv, WorkerHolds, OrderInv,
    CommandPlaces, ClearPlaces, ClosePlaces, OwnerPlaces, WorkerTimeout
<1> QED BY <1>2, <1>3, <1>4, <1>5, <1>6, <1>7 DEF IInv

\* The interface has failed.
LEMMA WorkerReceiveFailsIInv ==
  ASSUME IInv, WorkerReceiveFails
  PROVE  IInv'
<1>1. FlagsOK'
  BY DEF IInv, TypeOK, FlagsOK, WorkerReceiveFails
<1>2. LockInv' /\ ReaderInv' /\ PendingInv' /\ FlightInv' /\ ReplyIsOwn' /\ OrderInv'
  BY ConnectionFrame DEF IInv, WorkerReceiveFails
<1>3. TypeOK'
  BY <1>1 DEF IInv, TypeOK, IfTypeOK, Places, WorkerPlaces, WorkerReceiveFails
<1>4. DispatchInv'
  BY DEF IInv, TypeOK, IfTypeOK, DispatchInv, LockInv, WorkerHolds, CommandPlaces, ClearPlaces,
    ClosePlaces, OwnerPlaces, WorkerReceiveFails
<1>5. RunInv'
  BY DEF IInv, TypeOK, IfTypeOK, RunInv, LockInv, CommandPlaces, ClearPlaces, ClosePlaces,
    OwnerPlaces, WorkerReceiveFails
<1>6. ClosedInv'
  BY DEF IInv, TypeOK, IfTypeOK, ClosedInv, Closed, LockInv, RunInv, ReaderInv, CommandPlaces,
    ClearPlaces, ClosePlaces, OwnerPlaces, WorkerReceiveFails
<1>7. ClearInv'
  BY DEF IInv, TypeOK, IfTypeOK, ClearInv, DispatchInv, LockInv, WorkerHolds, OrderInv,
    CommandPlaces, ClearPlaces, ClosePlaces, OwnerPlaces, WorkerReceiveFails
<1> QED BY <1>2, <1>3, <1>4, <1>5, <1>6, <1>7 DEF IInv

\* The worker looks whether the client runs.
LEMMA WorkerChecksIInv ==
  ASSUME IInv, WorkerChecks
  PROVE  IInv'
<1>1. FlagsOK'
  BY DEF IInv, TypeOK, FlagsOK, WorkerChecks
<1>2. LockInv' /\ ReaderInv' /\ PendingInv' /\ FlightInv' /\ ReplyIsOwn' /\ OrderInv'
  BY ConnectionFrame DEF IInv, WorkerChecks
<1>3. TypeOK'
  <2>1. pc' \in [Threads -> Places] /\ wpc' \in WorkerPlaces
    BY DEF IInv, TypeOK, Places, WorkerPlaces, WorkerChecks
  <2>2. IfTypeOK'
    BY DEF IInv, TypeOK, IfTypeOK, WorkerChecks
  <2>3. calls' \in [Threads -> Nat] /\ \A u \in Threads : calls'[u] <= MaxCalls[u]
    BY DEF IInv, TypeOK, WorkerChecks
  <2>4. /\ hand' \in 0 .. sent' /\ last' \in 0 .. sent' /\ barrier' \in 0 .. sent'
        /\ events' \in Seq(1 .. sent') /\ dispatch' \in Threads \cup {None}
    BY SMTT(30) DEF IInv, TypeOK, IfTypeOK, WorkerChecks
  <2> QED BY <1>1, <2>1, <2>2, <2>3, <2>4 DEF TypeOK
<1>4. DispatchInv'
  BY DEF IInv, TypeOK, IfTypeOK, DispatchInv, LockInv, WorkerHolds, CommandPlaces, ClearPlaces,
    ClosePlaces, OwnerPlaces, WorkerChecks
<1>5. RunInv'
  BY DEF IInv, TypeOK, IfTypeOK, RunInv, LockInv, CommandPlaces, ClearPlaces, ClosePlaces,
    OwnerPlaces, WorkerChecks
<1>6. ClosedInv'
  BY DEF IInv, TypeOK, IfTypeOK, ClosedInv, Closed, LockInv, RunInv, ReaderInv, CommandPlaces,
    ClearPlaces, ClosePlaces, OwnerPlaces, WorkerChecks
<1>7. ClearInv'
  BY DEF IInv, TypeOK, IfTypeOK, ClearInv, DispatchInv, LockInv, WorkerHolds, OrderInv,
    CommandPlaces, ClearPlaces, ClosePlaces, OwnerPlaces, WorkerChecks
<1> QED BY <1>2, <1>3, <1>4, <1>5, <1>6, <1>7 DEF IInv

\* The filter rejects the event.
LEMMA WorkerRejectsIInv ==
  ASSUME IInv, WorkerRejects
  PROVE  IInv'
<1>1. FlagsOK'
  BY DEF IInv, TypeOK, FlagsOK, WorkerRejects
<1>2. LockInv' /\ ReaderInv' /\ PendingInv' /\ FlightInv' /\ ReplyIsOwn' /\ OrderInv'
  BY ConnectionFrame DEF IInv, WorkerRejects
<1>3. TypeOK'
  BY <1>1, SMTT(30) DEF IInv, TypeOK, IfTypeOK, Places, WorkerPlaces, WorkerRejects
<1>4. DispatchInv'
  BY DEF IInv, TypeOK, IfTypeOK, DispatchInv, LockInv, WorkerHolds, CommandPlaces, ClearPlaces,
    ClosePlaces, OwnerPlaces, WorkerRejects
<1>5. RunInv'
  BY DEF IInv, TypeOK, IfTypeOK, RunInv, LockInv, CommandPlaces, ClearPlaces, ClosePlaces,
    OwnerPlaces, WorkerRejects
<1>6. ClosedInv'
  BY DEF IInv, TypeOK, IfTypeOK, ClosedInv, Closed, LockInv, RunInv, ReaderInv, CommandPlaces,
    ClearPlaces, ClosePlaces, OwnerPlaces, WorkerRejects
<1>7. ClearInv'
  BY DEF IInv, TypeOK, IfTypeOK, ClearInv, DispatchInv, LockInv, WorkerHolds, OrderInv,
    CommandPlaces, ClearPlaces, ClosePlaces, OwnerPlaces, WorkerRejects
<1> QED BY <1>2, <1>3, <1>4, <1>5, <1>6, <1>7 DEF IInv

\* The worker lets go of the mutex for a callback.
LEMMA WorkerUnlocksIInv ==
  ASSUME IInv, WorkerUnlocks
  PROVE  IInv'
<1>1. FlagsOK'
  BY DEF IInv, TypeOK, FlagsOK, WorkerUnlocks
<1>2. LockInv' /\ ReaderInv' /\ PendingInv' /\ FlightInv' /\ ReplyIsOwn' /\ OrderInv'
  BY ConnectionFrame DEF IInv, WorkerUnlocks
<1>3. TypeOK'
  BY <1>1, SMTT(30) DEF IInv, TypeOK, IfTypeOK, Places, WorkerPlaces, WorkerUnlocks
<1>4. DispatchInv'
  BY DEF IInv, TypeOK, IfTypeOK, DispatchInv, LockInv, WorkerHolds, CommandPlaces, ClearPlaces,
    ClosePlaces, OwnerPlaces, WorkerUnlocks
<1>5. RunInv'
  BY DEF IInv, TypeOK, IfTypeOK, RunInv, LockInv, CommandPlaces, ClearPlaces, ClosePlaces,
    OwnerPlaces, WorkerUnlocks
<1>6. ClosedInv'
  BY DEF IInv, TypeOK, IfTypeOK, ClosedInv, Closed, LockInv, RunInv, ReaderInv, CommandPlaces,
    ClearPlaces, ClosePlaces, OwnerPlaces, WorkerUnlocks
<1>7. ClearInv'
  BY DEF IInv, TypeOK, IfTypeOK, ClearInv, DispatchInv, LockInv, WorkerHolds, OrderInv,
    CommandPlaces, ClearPlaces, ClosePlaces, OwnerPlaces, WorkerUnlocks
<1> QED BY <1>2, <1>3, <1>4, <1>5, <1>6, <1>7 DEF IInv

\* The callback is called.
LEMMA WorkerCallsIInv ==
  ASSUME IInv, WorkerCalls
  PROVE  IInv'
<1>1. FlagsOK'
  BY DEF IInv, TypeOK, FlagsOK, WorkerCalls
<1>2. LockInv' /\ ReaderInv' /\ PendingInv' /\ FlightInv' /\ ReplyIsOwn' /\ OrderInv'
  BY ConnectionFrame DEF IInv, WorkerCalls
<1>3. TypeOK'
  <2>1. pc' \in [Threads -> Places] /\ wpc' \in WorkerPlaces
    BY DEF IInv, TypeOK, Places, WorkerPlaces, WorkerCalls
  <2>2. IfTypeOK'
    BY DEF IInv, TypeOK, IfTypeOK, WorkerCalls
  <2>3. calls' \in [Threads -> Nat] /\ \A u \in Threads : calls'[u] <= MaxCalls[u]
    BY DEF IInv, TypeOK, WorkerCalls
  <2>4. /\ hand' \in 0 .. sent' /\ last' \in 0 .. sent' /\ barrier' \in 0 .. sent'
        /\ events' \in Seq(1 .. sent') /\ dispatch' \in Threads \cup {None}
    BY SMTT(30) DEF IInv, TypeOK, IfTypeOK, WorkerCalls
  <2> QED BY <1>1, <2>1, <2>2, <2>3, <2>4 DEF TypeOK
<1>4. DispatchInv'
  BY DEF IInv, TypeOK, IfTypeOK, DispatchInv, LockInv, WorkerHolds, CommandPlaces, ClearPlaces,
    ClosePlaces, OwnerPlaces, WorkerCalls
<1>5. RunInv'
  BY DEF IInv, TypeOK, IfTypeOK, RunInv, LockInv, CommandPlaces, ClearPlaces, ClosePlaces,
    OwnerPlaces, WorkerCalls
<1>6. ClosedInv'
  BY DEF IInv, TypeOK, IfTypeOK, ClosedInv, Closed, LockInv, RunInv, ReaderInv, CommandPlaces,
    ClearPlaces, ClosePlaces, OwnerPlaces, WorkerCalls
<1>7. ClearInv'
  BY DEF IInv, TypeOK, IfTypeOK, ClearInv, DispatchInv, LockInv, WorkerHolds, OrderInv,
    CommandPlaces, ClearPlaces, ClosePlaces, OwnerPlaces, WorkerCalls
<1> QED BY <1>2, <1>3, <1>4, <1>5, <1>6, <1>7 DEF IInv

\* The callback returns.
LEMMA CallbackReturnsIInv ==
  ASSUME IInv, CallbackReturns
  PROVE  IInv'
<1>1. FlagsOK'
  BY DEF IInv, TypeOK, FlagsOK, CallbackReturns
<1>2. LockInv' /\ ReaderInv' /\ PendingInv' /\ FlightInv' /\ ReplyIsOwn' /\ OrderInv'
  BY ConnectionFrame DEF IInv, CallbackReturns
<1>3. TypeOK'
  BY <1>1, SMTT(30) DEF IInv, TypeOK, IfTypeOK, Places, WorkerPlaces, CallbackReturns
<1>4. DispatchInv'
  BY DEF IInv, TypeOK, IfTypeOK, DispatchInv, LockInv, WorkerHolds, CommandPlaces, ClearPlaces,
    ClosePlaces, OwnerPlaces, CallbackReturns
<1>5. RunInv'
  BY DEF IInv, TypeOK, IfTypeOK, RunInv, LockInv, CommandPlaces, ClearPlaces, ClosePlaces,
    OwnerPlaces, CallbackReturns
<1>6. ClosedInv'
  BY DEF IInv, TypeOK, IfTypeOK, ClosedInv, Closed, LockInv, RunInv, ReaderInv, CommandPlaces,
    ClearPlaces, ClosePlaces, OwnerPlaces, CallbackReturns
<1>7. ClearInv'
  BY DEF IInv, TypeOK, IfTypeOK, ClearInv, DispatchInv, LockInv, WorkerHolds, OrderInv,
    CommandPlaces, ClearPlaces, ClosePlaces, OwnerPlaces, CallbackReturns
<1> QED BY <1>2, <1>3, <1>4, <1>5, <1>6, <1>7 DEF IInv

\* The worker stops the client.
LEMMA WorkerFailsIInv ==
  ASSUME IInv, WorkerFails
  PROVE  IInv'
<1>1. FlagsOK'
  BY DEF IInv, TypeOK, FlagsOK, WorkerFails
<1>2. LockInv' /\ ReaderInv' /\ PendingInv' /\ FlightInv' /\ ReplyIsOwn' /\ OrderInv'
  BY ConnectionFrame DEF IInv, WorkerFails
<1>3. TypeOK'
  <2>1. pc' \in [Threads -> Places] /\ wpc' \in WorkerPlaces
    BY DEF IInv, TypeOK, Places, WorkerPlaces, WorkerFails
  <2>2. IfTypeOK'
    BY DEF IInv, TypeOK, IfTypeOK, WorkerFails
  <2>3. calls' \in [Threads -> Nat] /\ \A u \in Threads : calls'[u] <= MaxCalls[u]
    BY DEF IInv, TypeOK, WorkerFails
  <2>4. /\ hand' \in 0 .. sent' /\ last' \in 0 .. sent' /\ barrier' \in 0 .. sent'
        /\ events' \in Seq(1 .. sent') /\ dispatch' \in Threads \cup {None}
    BY DEF IInv, TypeOK, IfTypeOK, WorkerFails
  <2> QED BY <1>1, <2>1, <2>2, <2>3, <2>4 DEF TypeOK
<1>4. DispatchInv'
  BY DEF IInv, TypeOK, IfTypeOK, DispatchInv, LockInv, WorkerHolds, CommandPlaces, ClearPlaces,
    ClosePlaces, OwnerPlaces, WorkerFails
<1>5. RunInv'
  BY DEF IInv, TypeOK, IfTypeOK, RunInv, LockInv, CommandPlaces, ClearPlaces, ClosePlaces,
    OwnerPlaces, WorkerFails
<1>6. ClosedInv'
  BY DEF IInv, TypeOK, IfTypeOK, ClosedInv, Closed, LockInv, RunInv, ReaderInv, CommandPlaces,
    ClearPlaces, ClosePlaces, OwnerPlaces, WorkerFails
<1>7. ClearInv'
  BY DEF IInv, TypeOK, IfTypeOK, ClearInv, DispatchInv, LockInv, WorkerHolds, OrderInv,
    CommandPlaces, ClearPlaces, ClosePlaces, OwnerPlaces, WorkerFails
<1> QED BY <1>2, <1>3, <1>4, <1>5, <1>6, <1>7 DEF IInv

\* The worker takes an event.
LEMMA WorkerTakesIInv ==
  ASSUME IInv, WorkerTakes
  PROVE  IInv'
<1>s. eventQueue \in Seq(1 .. sent) /\ eventQueue # <<>> /\ eventQueue' = Tail(eventQueue) /\ hand' = Head(eventQueue)
  BY DEF IInv, TypeOK, IfTypeOK, WorkerTakes
<1>a. /\ eventQueue' \in Seq(1 .. sent) /\ Len(eventQueue) \in Nat /\ Len(eventQueue) >= 1
      /\ Len(eventQueue') = Len(eventQueue) - 1 /\ Head(eventQueue) = eventQueue[1] /\ Head(eventQueue) \in 1 .. sent
      /\ \A i \in 1 .. Len(eventQueue) - 1 : eventQueue'[i] = eventQueue[i + 1]
      /\ hand' = eventQueue[1]
  BY <1>s, NumberPopped
<1>b. UNCHANGED <<events, barrier, pc, acked>>
  BY DEF WorkerTakes
<1>1. FlagsOK'
  BY DEF IInv, TypeOK, FlagsOK, WorkerTakes
<1>2. LockInv' /\ ReaderInv' /\ PendingInv' /\ FlightInv' /\ ReplyIsOwn' /\ OrderInv'
  BY ConnectionFrame DEF IInv, WorkerTakes
<1>3. TypeOK'
  <2>1. pc' \in [Threads -> Places] /\ wpc' \in WorkerPlaces
    BY DEF IInv, TypeOK, Places, WorkerPlaces, WorkerTakes
  <2>2. IfTypeOK'
    BY <1>a DEF IInv, TypeOK, IfTypeOK, WorkerTakes
  <2>3. calls' \in [Threads -> Nat] /\ \A u \in Threads : calls'[u] <= MaxCalls[u]
    BY DEF IInv, TypeOK, WorkerTakes
  <2>4. /\ hand' \in 0 .. sent' /\ last' \in 0 .. sent' /\ barrier' \in 0 .. sent'
        /\ events' \in Seq(1 .. sent') /\ dispatch' \in Threads \cup {None}
    BY <1>a DEF IInv, TypeOK, IfTypeOK, WorkerTakes
  <2> QED BY <1>1, <2>1, <2>2, <2>3, <2>4 DEF TypeOK
<1>4. DispatchInv'
  BY DEF IInv, TypeOK, IfTypeOK, DispatchInv, LockInv, WorkerHolds, CommandPlaces, ClearPlaces,
    ClosePlaces, OwnerPlaces, WorkerTakes
<1>5. RunInv'
  BY DEF IInv, TypeOK, IfTypeOK, RunInv, LockInv, CommandPlaces, ClearPlaces, ClosePlaces,
    OwnerPlaces, WorkerTakes
<1>6. ClosedInv'
  BY DEF IInv, TypeOK, IfTypeOK, ClosedInv, Closed, LockInv, RunInv, ReaderInv, CommandPlaces,
    ClearPlaces, ClosePlaces, OwnerPlaces, WorkerTakes
<1>7. ClearInv'
  <2>1. \A i \in 1 .. Len(eventQueue') : i + 1 \in 1 .. Len(eventQueue) /\ eventQueue'[i] = eventQueue[i + 1]
    BY <1>a
  <2>2. 1 \in 1 .. Len(eventQueue)
    BY <1>a
  <2>3. \A i \in 1 .. Len(eventQueue') : eventQueue'[i] > barrier
    BY <2>1 DEF IInv, ClearInv
  <2>4. hand' > barrier
    BY <1>a, <2>2 DEF IInv, ClearInv
  <2>5. ASSUME NEW u \in Threads, pc[u] = "clearEvents"
        PROVE  \A i \in 1 .. Len(eventQueue') : eventQueue'[i] > acked
    BY <2>1, <2>5 DEF IInv, ClearInv
  <2> QED BY <1>b, <2>3, <2>4, <2>5 DEF IInv, ClearInv
<1> QED BY <1>2, <1>3, <1>4, <1>5, <1>6, <1>7 DEF IInv

\* The worker queues the event.
LEMMA WorkerQueuesIInv ==
  ASSUME IInv, WorkerQueues
  PROVE  IInv'
<1>a. /\ hand \in 1 .. sent /\ hand > barrier
  BY DEF IInv, TypeOK, IfTypeOK, ClearInv, WorkerQueues
<1>b. /\ events' \in Seq(1 .. sent) /\ Len(events) \in Nat /\ Len(events') = Len(events) + 1
      /\ \A i \in 1 .. Len(events) : events'[i] = events[i]
      /\ events'[Len(events) + 1] = hand
  BY <1>a, SMTT(30) DEF IInv, TypeOK, IfTypeOK, WorkerQueues
<1>c. UNCHANGED <<eventQueue, barrier, pc, acked>> /\ wpc' = "top"
  BY DEF WorkerQueues
<1>1. FlagsOK'
  BY DEF IInv, TypeOK, FlagsOK, WorkerQueues
<1>2. LockInv' /\ ReaderInv' /\ PendingInv' /\ FlightInv' /\ ReplyIsOwn' /\ OrderInv'
  BY ConnectionFrame DEF IInv, WorkerQueues
<1>3. TypeOK'
  <2>1. pc' \in [Threads -> Places] /\ wpc' \in WorkerPlaces
    BY DEF IInv, TypeOK, Places, WorkerPlaces, WorkerQueues
  <2>2. IfTypeOK'
    BY <1>a, <1>b DEF IInv, TypeOK, IfTypeOK, WorkerQueues
  <2>3. calls' \in [Threads -> Nat] /\ \A u \in Threads : calls'[u] <= MaxCalls[u]
    BY DEF IInv, TypeOK, WorkerQueues
  <2>4. /\ hand' \in 0 .. sent' /\ last' \in 0 .. sent' /\ barrier' \in 0 .. sent'
        /\ events' \in Seq(1 .. sent') /\ dispatch' \in Threads \cup {None}
    BY <1>a, <1>b DEF IInv, TypeOK, IfTypeOK, WorkerQueues
  <2> QED BY <1>1, <2>1, <2>2, <2>3, <2>4 DEF TypeOK
<1>4. DispatchInv'
  BY DEF IInv, TypeOK, IfTypeOK, DispatchInv, LockInv, WorkerHolds, CommandPlaces, ClearPlaces,
    ClosePlaces, OwnerPlaces, WorkerQueues
<1>5. RunInv'
  BY DEF IInv, TypeOK, IfTypeOK, RunInv, LockInv, CommandPlaces, ClearPlaces, ClosePlaces,
    OwnerPlaces, WorkerQueues
<1>6. ClosedInv'
  BY DEF IInv, TypeOK, IfTypeOK, ClosedInv, Closed, LockInv, RunInv, ReaderInv, CommandPlaces,
    ClearPlaces, ClosePlaces, OwnerPlaces, WorkerQueues
<1>7. ClearInv'
  BY <1>a, <1>b, <1>c DEF IInv, ClearInv
<1> QED BY <1>2, <1>3, <1>4, <1>5, <1>6, <1>7 DEF IInv


\* The invariant holds when the client has been constructed.
LEMMA InitIInv == Init => IInv
<1> SUFFICES ASSUME Init PROVE IInv
  OBVIOUS
<1> USE DEF Init, IfInit
<1>1. FlagsOK
  BY DEF FlagsOK
<1>2. TypeOK
  BY <1>1 DEF TypeOK, IfTypeOK, Places, WorkerPlaces
<1>3. LockInv /\ DispatchInv /\ RunInv
  BY DEF LockInv, DispatchInv, RunInv, CommandPlaces, ClearPlaces, ClosePlaces, OwnerPlaces,
         WorkerHolds
<1>4. ReaderInv /\ ClosedInv /\ PendingInv /\ ReplyIsOwn
  BY DEF ReaderInv, ClosedInv, Closed, PendingInv, ReplyIsOwn
<1>5. FlightInv
  BY DEF FlightInv, Live
<1>6. OrderInv /\ ClearInv
  BY DEF OrderInv, ClearInv
<1> QED BY <1>2, <1>3, <1>4, <1>5, <1>6 DEF IInv

\* Every step of the client, of the reader and of the server preserves it.
LEMMA NextIInv == IInv /\ [Next]_vars => IInv'
<1> SUFFICES ASSUME IInv, [Next]_vars PROVE IInv'
  OBVIOUS
<1>1. CASE IfStep(Server)
  BY <1>1, ServerEventIInv, ServerBadLineIInv, ServerReplyIInv, ServerIgnoresIInv, ServerClosesIInv
  DEF IfStep, Server
<1>2. CASE IfStep(Reader)
  BY <1>2, ReaderReadsIInv, ReaderFailsIInv, ReaderStopsIInv, ReaderExitsIInv, ReplyIInv, EventIInv,
     BadLineIInv DEF IfStep, Reader, ReaderLine
<1>3. CASE Worker
  BY <1>3, WorkerTopIInv, WorkerEvalIInv, WorkerBlockIInv, WorkerWokenIInv, WorkerReceiveIInv,
     WorkerTakesIInv, WorkerTimeoutIInv, WorkerReceiveFailsIInv, WorkerChecksIInv,
     WorkerRejectsIInv, WorkerQueuesIInv, WorkerUnlocksIInv, WorkerCallsIInv, CallbackReturnsIInv,
     WorkerFailsIInv DEF Worker
<1>4. CASE Connect \/ Disconnect
  BY <1>4, ConnectIInv, DisconnectIInv
<1>5. CASE InOwnerCall
  BY <1>5, OpensIInv, OpenFailsIInv, CloseLockIInv, CloseStopIInv, CloseJoinIInv,
     ConnectSpawnsIInv, ConnectSpawnFailsIInv, DisconnectDispatchIInv, DisconnectJoinIInv
  DEF InOwnerCall, IfStep, OpenClose
<1>6. ASSUME NEW t \in Threads, Begins(t)
      PROVE  IInv'
  BY <1>6, SendIInv, ClearIInv, ReceiveIInv, ReceiveBlockingIInv DEF Begins
<1>7. ASSUME NEW t \in Threads, InCall(t)
      PROVE  IInv'
  BY <1>7, CommandBeginIInv, CommandWriteIInv, CommandWriteFailsIInv, CommandWriteJoinIInv,
     CommandDoneIInv, CommandTimeoutIInv, CommandTimeoutJoinIInv, SendLockIInv, SendReturnsIInv,
     ClearLockIInv, ClearDispatchIInv, ClearReturnsIInv, ClearEventsIInv, ClearUnlockIInv,
     ClearUnpauseIInv, ReceiveReturnsIInv DEF InCall, IfStep, Command
<1>8. CASE UNCHANGED vars
  <2>1. TypeOK'
    <3>1. FlagsOK' /\ IfTypeOK'
      BY <1>8 DEF IInv, vars, TypeOK, FlagsOK, IfTypeOK
    <3> QED BY <1>8, <3>1 DEF IInv, vars, TypeOK
  <2>2. LockInv' /\ DispatchInv' /\ RunInv' /\ ClosedInv'
    BY <1>8 DEF IInv, vars, LockInv, DispatchInv, RunInv, ClosedInv, Closed
  <2>3. ReaderInv' /\ PendingInv' /\ FlightInv' /\ ReplyIsOwn' /\ OrderInv'
    BY <1>8, ConnectionFrame DEF IInv, vars
  <2>4. ClearInv'
    BY <1>8 DEF IInv, vars, ClearInv
  <2> QED BY <2>1, <2>2, <2>3, <2>4 DEF IInv
<1> QED BY <1>1, <1>2, <1>3, <1>4, <1>5, <1>6, <1>7, <1>8 DEF Next

\* The invariant of the single-channel mode: who holds which mutex, what is on
\* its way on the connection, and what the queues hold.
THEOREM SingleChannelInvariant == Spec => []IInv
<1>1. Init => IInv
  BY InitIInv
<1>2. IInv /\ [Next]_vars => IInv'
  BY NextIInv
<1> QED BY <1>1, <1>2, PTL DEF Spec

\* Type correctness, for any number of threads, calls and events.
THEOREM SingleChannelTypes == Spec => []TypeOK
<1>1. IInv => TypeOK
  BY DEF IInv
<1> QED BY <1>1, SingleChannelInvariant, PTL

\* doSingleChannelCommand never takes a late reply for its own: at most one
\* reply can come on a connection that is still used.
THEOREM SingleChannelReplyIsOwn == Spec => []ReplyIsOwn
<1>1. IInv => ReplyIsOwn
  BY DEF IInv
<1> QED BY <1>1, SingleChannelInvariant, PTL

\* stopSingleChannelReader is never run by two threads at once: the thread
\* that runs it holds the command mutex.
THEOREM SingleChannelJoinedOnce == Spec => []ReaderJoinedOnce
<1>1. IInv => ReaderJoinedOnce
  <2> SUFFICES ASSUME IInv, NEW t \in Threads, NEW u \in Threads,
                      pc[t] \in {"writeJoin", "timeoutJoin", "closeStop", "closeJoin"},
                      pc[u] \in {"writeJoin", "timeoutJoin", "closeStop", "closeJoin"}
               PROVE  t = u
    BY DEF ReaderJoinedOnce
  <2>1. cmd = t /\ cmd = u
    BY DEF IInv, LockInv, CommandPlaces, ClosePlaces
  <2> QED BY <2>1
<1> QED BY <1>1, SingleChannelInvariant, PTL

\* clear() leaves nothing older than the server's acknowledgement in either
\* queue: it holds the dispatch mutex, so that the worker holds no event.
THEOREM SingleChannelClearIsFinal == Spec => []ClearIsFinal
<1>1. IInv => ClearIsFinal
  BY DEF IInv, TypeOK, IfTypeOK, ClearInv, ClearIsFinal
<1> QED BY <1>1, SingleChannelInvariant, PTL

\* A worker that waits on m_singleChannelDispatchCondition is notified by the
\* clear that made it wait.
THEOREM SingleChannelWakeup == Spec => []NoLostDispatchWakeup
<1>1. IInv => NoLostDispatchWakeup
  BY DEF IInv, DispatchInv, LockInv, NoLostDispatchWakeup
<1> QED BY <1>1, SingleChannelInvariant, PTL

\* disconnect returns only when the worker and the reader have ended and the
\* transport is closed.
THEOREM SingleChannelDisconnect == Spec => []DisconnectIsComplete
<1>1. IInv => DisconnectIsComplete
  BY DEF IInv, RunInv, ClosedInv, Closed, DisconnectIsComplete
<1> QED BY <1>1, SingleChannelInvariant, PTL
-----------------------------------------------------------------------------
(***************************************************************************)
(* The client implements EventPipe.  PipeInv is shown to be an invariant   *)
(* first: only the order of the events tells that the one that is handed   *)
(* over is the oldest.                                                     *)
(***************************************************************************)

\* The entries of a sequence have the type of its elements.
LEMMA EntryType ==
  ASSUME NEW S, NEW s \in Seq(S)
  PROVE  Len(s) \in Nat /\ \A i \in 1 .. Len(s) : s[i] \in S
OBVIOUS

\* Events are numbers.
LEMMA PipeTypes ==
  ASSUME IInv
  PROVE  /\ sent \in Nat /\ seen \in Nat /\ hand \in Nat /\ last \in Nat
         /\ Len(events) \in Nat /\ \A i \in 1 .. Len(events) : events[i] \in Nat /\ 0 < events[i]
         /\ Len(eventQueue) \in Nat
         /\ \A i \in 1 .. Len(eventQueue) : eventQueue[i] \in Nat /\ 0 < eventQueue[i]
<1>1. sent \in Nat /\ seen \in Nat /\ hand \in Nat /\ last \in Nat
  BY DEF IInv, TypeOK, IfTypeOK
<1>2. events \in Seq(1 .. sent) /\ eventQueue \in Seq(1 .. sent)
  BY DEF IInv, TypeOK, IfTypeOK
<1>3. /\ Len(events) \in Nat /\ \A i \in 1 .. Len(events) : events[i] \in 1 .. sent
      /\ Len(eventQueue) \in Nat /\ \A i \in 1 .. Len(eventQueue) : eventQueue[i] \in 1 .. sent
  BY <1>2, EntryType
<1> QED BY <1>1, <1>3

\* A queue is left alone or emptied; nothing else of the pipe changes.
LEMMA EmptiedPipeInv ==
  ASSUME PipeInv, events' \in {events, <<>>}, eventQueue' \in {eventQueue, <<>>},
         UNCHANGED <<wpc, hand, seen, last, active>>
  PROVE  PipeInv'
<1>1. CASE events' = <<>> /\ eventQueue' = <<>>
  BY <1>1 DEF PipeInv, Increasing
<1>2. CASE events' = <<>> /\ eventQueue' = eventQueue
  BY <1>2 DEF PipeInv, Increasing
<1>3. CASE events' = events /\ eventQueue' = <<>>
  BY <1>3 DEF PipeInv, Increasing
<1>4. CASE events' = events /\ eventQueue' = eventQueue
  BY <1>4 DEF PipeInv, Increasing
<1> QED BY <1>1, <1>2, <1>3, <1>4

\* The worker moves on, without an event before and after.
LEMMA MovedPipeInv ==
  ASSUME PipeInv, hand = 0, wpc' \notin {"got", "push", "call"},
         UNCHANGED <<hand, events, eventQueue, seen, last, active>>
  PROVE  PipeInv'
BY DEF PipeInv, Increasing

\* Where the worker holds no event
LEMMA EmptyHanded ==
  ASSUME PipeInv, wpc \notin {"got", "error", "push", "call", "fail"}
  PROVE  hand = 0
BY DEF PipeInv

\* The steps of the server, and those of the reader but for an event
LEMMA ServerPipeInv ==
  ASSUME PipeInv, IfStep(Server)
  PROVE  PipeInv'
BY EmptiedPipeInv DEF IfStep, Server, ServerEvent, ServerBadLine, ServerReply, ServerIgnores,
   ServerCloses

\* An event arrives: it is newer than all that have arrived.
LEMMA EventPipeInv ==
  ASSUME IInv, PipeInv, ReaderLine, ProcessEvent, UNCHANGED upperVars
  PROVE  PipeInv'
<1>1. seen \in Nat /\ rline.n \in Nat /\ rline.n > seen /\ rline.n \in 1 .. sent
  <2>1. seen \in Nat /\ sent \in Nat /\ rline.n \in seen + 1 .. sent
    BY DEF IInv, TypeOK, IfTypeOK, OrderInv, ProcessEvent
  <2> QED BY <2>1
<1>2. /\ eventQueue' = Append(eventQueue, rline.n) /\ seen' = rline.n
      /\ UNCHANGED <<wpc, hand, events, last, active>>
  BY DEF ProcessEvent, ReaderLine
<1>3. /\ Len(eventQueue) \in Nat /\ Len(eventQueue') = Len(eventQueue) + 1
      /\ \A i \in 1 .. Len(eventQueue) : eventQueue'[i] = eventQueue[i]
      /\ eventQueue'[Len(eventQueue) + 1] = rline.n
  <2>1. sent \in Nat /\ eventQueue \in Seq(1 .. sent)
    BY DEF IInv, TypeOK, IfTypeOK
  <2> QED BY <1>1, <1>2, <2>1, NumberAppended
<1>4. /\ \A i \in 1 .. Len(events) : events[i] \in Nat
      /\ \A i \in 1 .. Len(eventQueue) : eventQueue[i] \in Nat
      /\ hand \in Nat /\ last \in Nat
  BY PipeTypes
<1>5. \A i \in 1 .. Len(eventQueue') : i \in 1 .. Len(eventQueue) \/ i = Len(eventQueue) + 1
  BY <1>3
<1>6. Increasing(eventQueue)'
  <2> SUFFICES ASSUME NEW i \in 1 .. Len(eventQueue'), NEW j \in 1 .. Len(eventQueue'), i < j
               PROVE  eventQueue'[i] < eventQueue'[j]
    BY DEF Increasing
  <2>1. i \in 1 .. Len(eventQueue)
    BY <1>3
  <2>2. CASE j \in 1 .. Len(eventQueue)
    BY <1>3, <2>1, <2>2 DEF PipeInv, Increasing
  <2>3. CASE j = Len(eventQueue) + 1
    <3>1. eventQueue[i] <= seen
      BY <2>1 DEF PipeInv
    <3> QED BY <1>1, <1>3, <1>4, <2>1, <2>3, <3>1
  <2> QED BY <1>5, <2>2, <2>3
<1>7. \A i \in 1 .. Len(eventQueue') :
        last < eventQueue'[i] /\ hand < eventQueue'[i] /\ eventQueue'[i] <= seen'
  BY <1>1, <1>2, <1>3, <1>4, <1>5 DEF PipeInv
<1>8. \A i \in 1 .. Len(events) : \A j \in 1 .. Len(eventQueue') : events[i] < eventQueue'[j]
  <2> SUFFICES ASSUME NEW i \in 1 .. Len(events), NEW j \in 1 .. Len(eventQueue')
               PROVE  events[i] < eventQueue'[j]
    OBVIOUS
  <2>1. events[i] <= seen
    BY DEF PipeInv
  <2>2. CASE j \in 1 .. Len(eventQueue)
    BY <1>3, <2>2 DEF PipeInv
  <2>3. CASE j = Len(eventQueue) + 1
    BY <1>1, <1>3, <1>4, <2>1, <2>3
  <2> QED BY <1>5, <2>2, <2>3
<1>9. \A i \in 1 .. Len(events) : events[i] <= seen'
  BY <1>1, <1>2, <1>4 DEF PipeInv
<1>10. last <= seen' /\ hand <= seen'
  BY <1>1, <1>2, <1>4 DEF PipeInv
<1> QED BY <1>2, <1>6, <1>7, <1>8, <1>9, <1>10 DEF PipeInv, Increasing

\* The other steps of the reader leave the events alone.
LEMMA ReaderPipeInv ==
  ASSUME IInv, PipeInv, IfStep(Reader)
  PROVE  PipeInv'
<1>1. CASE ReaderLine /\ ProcessEvent
  BY <1>1, EventPipeInv DEF IfStep
<1>2. CASE ReaderLine /\ ProcessReply
  BY <1>2, EmptiedPipeInv DEF IfStep, ReaderLine, ProcessReply
<1>3. CASE ReaderLine /\ ProcessBadLine
  BY <1>3, EmptiedPipeInv DEF IfStep, ReaderLine, ProcessBadLine
<1>4. CASE ReaderReads \/ ReaderFails \/ ReaderStops \/ ReaderExits
  BY <1>4, EmptiedPipeInv DEF IfStep, ReaderReads, ReaderFails, ReaderStops, ReaderExits
<1> QED BY <1>1, <1>2, <1>3, <1>4 DEF IfStep, Reader, ReaderLine

\* The oldest event of the client's queue goes to the application.
LEMMA PopPipeInv ==
  ASSUME IInv, PipeInv, events # <<>>, Pop,
         UNCHANGED <<wpc, hand, eventQueue, seen, active>>
  PROVE  PipeInv'
<1>1. /\ Len(events) \in Nat /\ Len(events) >= 1 /\ Len(events') = Len(events) - 1
      /\ \A i \in 1 .. Len(events) - 1 : events'[i] = events[i + 1]
      /\ last' = events[1]
  <2>1. /\ events \in Seq(1 .. sent) /\ events # <<>>
        /\ events' = Tail(events) /\ last' = Head(events)
    BY DEF IInv, TypeOK, Pop
  <2> QED BY <2>1, NumberPopped
<1>2. /\ \A i \in 1 .. Len(events) : events[i] \in Nat
      /\ \A i \in 1 .. Len(eventQueue) : eventQueue[i] \in Nat
      /\ hand \in Nat /\ last \in Nat
  BY PipeTypes
<1>3. \A i \in 1 .. Len(events') :
        i \in 1 .. Len(events) /\ i + 1 \in 1 .. Len(events) /\ events'[i] = events[i + 1]
  BY <1>1
<1>4. Increasing(events)'
  BY <1>1, <1>3 DEF PipeInv, Increasing
<1>5. \A i \in 1 .. Len(events') : last' < events'[i]
  BY <1>1, <1>3 DEF PipeInv, Increasing
<1>6. \A i \in 1 .. Len(eventQueue) : last' < eventQueue[i]
  BY <1>1 DEF PipeInv
<1>7. last' <= seen /\ (hand # 0 => last' < hand)
  BY <1>1 DEF PipeInv
<1>8. \A i \in 1 .. Len(events') :
        /\ events'[i] \in Wanted /\ events'[i] <= seen
        /\ hand # 0 => events'[i] < hand
        /\ \A j \in 1 .. Len(eventQueue) : events'[i] < eventQueue[j]
  BY <1>3 DEF PipeInv
<1>9. ~active
  BY DEF PipeInv
<1> QED BY <1>4, <1>5, <1>6, <1>7, <1>8, <1>9 DEF PipeInv, Increasing

\* The worker takes the oldest event of the interface's queue.
LEMMA WorkerTakesPipeInv ==
  ASSUME IInv, PipeInv, WorkerTakes
  PROVE  PipeInv'
<1>1. /\ Len(eventQueue) \in Nat /\ Len(eventQueue) >= 1 /\ Len(eventQueue') = Len(eventQueue) - 1
      /\ \A i \in 1 .. Len(eventQueue) - 1 : eventQueue'[i] = eventQueue[i + 1]
      /\ hand' = eventQueue[1] /\ hand' \in 1 .. sent
  <2>1. /\ eventQueue \in Seq(1 .. sent) /\ eventQueue # <<>>
        /\ eventQueue' = Tail(eventQueue) /\ hand' = Head(eventQueue)
    BY DEF IInv, TypeOK, IfTypeOK, WorkerTakes
  <2> QED BY <2>1, NumberPopped
<1>t. /\ \A i \in 1 .. Len(events) : events[i] \in Nat
      /\ \A i \in 1 .. Len(eventQueue) : eventQueue[i] \in Nat
      /\ hand \in Nat /\ last \in Nat
  BY PipeTypes
<1>2. \A i \in 1 .. Len(eventQueue') :
        /\ i \in 1 .. Len(eventQueue) /\ i + 1 \in 1 .. Len(eventQueue)
        /\ eventQueue'[i] = eventQueue[i + 1]
  BY <1>1
<1>3. UNCHANGED <<events, seen, last, active>> /\ wpc' \in {"got", "error"} /\ hand' # 0
  BY <1>1 DEF WorkerTakes
<1>q. Increasing(eventQueue)
  BY DEF PipeInv
<1>4. Increasing(eventQueue)'
  <2> SUFFICES ASSUME NEW i \in 1 .. Len(eventQueue'), NEW j \in 1 .. Len(eventQueue'), i < j
               PROVE  eventQueue'[i] < eventQueue'[j]
    BY DEF Increasing
  <2>1. i + 1 \in 1 .. Len(eventQueue) /\ j + 1 \in 1 .. Len(eventQueue) /\ i + 1 < j + 1
    BY <1>1
  <2>2. eventQueue[i + 1] < eventQueue[j + 1]
    BY <1>q, <2>1 DEF Increasing
  <2> QED BY <1>2, <2>2
<1>5. \A i \in 1 .. Len(eventQueue') :
        last < eventQueue'[i] /\ hand' < eventQueue'[i] /\ eventQueue'[i] <= seen
  <2> SUFFICES ASSUME NEW i \in 1 .. Len(eventQueue')
               PROVE  last < eventQueue'[i] /\ hand' < eventQueue'[i] /\ eventQueue'[i] <= seen
    OBVIOUS
  <2>1. 1 \in 1 .. Len(eventQueue) /\ i + 1 \in 1 .. Len(eventQueue) /\ 1 < i + 1
    BY <1>1
  <2>2. eventQueue[1] < eventQueue[i + 1]
    BY <1>q, <2>1 DEF Increasing
  <2>3. last < eventQueue[i + 1] /\ eventQueue[i + 1] <= seen
    BY <2>1 DEF PipeInv
  <2> QED BY <1>1, <1>2, <2>2, <2>3
<1>6. \A i \in 1 .. Len(events) :
        /\ events[i] < hand'
        /\ \A j \in 1 .. Len(eventQueue') : events[i] < eventQueue'[j]
  <2>1. 1 \in 1 .. Len(eventQueue)
    BY <1>1
  <2>2. \A i \in 1 .. Len(events) : \A j \in 1 .. Len(eventQueue) : events[i] < eventQueue[j]
    BY DEF PipeInv
  <2> QED BY <1>1, <1>2, <2>1, <2>2
<1>7. last <= seen /\ hand' <= seen /\ last < hand'
  BY <1>1 DEF PipeInv
<1> QED BY <1>3, <1>4, <1>5, <1>6, <1>7 DEF PipeInv, Increasing

\* The worker queues the event it holds behind the older ones.
LEMMA WorkerQueuesPipeInv ==
  ASSUME IInv, PipeInv, WorkerQueues
  PROVE  PipeInv'
<1>1. hand \in 1 .. sent /\ hand # 0
  BY DEF IInv, TypeOK, IfTypeOK, PipeInv, WorkerQueues
<1>2. /\ Len(events) \in Nat /\ Len(events') = Len(events) + 1
      /\ \A i \in 1 .. Len(events) : events'[i] = events[i]
      /\ events'[Len(events) + 1] = hand
  <2>1. sent \in Nat /\ events \in Seq(1 .. sent) /\ events' = Append(events, hand)
    BY DEF IInv, TypeOK, IfTypeOK, WorkerQueues
  <2> QED BY <1>1, <2>1, NumberAppended
<1>3. \A i \in 1 .. Len(events') : i \in 1 .. Len(events) \/ i = Len(events) + 1
  BY <1>2
<1>4. /\ UNCHANGED <<eventQueue, seen, last, active>> /\ wpc' = "top" /\ hand' = 0
      /\ ~active /\ hand \in Wanted
  BY DEF WorkerQueues
<1>5. Increasing(events)'
  BY <1>1, <1>2, <1>3 DEF PipeInv, Increasing
<1>6. \A i \in 1 .. Len(events') :
        /\ events'[i] \in Wanted /\ last < events'[i] /\ events'[i] <= seen
        /\ \A j \in 1 .. Len(eventQueue) : events'[i] < eventQueue[j]
  BY <1>1, <1>2, <1>3, <1>4 DEF PipeInv
<1>7. \A i \in 1 .. Len(eventQueue) : 0 < eventQueue[i]
  BY PipeTypes
<1>8. 0 <= seen
  BY DEF IInv, TypeOK, IfTypeOK
<1> QED BY <1>4, <1>5, <1>6, <1>7, <1>8 DEF PipeInv, Increasing

\* The worker lets go of an event, or passes it to a callback.
LEMMA WorkerDropsPipeInv ==
  ASSUME IInv, PipeInv, hand' = 0, wpc' \notin {"got", "push", "call"},
         last' = last \/ (hand # 0 /\ last' = hand /\ active),
         UNCHANGED <<events, eventQueue, seen, active>>
  PROVE  PipeInv'
<1>1. \A i \in 1 .. Len(eventQueue) : 0 < eventQueue[i]
  BY PipeTypes
<1>2. 0 <= seen
  BY DEF IInv, TypeOK, IfTypeOK
<1>3. CASE last' = last
  BY <1>1, <1>2, <1>3 DEF PipeInv, Increasing
<1>4. CASE hand # 0 /\ last' = hand /\ active
  BY <1>1, <1>2, <1>4 DEF PipeInv, Increasing
<1> QED BY <1>3, <1>4

\* The steps of the worker, by what they do with the event it holds
LEMMA WorkerPipeInv ==
  ASSUME IInv, PipeInv, Worker
  PROVE  PipeInv'
<1>1. CASE \/ WorkerTop \/ WorkerEval \/ WorkerBlock \/ WorkerWoken \/ WorkerReceive
           \/ WorkerTimeout \/ WorkerReceiveFails \/ CallbackReturns
  <2>1. /\ wpc \notin {"got", "error", "push", "call", "fail"} /\ wpc' \notin {"got", "push", "call"}
        /\ UNCHANGED <<hand, events, eventQueue, seen, last, active>>
    BY <1>1 DEF WorkerTop, WorkerEval, WorkerBlock, WorkerWoken, WorkerReceive, WorkerTimeout,
       WorkerReceiveFails, CallbackReturns
  <2> QED BY <2>1, EmptyHanded, MovedPipeInv
<1>2. CASE WorkerTakes
  BY <1>2, WorkerTakesPipeInv
<1>3. CASE WorkerQueues
  BY <1>3, WorkerQueuesPipeInv
<1>4. CASE WorkerRejects \/ WorkerFails \/ WorkerCalls
  BY <1>4, WorkerDropsPipeInv DEF WorkerRejects, WorkerFails, WorkerCalls, PipeInv
<1>5. CASE WorkerChecks /\ ~running
  BY <1>5, WorkerDropsPipeInv DEF WorkerChecks
<1>6. CASE WorkerChecks /\ running
  <2>1. /\ wpc' \in {"push", "fail"} /\ (wpc' = "push" => wpc = "got")
        /\ UNCHANGED <<hand, events, eventQueue, seen, last, active>>
    BY <1>6 DEF WorkerChecks
  <2> QED BY <2>1 DEF PipeInv, Increasing
<1>7. CASE WorkerUnlocks
  <2>1. /\ wpc = "push" /\ wpc' \in {"call", "fail"} /\ (wpc' = "call" => active /\ hand \in Wanted)
        /\ UNCHANGED <<hand, events, eventQueue, seen, last, active>>
    BY <1>7 DEF WorkerUnlocks
  <2> QED BY <2>1 DEF PipeInv, Increasing
<1> QED BY <1>1, <1>2, <1>3, <1>4, <1>5, <1>6, <1>7 DEF Worker

\* Calls that begin, and what the Owner does
LEMMA OwnerPipeInv ==
  ASSUME IInv, PipeInv, Connect \/ Disconnect \/ InOwnerCall
  PROVE  PipeInv'
<1>1. CASE Connect
  BY <1>1, EmptiedPipeInv DEF Connect, Call
<1>2. CASE Disconnect
  BY <1>2, EmptiedPipeInv DEF Disconnect, Call
<1>3. CASE IfStep(OpenClose(Owner))
  <2>1. /\ eventQueue' \in {eventQueue, <<>>}
        /\ UNCHANGED <<wpc, hand, events, seen, last, active>>
    BY <1>3 DEF IfStep, OpenClose, Opens, OpenFails, CloseLock, CloseStop, CloseJoin, Join
  <2> QED BY <2>1, EmptiedPipeInv
<1>4. CASE ConnectSpawns
  <2>1. hand = 0
    BY <1>4, EmptyHanded DEF IInv, RunInv, ConnectSpawns
  <2>2. events' = <<>> /\ wpc' = "top" /\ UNCHANGED <<hand, eventQueue, seen, last, active>>
    BY <1>4 DEF ConnectSpawns
  <2> QED BY <2>1, <2>2 DEF PipeInv, Increasing
<1>5. CASE ConnectSpawnFails
  BY <1>5, EmptiedPipeInv DEF ConnectSpawnFails
<1>6. CASE DisconnectDispatch
  <2>1. CASE wpc = "blocked"
    BY <1>6, <2>1, EmptyHanded, MovedPipeInv DEF DisconnectDispatch, NotifyWorker
  <2>2. CASE wpc # "blocked"
    BY <1>6, <2>2, EmptiedPipeInv DEF DisconnectDispatch, NotifyWorker
  <2> QED BY <2>1, <2>2
<1>7. CASE DisconnectJoin
  BY <1>7, EmptiedPipeInv DEF DisconnectJoin
<1> QED BY <1>1, <1>2, <1>3, <1>4, <1>5, <1>6, <1>7 DEF InOwnerCall

\* What an application thread or a callback does
LEMMA CallPipeInv ==
  ASSUME IInv, PipeInv, NEW t \in Threads, Begins(t) \/ InCall(t)
  PROVE  PipeInv'
<1>1. CASE Send(t) \/ Clear(t) \/ ReceiveBlocking(t)
  BY <1>1, EmptiedPipeInv DEF Send, Clear, ReceiveBlocking, Call
<1>2. CASE Receive(t)
  BY <1>2, PopPipeInv DEF Receive, Call
<1>3. CASE IfStep(Command(t))
  <2>1. UNCHANGED <<wpc, hand, events, eventQueue, seen, last, active>>
    BY <1>3 DEF IfStep, Command, CommandBegin, CommandWrite, CommandWriteFails, CommandWriteJoin,
       CommandDone, CommandTimeout, CommandTimeoutJoin, Join
  <2> QED BY <2>1, EmptiedPipeInv
<1>4. CASE SendLock(t) \/ SendReturns(t)
  BY <1>4, EmptiedPipeInv DEF SendLock, SendReturns
<1>5. CASE ClearLock(t) \/ ClearDispatch(t) \/ ClearUnlock(t)
  BY <1>5, EmptiedPipeInv DEF ClearLock, ClearDispatch, ClearUnlock
<1>6. CASE ClearReturns(t) \/ ClearEvents(t)
  BY <1>6, EmptiedPipeInv DEF ClearReturns, ClearEvents
<1>7. CASE ClearUnpause(t)
  <2>1. CASE wpc = "blocked"
    BY <1>7, <2>1, EmptyHanded, MovedPipeInv DEF ClearUnpause, Unpause, NotifyWorker
  <2>2. CASE wpc # "blocked"
    BY <1>7, <2>2, EmptiedPipeInv DEF ClearUnpause, Unpause, NotifyWorker
  <2> QED BY <2>1, <2>2
<1>8. CASE ReceiveReturns(t)
  <2>1. CASE events = <<>>
    BY <1>8, <2>1, EmptiedPipeInv DEF ReceiveReturns
  <2>2. CASE events # <<>>
    BY <1>8, <2>2, PopPipeInv DEF ReceiveReturns
  <2> QED BY <2>1, <2>2
<1> QED BY <1>1, <1>2, <1>3, <1>4, <1>5, <1>6, <1>7, <1>8 DEF Begins, InCall

\* A client that has been constructed has no events.
LEMMA InitPipeInv == Init => PipeInv
BY DEF Init, IfInit, PipeInv, Increasing

\* Every step keeps the order.
LEMMA NextPipeInv == IInv /\ PipeInv /\ [Next]_vars => PipeInv'
<1> SUFFICES ASSUME IInv, PipeInv, [Next]_vars PROVE PipeInv'
  OBVIOUS
<1>1. CASE UNCHANGED vars
  BY <1>1, EmptiedPipeInv DEF vars
<1> QED BY <1>1, ServerPipeInv, ReaderPipeInv, WorkerPipeInv, OwnerPipeInv, CallPipeInv DEF Next

\* The events that are handed over, queued, in the worker's hand and in the
\* interface's queue are in the order in which they came.
THEOREM SingleChannelOrder == Spec => [](IInv /\ PipeInv)
<1>1. Init => IInv /\ PipeInv
  BY InitIInv, InitPipeInv
<1>2. IInv /\ PipeInv /\ [Next]_vars => IInv' /\ PipeInv'
  BY NextIInv, NextPipeInv
<1> QED BY <1>1, <1>2, PTL DEF Spec

\* The entries of a queue are its head and those that remain without it.
LEMMA EntriesPopped ==
  ASSUME NEW S, NEW q \in Seq(S), q # <<>>
  PROVE  Entries(q) = {Head(q)} \cup Entries(Tail(q))
<1>1. /\ Len(q) \in Nat /\ Len(q) >= 1 /\ Len(Tail(q)) = Len(q) - 1 /\ Head(q) = q[1]
      /\ DOMAIN q = 1 .. Len(q) /\ DOMAIN Tail(q) = 1 .. Len(q) - 1
      /\ \A i \in 1 .. Len(q) - 1 : Tail(q)[i] = q[i + 1]
  OBVIOUS
<1>2. ASSUME NEW i \in 1 .. Len(q), i # 1
      PROVE  i - 1 \in 1 .. Len(q) - 1 /\ Tail(q)[i - 1] = q[i]
  BY <1>1, <1>2
<1>3. ASSUME NEW i \in 1 .. Len(q) - 1
      PROVE  i + 1 \in 1 .. Len(q) /\ Tail(q)[i] = q[i + 1]
  BY <1>1, <1>3
<1>4. 1 \in 1 .. Len(q)
  BY <1>1
<1>5. ASSUME NEW e \in Entries(q) PROVE e = Head(q) \/ e \in Entries(Tail(q))
  <2>1. PICK i \in 1 .. Len(q) : e = q[i]
    BY <1>1, <1>5 DEF Entries
  <2>2. CASE i = 1
    BY <1>1, <2>1, <2>2
  <2>3. CASE i # 1
    <3>1. i - 1 \in DOMAIN Tail(q) /\ e = Tail(q)[i - 1]
      BY <1>1, <1>2, <2>1, <2>3
    <3> QED BY <3>1 DEF Entries
  <2> QED BY <2>2, <2>3
<1>6. ASSUME NEW e, e = Head(q) \/ e \in Entries(Tail(q)) PROVE e \in Entries(q)
  BY <1>1, <1>3, <1>4, <1>6 DEF Entries
<1> QED BY <1>5, <1>6

\* An entry that is appended joins the others.
LEMMA EntriesAppended ==
  ASSUME NEW S, NEW q \in Seq(S), NEW e \in S
  PROVE  Entries(Append(q, e)) = Entries(q) \cup {e}
<1> DEFINE r == Append(q, e)
<1>1. /\ Len(q) \in Nat /\ DOMAIN q = 1 .. Len(q) /\ DOMAIN r = 1 .. Len(q) + 1
      /\ \A i \in 1 .. Len(q) : r[i] = q[i]
      /\ r[Len(q) + 1] = e
  OBVIOUS
<1> HIDE DEF r
<1>2. /\ \A i \in 1 .. Len(q) + 1 : i \in 1 .. Len(q) \/ i = Len(q) + 1
      /\ \A i \in 1 .. Len(q) : i \in 1 .. Len(q) + 1
      /\ Len(q) + 1 \in 1 .. Len(q) + 1
  BY <1>1
<1>3. Entries(r) = Entries(q) \cup {e}
  BY <1>1, <1>2 DEF Entries
<1> QED BY <1>3 DEF r

\* An entry of a queue is at one of its positions.
LEMMA EntryOf ==
  ASSUME NEW S, NEW q \in Seq(S), NEW e
  PROVE  e \in Entries(q) <=> \E i \in 1 .. Len(q) : e = q[i]
<1>1. DOMAIN q = 1 .. Len(q)
  OBVIOUS
<1> QED BY <1>1 DEF Entries

\* An empty queue has none.
LEMMA EntriesOfEmpty == Entries(<<>>) = {}
<1>1. DOMAIN <<>> = {}
  OBVIOUS
<1> QED BY <1>1 DEF Entries

\* A step that neither takes an event from the pipe nor adds one
LEMMA StepExcuses ==
  ASSUME UNCHANGED <<hand, events, eventQueue, seen, last>>
  PROVE  Pipe!Next
<1>1. UNCHANGED <<InTransit, seen, last>>
  BY DEF InTransit, Entries
<1> QED BY <1>1 DEF Pipe!Next, Pipe!Excuse

\* A step that drops events when it may
LEMMA StepDiscards ==
  ASSUME Excused \/ Excused', events' \in {events, <<>>}, hand' \in {hand, 0},
         eventQueue' \in {eventQueue, <<>>}, UNCHANGED <<seen, last>>
  PROVE  Pipe!Next
<1>1. Entries(events)' \subseteq Entries(events)
  <2>1. CASE events' = <<>>
    BY <2>1, EntriesOfEmpty DEF Entries
  <2> QED BY <2>1 DEF Entries
<1>2. Entries(eventQueue)' \subseteq Entries(eventQueue)
  <2>1. CASE eventQueue' = <<>>
    BY <2>1, EntriesOfEmpty DEF Entries
  <2> QED BY <2>1 DEF Entries
<1>3. InTransit' \subseteq InTransit
  BY <1>1, <1>2 DEF InTransit
<1> QED BY <1>3 DEF Pipe!Next, Pipe!Discard

\* ProcessEvent: the event joins the pipe.
LEMMA StepArrives ==
  ASSUME IInv, ReaderLine, ProcessEvent, UNCHANGED upperVars
  PROVE  Pipe!Next
<1>1. /\ seen \in Nat /\ sent \in Nat /\ rline.n \in seen + 1 .. sent
      /\ eventQueue \in Seq(1 .. sent)
  BY DEF IInv, TypeOK, IfTypeOK, OrderInv, ProcessEvent
<1>2. /\ eventQueue' = Append(eventQueue, rline.n) /\ seen' = rline.n
      /\ UNCHANGED <<hand, events, last>>
  BY DEF ProcessEvent, ReaderLine
<1>3. seen' > seen /\ rline.n \in 1 .. sent
  BY <1>1, <1>2
<1>4. Entries(eventQueue') = Entries(eventQueue) \cup {rline.n}
  <2> DEFINE S == 1 .. sent
  <2>1. eventQueue \in Seq(S) /\ rline.n \in S
    BY <1>1, <1>3
  <2> HIDE DEF S
  <2>2. Entries(Append(eventQueue, rline.n)) = Entries(eventQueue) \cup {rline.n}
    BY <2>1, EntriesAppended
  <2> QED BY <1>2, <2>2
<1>5. Entries(events') = Entries(events)
  BY <1>2
<1>6. InTransit' = InTransit \cup {seen'}
  BY <1>2, <1>4, <1>5 DEF InTransit
<1> QED BY <1>2, <1>3, <1>6 DEF Pipe!Next, Pipe!Arrive

\* A receive takes the oldest event of the pipe.
LEMMA StepPops ==
  ASSUME IInv, PipeInv, events # <<>>, Pop, UNCHANGED <<hand, eventQueue, seen>>
  PROVE  Pipe!Next
<1>1. events \in Seq(1 .. sent) /\ events' = Tail(events) /\ last' = Head(events)
  BY DEF IInv, TypeOK, Pop
<1>2. Entries(events) = {last'} \cup Entries(events')
  BY <1>1, EntriesPopped
<1>3. /\ events' \in Seq(1 .. sent) /\ eventQueue \in Seq(1 .. sent)
      /\ Len(events) \in Nat /\ Len(events) >= 1 /\ Len(events') = Len(events) - 1
      /\ \A i \in 1 .. Len(events) - 1 : events'[i] = events[i + 1]
      /\ last' = events[1] /\ last' \in Nat
  <2>1. eventQueue \in Seq(1 .. sent)
    BY DEF IInv, TypeOK, IfTypeOK
  <2> QED BY <1>1, <2>1, NumberPopped
<1>t. /\ hand \in Nat /\ last \in Nat
      /\ \A i \in 1 .. Len(events) : events[i] \in Nat
      /\ \A i \in 1 .. Len(eventQueue) : eventQueue[i] \in Nat
  BY PipeTypes
<1>4. ASSUME NEW f \in Entries(events') PROVE last' < f
  <2>1. PICK i \in 1 .. Len(events') : f = events'[i]
    BY <1>3, EntryOf
  <2>2. 1 \in 1 .. Len(events) /\ i + 1 \in 1 .. Len(events) /\ 1 < i + 1 /\ f = events[i + 1]
    BY <1>3, <2>1
  <2>3. Increasing(events)
    BY DEF PipeInv
  <2> QED BY <1>3, <2>2, <2>3 DEF Increasing
<1>5. ASSUME NEW f \in Entries(eventQueue) PROVE last' < f
  <2>1. PICK i \in 1 .. Len(eventQueue) : f = eventQueue[i]
    BY <1>3, EntryOf
  <2> QED BY <1>3, <2>1 DEF PipeInv
<1>6. hand # 0 => last' < hand
  BY <1>3 DEF PipeInv
<1>7. last' > last /\ last' \in Wanted
  BY <1>3, <1>t DEF PipeInv
<1>8. UNCHANGED Entries(eventQueue)
  BY DEF Entries
<1> DEFINE Rest == Entries(events') \cup ({hand} \ {0}) \cup Entries(eventQueue)
<1>9. InTransit = {last'} \cup Rest /\ InTransit' = Rest
  BY <1>2, <1>8 DEF InTransit
<1>10. \A f \in Rest : last' < f /\ f \in Nat
  <2>1. \A f \in Entries(events') : f \in Nat
    BY <1>1, <1>2, <1>t, EntryOf
  <2>2. \A f \in Entries(eventQueue) : f \in Nat
    <3> SUFFICES ASSUME NEW f \in Entries(eventQueue) PROVE f \in Nat
      OBVIOUS
    <3>1. PICK i \in 1 .. Len(eventQueue) : f = eventQueue[i]
      BY <1>3, EntryOf
    <3> QED BY <1>t, <3>1
  <2> QED BY <1>4, <1>5, <1>6, <1>t, <2>1, <2>2
<1> HIDE DEF Rest
<1>11. last' \notin Rest
  BY <1>3, <1>10
<1>12. InTransit' = InTransit \ {last'}
  BY <1>9, <1>11
<1>13. \A f \in InTransit : last' <= f
  BY <1>3, <1>9, <1>10
<1>14. last' \in InTransit
  BY <1>9
<1> QED BY <1>7, <1>12, <1>13, <1>14 DEF Pipe!Next, Pipe!HandOver

\* The worker calls the callback with the event it holds: an active client
\* has none queued.
LEMMA StepCalls ==
  ASSUME IInv, PipeInv, WorkerCalls, running
  PROVE  Pipe!Next
<1>1. /\ wpc = "call" /\ last' = hand /\ hand' = 0
      /\ UNCHANGED <<events, eventQueue, seen, active>>
  BY DEF WorkerCalls
<1>2. hand # 0 /\ hand \in Wanted /\ events = <<>> /\ last < hand
  BY <1>1 DEF PipeInv
<1>t. hand \in Nat /\ last \in Nat /\ \A i \in 1 .. Len(eventQueue) : eventQueue[i] \in Nat
  BY PipeTypes
<1>3. Entries(events) = {} /\ Entries(events)' = {}
  BY <1>1, <1>2, EntriesOfEmpty
<1>4. UNCHANGED Entries(eventQueue)
  BY <1>1 DEF Entries
<1>5. \A f \in Entries(eventQueue) : hand < f /\ f \in Nat
  <2> SUFFICES ASSUME NEW f \in Entries(eventQueue) PROVE hand < f /\ f \in Nat
    OBVIOUS
  <2>1. eventQueue \in Seq(1 .. sent)
    BY DEF IInv, TypeOK, IfTypeOK
  <2>2. PICK i \in 1 .. Len(eventQueue) : f = eventQueue[i]
    BY <2>1, EntryOf
  <2> QED BY <1>t, <2>2 DEF PipeInv
<1>6. InTransit = {hand} \cup Entries(eventQueue) /\ InTransit' = Entries(eventQueue)
  BY <1>1, <1>2, <1>3, <1>4 DEF InTransit
<1>7. hand \notin Entries(eventQueue)
  BY <1>5, <1>t
<1>8. InTransit' = InTransit \ {hand} /\ hand \in InTransit /\ \A f \in InTransit : hand <= f
  BY <1>5, <1>6, <1>7, <1>t
<1> QED BY <1>1, <1>2, <1>8, <1>t DEF Pipe!Next, Pipe!HandOver

\* The worker takes or queues an event, which stays in the pipe.
LEMMA StepMoves ==
  ASSUME IInv, PipeInv, WorkerTakes \/ WorkerQueues
  PROVE  Pipe!Next
<1>1. CASE WorkerTakes
  <2>1. /\ eventQueue \in Seq(1 .. sent) /\ eventQueue # <<>> /\ eventQueue' = Tail(eventQueue)
        /\ hand' = Head(eventQueue) /\ UNCHANGED <<events, seen, last>>
    BY <1>1 DEF IInv, TypeOK, IfTypeOK, WorkerTakes
  <2>2. Entries(eventQueue) = {hand'} \cup Entries(eventQueue')
    BY <2>1, EntriesPopped
  <2>3. hand = 0 /\ hand' # 0
    <3>1. hand' \in 1 .. sent
      BY <2>1, NumberPopped
    <3>2. hand = 0
      BY <1>1, EmptyHanded DEF WorkerTakes
    <3> QED BY <3>1, <3>2
  <2>4. Entries(events') = Entries(events)
    BY <2>1
  <2>5. InTransit' = InTransit
    BY <2>2, <2>3, <2>4 DEF InTransit
  <2> QED BY <2>1, <2>5 DEF Pipe!Next, Pipe!Excuse
<1>2. CASE WorkerQueues
  <2>1. /\ events \in Seq(1 .. sent) /\ hand \in 1 .. sent
        /\ events' = Append(events, hand) /\ hand' = 0 /\ UNCHANGED <<eventQueue, seen, last>>
    <3>1. hand \in 0 .. sent /\ hand # 0
      BY <1>2 DEF IInv, TypeOK, PipeInv, WorkerQueues
    <3> QED BY <1>2, <3>1 DEF IInv, TypeOK, IfTypeOK, WorkerQueues
  <2>2. Entries(events') = Entries(events) \cup {hand}
    <3> DEFINE S == 1 .. sent
    <3>1. events \in Seq(S) /\ hand \in S
      BY <2>1
    <3> HIDE DEF S
    <3>2. Entries(Append(events, hand)) = Entries(events) \cup {hand}
      BY <3>1, EntriesAppended
    <3> QED BY <2>1, <3>2
  <2>3. Entries(eventQueue') = Entries(eventQueue)
    BY <2>1
  <2>4. InTransit' = InTransit
    BY <2>1, <2>2, <2>3 DEF InTransit
  <2> QED BY <2>1, <2>4 DEF Pipe!Next, Pipe!Excuse
<1> QED BY <1>1, <1>2

\* The worker drops an event that the filter rejects.
LEMMA StepRejects ==
  ASSUME IInv, PipeInv, WorkerRejects
  PROVE  Pipe!Next
<1>1. /\ hand # 0 /\ hand' = 0 /\ hand \notin Wanted
      /\ UNCHANGED <<events, eventQueue, seen, last>>
  BY DEF PipeInv, WorkerRejects
<1>2. Entries(events') = Entries(events) /\ Entries(eventQueue') = Entries(eventQueue)
  BY <1>1
<1>t. hand \in Nat
  BY PipeTypes
<1>3. hand \notin Entries(events) /\ hand \notin Entries(eventQueue)
  <2>1. events \in Seq(1 .. sent) /\ eventQueue \in Seq(1 .. sent)
    BY DEF IInv, TypeOK, IfTypeOK
  <2>2. ASSUME hand \in Entries(events) PROVE FALSE
    <3>1. PICK i \in 1 .. Len(events) : hand = events[i]
      BY <2>1, <2>2, EntryOf
    <3>2. hand \in Wanted
      BY <3>1 DEF PipeInv
    <3> QED BY <1>1, <3>2
  <2>3. ASSUME hand \in Entries(eventQueue) PROVE FALSE
    <3>1. PICK i \in 1 .. Len(eventQueue) : hand = eventQueue[i]
      BY <2>1, <2>3, EntryOf
    <3>2. hand < hand
      BY <3>1 DEF PipeInv
    <3> QED BY <3>2, <1>t
  <2> QED BY <2>2, <2>3
<1>4. hand \in InTransit /\ InTransit' = InTransit \ {hand}
  BY <1>1, <1>2, <1>3 DEF InTransit
<1> QED BY <1>1, <1>4 DEF Pipe!Next, Pipe!Reject

\* Every step of the worker is one of the pipe.
LEMMA WorkerSteps ==
  ASSUME IInv, PipeInv, Worker
  PROVE  Pipe!Next
<1>1. CASE \/ WorkerTop \/ WorkerEval \/ WorkerBlock \/ WorkerWoken \/ WorkerReceive
           \/ WorkerTimeout \/ WorkerReceiveFails \/ CallbackReturns \/ WorkerUnlocks
  BY <1>1, StepExcuses DEF WorkerTop, WorkerEval, WorkerBlock, WorkerWoken, WorkerReceive,
     WorkerTimeout, WorkerReceiveFails, CallbackReturns, WorkerUnlocks
<1>2. CASE WorkerTakes \/ WorkerQueues
  BY <1>2, StepMoves
<1>3. CASE WorkerRejects
  BY <1>3, StepRejects
<1>4. CASE WorkerChecks /\ running
  BY <1>4, StepExcuses DEF WorkerChecks
<1>5. CASE WorkerChecks /\ ~running
  BY <1>5, StepDiscards DEF WorkerChecks, Excused
<1>6. CASE WorkerCalls /\ running
  BY <1>6, StepCalls
<1>7. CASE WorkerCalls /\ ~running
  BY <1>7, StepDiscards DEF WorkerCalls, Excused
<1>8. CASE WorkerFails
  BY <1>8, StepDiscards DEF WorkerFails, Excused
<1> QED BY <1>1, <1>2, <1>3, <1>4, <1>5, <1>6, <1>7, <1>8 DEF Worker

\* So is every step of the server and of the reader.
LEMMA ConnectionSteps ==
  ASSUME IInv, IfStep(Server) \/ IfStep(Reader)
  PROVE  Pipe!Next
<1>1. CASE IfStep(Server)
  BY <1>1, StepExcuses DEF IfStep, Server, ServerEvent, ServerBadLine, ServerReply, ServerIgnores,
     ServerCloses
<1>2. CASE IfStep(Reader)
  <2>1. CASE ReaderLine /\ ProcessEvent
    BY <1>2, <2>1, StepArrives DEF IfStep
  <2>2. CASE ReaderLine /\ (ProcessReply \/ ProcessBadLine)
    BY <1>2, <2>2, StepExcuses DEF IfStep, ReaderLine, ProcessReply, ProcessBadLine
  <2>3. CASE ReaderReads \/ ReaderFails \/ ReaderStops \/ ReaderExits
    BY <1>2, <2>3, StepExcuses DEF IfStep, ReaderReads, ReaderFails, ReaderStops, ReaderExits
  <2> QED BY <1>2, <2>1, <2>2, <2>3 DEF IfStep, Reader, ReaderLine
<1> QED BY <1>1, <1>2

\* A connect and a disconnect discard events while the client does not run.
LEMMA OwnerSteps ==
  ASSUME IInv, Connect \/ Disconnect \/ InOwnerCall
  PROVE  Pipe!Next
<1>1. CASE Connect
  BY <1>1, StepExcuses DEF Connect, Call
<1>2. CASE Disconnect
  BY <1>2, StepDiscards DEF Disconnect, Call, Excused
<1>3. CASE IfStep(OpenFails(Owner) \/ CloseLock(Owner) \/ CloseStop(Owner))
  BY <1>3, StepExcuses DEF IfStep, OpenFails, CloseLock, CloseStop
<1>4. CASE IfStep(Opens(Owner))
  <2>1. ~running
    BY <1>4 DEF IfStep, IInv, RunInv, Opens
  <2> QED BY <1>4, <2>1, StepDiscards DEF IfStep, Opens, Excused
<1>5. CASE IfStep(CloseJoin(Owner))
  <2>1. ~running
    <3>1. op = "close"
      BY <1>5 DEF IfStep, IInv, LockInv, ClosePlaces, CloseJoin
    <3> QED BY <3>1 DEF IInv, RunInv
  <2> QED BY <1>5, <2>1, StepDiscards DEF IfStep, CloseJoin, Join, Excused
<1>6. CASE ConnectSpawns \/ ConnectSpawnFails
  <2>1. ~running
    BY <1>6 DEF IInv, RunInv, ConnectSpawns, ConnectSpawnFails
  <2> QED BY <1>6, <2>1, StepDiscards DEF ConnectSpawns, ConnectSpawnFails, Excused
<1>7. CASE DisconnectDispatch \/ DisconnectJoin
  BY <1>7, StepExcuses DEF DisconnectDispatch, DisconnectJoin
<1> QED BY <1>1, <1>2, <1>3, <1>4, <1>5, <1>6, <1>7 DEF InOwnerCall, OpenClose, IfStep

\* The calls of an application thread or of a callback
LEMMA CallSteps ==
  ASSUME IInv, PipeInv, NEW t \in Threads, Begins(t) \/ InCall(t)
  PROVE  Pipe!Next
<1>1. CASE Send(t) \/ Clear(t) \/ ReceiveBlocking(t)
  BY <1>1, StepExcuses DEF Send, Clear, ReceiveBlocking, Call
<1>2. CASE Receive(t)
  BY <1>2, StepPops DEF Receive, Call
<1>3. CASE IfStep(Command(t))
  BY <1>3, StepExcuses DEF IfStep, Command, CommandBegin, CommandWrite, CommandWriteFails,
     CommandWriteJoin, CommandDone, CommandTimeout, CommandTimeoutJoin, Join
<1>4. CASE SendLock(t) \/ SendReturns(t)
  BY <1>4, StepExcuses DEF SendLock, SendReturns
<1>5. CASE ClearLock(t) \/ ClearDispatch(t) \/ ClearUnlock(t) \/ ClearUnpause(t)
  BY <1>5, StepExcuses DEF ClearLock, ClearDispatch, ClearUnlock, ClearUnpause, Unpause
<1>6. CASE ClearReturns(t) /\ ret
  BY <1>6, StepDiscards DEF ClearReturns, Excused
<1>7. CASE ClearReturns(t) /\ ~ret
  BY <1>7, StepExcuses DEF ClearReturns
<1>8. CASE ClearEvents(t)
  <2>1. op = "clear"
    BY <1>8 DEF IInv, LockInv, ClearPlaces, ClearEvents
  <2> QED BY <1>8, <2>1, StepDiscards DEF ClearEvents, Excused
<1>9. CASE ReceiveReturns(t) /\ events = <<>>
  BY <1>9, StepExcuses DEF ReceiveReturns
<1>10. CASE ReceiveReturns(t) /\ events # <<>>
  BY <1>10, StepPops DEF ReceiveReturns
<1> QED BY <1>1, <1>2, <1>3, <1>4, <1>5, <1>6, <1>7, <1>8, <1>9, <1>10 DEF Begins, InCall

\* The two queues and the worker between them hand events over once, in
\* order, and lose none without an excuse: the client implements EventPipe.
THEOREM SingleChannelIsPipe == Spec => ImplementsPipe
<1>1. Init => Pipe!Init
  <2> SUFFICES ASSUME Init PROVE Pipe!Init
    OBVIOUS
  <2>1. InTransit = {}
    BY EntriesOfEmpty DEF Init, IfInit, InTransit
  <2> QED BY <2>1 DEF Init, IfInit, Excused, Pipe!Init
<1>2. IInv /\ PipeInv /\ [Next]_vars => [Pipe!Next]_(Pipe!pipeVars)
  <2> SUFFICES ASSUME IInv, PipeInv, [Next]_vars PROVE [Pipe!Next]_(Pipe!pipeVars)
    OBVIOUS
  <2>1. CASE UNCHANGED vars
    BY <2>1, StepExcuses DEF vars
  <2> QED BY <2>1, WorkerSteps, ConnectionSteps, OwnerSteps, CallSteps DEF Next
<1> QED BY <1>1, <1>2, SingleChannelOrder, PTL DEF Spec, ImplementsPipe, Pipe!Spec
=============================================================================

--------------------------- MODULE BinaryChannel ---------------------------
(***************************************************************************)
(* vscpClientTcp in binary mode: polling ("poll"), asynchronous on one     *)
(* connection ("one") and on two connections ("two").                      *)
(*                                                                         *)
(* Threads: the application's Callers, of which Owner also connects and    *)
(* disconnects, and one worker per connection, named after its channel,    *)
(* whose callbacks call the client.  cmd, control's holder ctl and cb are  *)
(* the holders of m_singleChannelCommandMutex, m_binaryControlMutex and    *)
(* m_binaryCallbackMutex; m_singleChannelMutex is held inside one step     *)
(* each.  Time is abstract: due holds the requests whose deadline has      *)
(* passed.  An error is one value; m_singleChannelError is left out.       *)
(*                                                                         *)
(* A frame carries, beside what the client can see of it, the request it   *)
(* answers: by whom, and the number n of a control request or a poll.      *)
(***************************************************************************)
EXTENDS Naturals, Sequences, FiniteSets

CONSTANTS Callers, Owner, None,
          Modes,       \* the modes that are checked
          Wanted,      \* the events m_filterIn accepts
          Workloads    \* what is asked of the client in a behaviour: see below

Chan == {"send", "receive"}
Threads == Callers \cup Chan
Codes == {"CLEAR", "RETR"}

\* A workload bounds a behaviour: the calls the application uses and how many
\* each thread makes, the events the server sends on each connection, the
\* polls, and the faults (replies that are wrong, connections lost).
IsWorkload(w) == /\ w.operations \subseteq {"receive", "receiveRaw", "send", "sendRaw", "clear"}
                 /\ w.calls \in [Threads -> Nat]
                 /\ w.events \in [Chan -> Nat]
                 /\ {w.polls, w.faults} \subseteq Nat

ASSUME BinaryAssumption == /\ Owner \in Callers
                           /\ Callers \cap Chan = {}
                           /\ None \notin Threads
                           /\ Modes \subseteq {"poll", "one", "two"}
                           /\ \A w \in Workloads : IsWorkload(w)

VARIABLES
  mode, active,        \* configuration: the mode; a callback is active
  load,                \* the workload
  transport,           \* per channel: "none", "up", "lost" by the peer
  net,                 \* frames on their way to the client
  todo,                \* requests the server has not answered
  sent, bad, issued,   \* counters: events, faults, control requests,
  polls,               \*   polls
  running,             \* m_singleChannelRunning
  workers,             \* channels whose worker thread is joinable
  wpc, hand,           \* where a worker is, the frame it holds
  buffered,            \* frames that came before the reply to OPEN
  events, frames,      \* m_singleChannelEvents, m_binaryFrames
  rawPending,          \* m_binaryRawPending: how many wait, by key
  rawActive,           \* m_binaryRawActive
  pollPending, sawEvent,
  control,             \* m_binaryControlPending and ...Complete
  due,                 \* deadlines that have passed
  cmd, ctl, cb,
  pc, arg, calls,      \* per thread: where it is, its request, its calls
  asked, answer,       \* history: the control request and the reply to it
  seen, last, barrier  \* history, per channel: see EventPipe; last clear

netVars == <<transport, net, todo, sent, bad>>
rawVars == <<rawPending, rawActive, frames>>
pollVars == <<polls, pollPending, sawEvent>>
controlVars == <<control, asked, answer>>
workerVars == <<workers, wpc, hand, buffered>>
lockVars == <<cmd, ctl, cb>>
threadVars == <<pc, arg, calls>>
historyVars == <<seen, last, barrier>>
config == <<mode, active, load>>
vars == <<config, netVars, issued, running, workerVars, events, rawVars, pollVars, controlVars, due,
          lockVars, threadVars, historyVars>>

Poll == <<"send", "POLL">>
Keys == Chan \X Codes

\* normalizeBinaryChannel and binaryUsesTwoChannels
Normal(c) == IF mode = "two" THEN c ELSE "send"
Channels == IF mode = "two" THEN Chan ELSE {"send"}
Polling == mode = "poll"

Idle == [ch |-> "send", code |-> "CLEAR"]
NoFrame == [kind |-> "none", code |-> "NONE", by |-> "none", n |-> 0, ev |-> 0, ok |-> "ok"]

Init == /\ mode \in Modes /\ active \in BOOLEAN /\ load \in Workloads
        /\ transport = [c \in Chan |-> "none"]
        /\ net = [c \in Chan |-> <<>>] /\ todo = [c \in Chan |-> <<>>]
        /\ sent = [c \in Chan |-> 0] /\ bad = 0 /\ issued = 0
        /\ running = FALSE /\ workers = {}
        /\ wpc = [c \in Chan |-> "done"] /\ hand = [c \in Chan |-> NoFrame]
        /\ buffered = <<>> /\ events = <<>> /\ frames = <<>>
        /\ rawPending = [k \in Keys |-> 0] /\ rawActive = FALSE
        /\ polls = 0 /\ pollPending = FALSE /\ sawEvent = FALSE
        /\ control = "none" /\ asked = 0 /\ answer = 0
        /\ due = {}
        /\ cmd = None /\ ctl = None /\ cb = None
        /\ pc = [t \in Threads |-> "idle"] /\ arg = [t \in Threads |-> Idle]
        /\ calls = [t \in Threads |-> 0]
        /\ seen = [c \in Chan |-> 0] /\ last = [c \in Chan |-> 0] /\ barrier = 0

GotoWith(t, l, r) == /\ pc' = [pc EXCEPT ![t] = l]
                     /\ arg' = [arg EXCEPT ![t] = r]
Goto(t, l) == GotoWith(t, l, IF l = "idle" THEN Idle ELSE arg[t])

\* A worker at l holds a frame, and has it still when it fails.
HoldsFrame == {"frame", "dispatch", "call", "fail"}
WGoto(c, l) == /\ wpc' = [wpc EXCEPT ![c] = l]
               /\ hand' = IF l \in HoldsFrame THEN hand ELSE [hand EXCEPT ![c] = NoFrame]
-----------------------------------------------------------------------------
(* The transport and the server.                                            *)

Request(c, code, by, n) == [ch |-> c, code |-> code, by |-> by, n |-> n]

\* VscpRemoteTcpIf::sendBinaryFrame.  A write on a connection the peer has
\* closed may go unnoticed; one that fails closes it.
Write(c, r) ==
  /\ transport[c] \in {"up", "lost"}
  /\ todo' = IF transport[c] = "up" THEN [todo EXCEPT ![c] = Append(@, r)] ELSE todo
  /\ UNCHANGED <<transport, net, sent, bad>>

WriteFails(c) ==
  /\ transport[c] # "up"
  /\ transport' = [transport EXCEPT ![c] = "none"]
  /\ net' = [net EXCEPT ![c] = <<>>] /\ todo' = [todo EXCEPT ![c] = <<>>]
  /\ UNCHANGED <<sent, bad>>

Event(n, ok) == [kind |-> "event", code |-> "NONE", by |-> "none", n |-> 0, ev |-> n, ok |-> ok]
Reply(r, ev, ok) ==
  [kind |-> "reply", code |-> r.code, by |-> r.by, n |-> r.n, ev |-> ev, ok |-> ok]

Deliver(c, fs) == net' = [net EXCEPT ![c] = @ \o fs]

\* A wrong frame is one fault, and there are at most load.faults of them.
Faulty(ok) == IF ok \in {"error", "bad"} THEN bad < load.faults /\ bad' = bad + 1 ELSE UNCHANGED bad

serverKeeps == <<config, transport, issued, running, workerVars, events, rawVars, pollVars,
                 controlVars, due, lockVars, threadVars, historyVars>>

ServerEvent(c) ==
  /\ ~Polling /\ transport[c] = "up" /\ sent[c] < load.events[c]
  /\ sent' = [sent EXCEPT ![c] = @ + 1]
  /\ \E ok \in {"ok", "bad"} : Faulty(ok) /\ Deliver(c, <<Event(sent'[c], ok)>>)
  /\ UNCHANGED <<serverKeeps, todo>>

\* A request is answered in its turn; a poll with an event in the reply, or
\* before it, or with the error RCV_EMPTY.  "ok" for a poll without an event
\* is wrong, and taken as the fault "bad".
ServerReplies(c) ==
  /\ transport[c] = "up" /\ todo[c] # <<>>
  /\ todo' = [todo EXCEPT ![c] = Tail(@)]
  /\ LET r == Head(todo[c])
     IN \/ \E ok \in {IF r.by = "poll" THEN "empty" ELSE "ok", "error", "bad"} :
             /\ Faulty(ok)
             /\ Deliver(c, <<Reply(r, IF r.by = "control" THEN sent[c] ELSE 0, ok)>>)
             /\ UNCHANGED sent
        \/ /\ r.by = "poll" /\ sent[c] < load.events[c]
           /\ sent' = [sent EXCEPT ![c] = @ + 1]
           /\ \/ Deliver(c, <<Reply(r, sent'[c], "event")>>)
              \/ Deliver(c, <<Event(sent'[c], "ok"), Reply(r, 0, "ok")>>)
           /\ UNCHANGED bad
  /\ UNCHANGED serverKeeps

ConnectionLost(c) ==
  /\ transport[c] = "up" /\ bad < load.faults
  /\ bad' = bad + 1
  /\ transport' = [transport EXCEPT ![c] = "lost"]
  /\ todo' = [todo EXCEPT ![c] = <<>>]
  /\ UNCHANGED <<config, net, sent, issued, running, workerVars, events, rawVars, pollVars,
                 controlVars, due, lockVars, threadVars, historyVars>>

\* A deadline passes: of a poll, or of the oldest raw request of its key.
Pending(k) == IF k = Poll THEN pollPending ELSE rawPending[k] > 0

Expire == /\ \E k \in Keys \cup {Poll} : Pending(k) /\ k \notin due /\ due' = due \cup {k}
          /\ UNCHANGED <<config, netVars, issued, running, workerVars, events, rawVars, pollVars,
                         controlVars, lockVars, threadVars, historyVars>>
-----------------------------------------------------------------------------
(* Calls.  A callback may make them too, except clear and disconnect, which *)
(* refuse a worker thread.  A call that begins while the client does not    *)
(* run is refused and left out.                                             *)

CallWith(t, l, r) == /\ pc[t] = "idle"
                     /\ calls[t] < load.calls[t]
                     /\ IF t \in Chan THEN wpc[t] = "callback"
                                      ELSE pc[Owner] \notin {"opening", "spawn", "spawn2"}
                     /\ calls' = [calls EXCEPT ![t] = @ + 1]
                     /\ GotoWith(t, l, r)
Call(t, l) == CallWith(t, l, Idle)

\* receiveSingleChannel.  The wait for an event changes nothing, so that only
\* its end is a step.
Receive(t) ==
  /\ ~active /\ events # <<>>
  /\ Call(t, "idle")
  /\ events' = Tail(events)
  /\ last' = [last EXCEPT ![Head(events).ch] = Head(events).n]
  /\ UNCHANGED <<config, netVars, issued, running, workerVars, rawVars, pollVars, controlVars, due,
                 lockVars, seen, barrier>>

\* receiveBinaryFrame
ReceiveRaw(t) ==
  /\ running \/ frames # <<>>
  /\ Call(t, "idle")
  /\ rawActive' = TRUE
  /\ frames' = IF frames = <<>> THEN frames ELSE Tail(frames)
  /\ UNCHANGED <<config, netVars, issued, running, workerVars, events, rawPending, pollVars,
                 controlVars, due, lockVars, historyVars>>

callKeeps == <<config, workerVars, events, frames, pollVars, ctl, cb, calls, historyVars>>

\* send: the event goes out on m_tcp.
Send(t) == /\ running
           /\ Call(t, "sendLock")
           /\ UNCHANGED <<config, netVars, issued, running, workerVars, events, rawVars, pollVars,
                          controlVars, due, lockVars, historyVars>>

SendLock(t) ==
  /\ pc[t] = "sendLock" /\ cmd = None
  /\ IF running THEN cmd' = t /\ Goto(t, "sendWrite")
                ELSE UNCHANGED cmd /\ Goto(t, "idle")
  /\ UNCHANGED <<callKeeps, netVars, issued, running, rawPending, rawActive, controlVars, due>>

SendWrite(t) ==
  /\ pc[t] = "sendWrite"
  /\ cmd' = None
  /\ \/ Write("send", Request("send", "CONFIRM", "event", 0)) /\ Goto(t, "idle")
     \/ WriteFails("send") /\ Goto(t, "fail")
  /\ UNCHANGED <<callKeeps, issued, running, rawPending, rawActive, controlVars, due>>

\* failSingleChannelWorker, after the mutexes are released (m_binaryControlMutex
\* is not).
ReleaseControl(t) == ctl' = IF ctl = t THEN None ELSE ctl

CallFails(t) ==
  /\ pc[t] = "fail"
  /\ running' = FALSE
  /\ ReleaseControl(t)
  /\ Goto(t, "idle")
  /\ UNCHANGED <<config, netVars, issued, workerVars, events, rawVars, pollVars, controlVars, due,
                 cmd, cb, calls, historyVars>>
-----------------------------------------------------------------------------
(* vscpClientTcp::sendBinaryFrame.                                          *)

Tracked(code) == code = "CLEAR" \/ Polling
Key(r) == <<r.ch, r.code>>

SendRaw(t) ==
  /\ running
  /\ \E c \in Channels, code \in Codes :
       CallWith(t, "rawLock", [ch |-> c, code |-> code])
  /\ UNCHANGED <<config, netVars, issued, running, workerVars, events, rawVars, pollVars,
                 controlVars, due, lockVars, historyVars>>

\* mutant: internal requests are not looked at
NoConflicts(r) == FALSE

\* An internal request with the same channel and code is waiting for a reply.
Conflicts(r) == \/ pollPending /\ Key(r) = <<"send", "RETR">>
                \/ control # "none" /\ Key(r) = <<Normal("receive"), "CLEAR">>

RawLock(t) ==
  /\ pc[t] = "rawLock" /\ cmd = None
  /\ LET r == arg[t]
     IN IF ~running \/ (Tracked(r.code) /\ Conflicts(r))
        THEN Goto(t, "idle") /\ UNCHANGED <<cmd, rawPending, rawActive>>
        ELSE /\ cmd' = t
             /\ rawActive' = TRUE
             /\ rawPending' = IF Tracked(r.code) THEN [rawPending EXCEPT ![Key(r)] = @ + 1]
                                                 ELSE rawPending
             /\ Goto(t, "rawWrite")
  /\ UNCHANGED <<callKeeps, netVars, issued, running, controlVars, due>>

RawWrite(t) ==
  /\ pc[t] = "rawWrite"
  /\ LET r == arg[t]
     IN \/ /\ Write(r.ch, Request(r.ch, r.code, "raw", 0))
           /\ cmd' = None
           /\ Goto(t, "idle")
        \/ WriteFails(r.ch) /\ UNCHANGED cmd /\ Goto(t, "rawUnsend")
  /\ UNCHANGED <<callKeeps, issued, running, rawPending, rawActive, controlVars, due>>

\* mutant: it is taken for granted that the request is still there
RawUnsendUnchecked(t) ==
  /\ pc[t] = "rawUnsend"
  /\ rawPending' = IF Tracked(arg[t].code) THEN [rawPending EXCEPT ![Key(arg[t])] = @ - 1]
                                           ELSE rawPending
  /\ cmd' = None
  /\ Goto(t, "fail")
  /\ UNCHANGED <<callKeeps, netVars, issued, running, rawActive, controlVars, due>>

\* pop_back, if there is anything left to remove
RawUnsend(t) ==
  /\ pc[t] = "rawUnsend"
  /\ LET k == Key(arg[t])
         some == Tracked(arg[t].code) /\ rawPending[k] > 0
     IN /\ rawPending' = IF some THEN [rawPending EXCEPT ![k] = @ - 1] ELSE rawPending
        /\ due' = IF some /\ rawPending[k] = 1 THEN due \ {k} ELSE due
  /\ cmd' = None
  /\ Goto(t, "fail")
  /\ UNCHANGED <<callKeeps, netVars, issued, running, rawActive, controlVars>>
-----------------------------------------------------------------------------
(* clear, which is binaryCommand(receive, CLEAR).                           *)

Clear(t) == /\ t \in Callers /\ running
            /\ Call(t, "ctlLock")
            /\ UNCHANGED <<config, netVars, issued, running, workerVars, events, rawVars, pollVars,
                           controlVars, due, lockVars, historyVars>>

ControlLock(t) ==
  /\ pc[t] = "ctlLock" /\ ctl = None
  /\ ctl' = t
  /\ Goto(t, "ctlCmd")
  /\ UNCHANGED <<config, netVars, issued, running, workerVars, events, rawVars, pollVars,
                 controlVars, due, cmd, cb, calls, historyVars>>

\* A raw request with the same channel and code is waiting for a reply.
RawIsPending == rawPending[<<Normal("receive"), "CLEAR">>] > 0

ControlBegin(t) ==
  /\ pc[t] = "ctlCmd" /\ cmd = None
  /\ IF ~running \/ RawIsPending
     THEN /\ ctl' = None
          /\ Goto(t, "idle")
          /\ UNCHANGED <<cmd, issued, controlVars>>
     ELSE /\ cmd' = t
          /\ issued' = issued + 1
          /\ control' = "pending" /\ asked' = issued' /\ answer' = 0
          /\ Goto(t, "ctlWrite")
          /\ UNCHANGED ctl
  /\ UNCHANGED <<config, netVars, running, workerVars, events, rawVars, pollVars, due, cb,
                 calls, historyVars>>

ControlWrite(t) ==
  /\ pc[t] = "ctlWrite"
  /\ LET c == Normal("receive")
     IN \/ Write(c, Request(c, "CLEAR", "control", asked)) /\ Goto(t, "ctlWait")
        \/ WriteFails(c) /\ Goto(t, "ctlUnset")
  /\ cmd' = None
  /\ UNCHANGED <<callKeeps, issued, running, rawPending, rawActive, controlVars, due>>

EndControl == control' = "none" /\ asked' = 0 /\ answer' = 0

ControlUnset(t) ==
  /\ pc[t] = "ctlUnset"
  /\ EndControl
  /\ Goto(t, "fail")
  /\ UNCHANGED <<callKeeps, netVars, issued, running, rawPending, rawActive, due, cmd>>

\* The wait for the reply ends with it, with the end of the connection ...
ControlReturns(t) ==
  /\ pc[t] = "ctlWait"
  /\ control = "complete" \/ ~running
  /\ EndControl
  /\ ctl' = None
  /\ Goto(t, "idle")
  /\ UNCHANGED <<config, netVars, issued, running, workerVars, events, rawVars, pollVars, due,
                 cmd, cb, calls, historyVars>>

\* mutant: there is no time limit
ControlWaitsOn(t) == FALSE /\ UNCHANGED vars

\* ... or with the time limit, and then the client is stopped.
ControlTimeout(t) ==
  /\ pc[t] = "ctlWait"
  /\ control # "complete" /\ running
  /\ EndControl
  /\ Goto(t, "fail")
  /\ UNCHANGED <<callKeeps, netVars, issued, running, rawPending, rawActive, due, cmd>>
-----------------------------------------------------------------------------
(* binaryWorker, one for each channel.                                      *)

workerKeeps == <<config, issued, workers, rawActive, lockVars, threadVars>>

\* mutant: only the polls have a deadline
DuePoll(c) == c = "send" /\ Poll \in due

DueOn(c) == \E k \in due : k[1] = c

\* The conditions of the loop.
WorkerTop(c) ==
  /\ wpc[c] = "top"
  /\ ~running \/ DueOn(c)
  /\ WGoto(c, IF running THEN "fail" ELSE "done")
  /\ UNCHANGED <<workerKeeps, netVars, running, buffered, events, rawPending, frames,
                 pollVars, controlVars, due, historyVars>>

\* A poll, every 50 ms, unless a raw RETR is waiting for its reply.
CanPoll(c) == ~pollPending /\ rawPending[<<c, "RETR">>] = 0

WorkerPolls(c) ==
  /\ wpc[c] = "top" /\ running /\ ~DueOn(c)
  /\ Polling /\ CanPoll(c) /\ polls < load.polls
  /\ polls' = polls + 1 /\ pollPending' = TRUE /\ sawEvent' = FALSE
  /\ WGoto(c, "poll")
  /\ UNCHANGED <<workerKeeps, netVars, running, buffered, events, rawPending, frames,
                 controlVars, due, historyVars>>

WorkerWritesPoll(c) ==
  /\ wpc[c] = "poll"
  /\ \/ Write(c, Request(c, "RETR", "poll", polls)) /\ WGoto(c, "top")
     \/ WriteFails(c) /\ WGoto(c, "fail")
  /\ UNCHANGED <<workerKeeps, running, buffered, events, rawPending, frames, pollVars,
                 controlVars, due, historyVars>>

\* The number of the event a frame brings, or 0.
EventIn(f) == IF f.kind = "event" \/ (f.by = "poll" /\ f.ok = "event") THEN f.ev ELSE 0
Seen(c, f) == seen' = IF EventIn(f) > 0 THEN [seen EXCEPT ![c] = f.ev] ELSE seen

\* mutant: frames on the way go first
EarlyLast(c) == c = Normal("receive") /\ buffered # <<>> /\ net[c] = <<>>

Early(c) == c = Normal("receive") /\ buffered # <<>>

\* receiveBinaryFrame; the frames that came before the reply to OPEN come
\* first.  running is looked at once the frame is there.  A deadline may pass
\* just before a frame is read, and a read that times out changes nothing.
WorkerReads(c) ==
  /\ wpc[c] = "top"
  /\ Early(c) \/ (transport[c] # "none" /\ net[c] # <<>>)
  /\ LET f == IF Early(c) THEN Head(buffered) ELSE Head(net[c])
     IN IF running THEN /\ hand' = [hand EXCEPT ![c] = f]
                        /\ wpc' = [wpc EXCEPT ![c] = "frame"]
                        /\ IF Early(c) THEN UNCHANGED seen ELSE Seen(c, f)
                   ELSE WGoto(c, "done") /\ UNCHANGED seen
  /\ buffered' = IF Early(c) THEN Tail(buffered) ELSE buffered
  /\ net' = IF Early(c) THEN net ELSE [net EXCEPT ![c] = Tail(@)]
  /\ UNCHANGED <<workerKeeps, transport, todo, sent, bad, running, events, rawPending, frames,
                 pollVars, controlVars, due, last, barrier>>

NothingToRead(c) == /\ c = Normal("receive") => buffered = <<>>
                    /\ net[c] = <<>>

WorkerReadFails(c) ==
  /\ wpc[c] = "top" /\ NothingToRead(c) /\ transport[c] # "up"
  /\ transport' = [transport EXCEPT ![c] = "none"]
  /\ WGoto(c, IF running THEN "fail" ELSE "done")
  /\ UNCHANGED <<workerKeeps, net, todo, sent, bad, running, buffered, events, rawPending,
                 frames, pollVars, controlVars, due, historyVars>>

\* processBinaryFrame, an event: it is confirmed before it is dispatched.
ProcessEvent(c) ==
  /\ wpc[c] = "frame" /\ hand[c].kind = "event"
  /\ sawEvent' = (sawEvent \/ pollPending)
  /\ IF hand[c].ok = "bad"
     THEN WGoto(c, "fail") /\ UNCHANGED netVars
     ELSE \/ transport[c] # "none" /\ WGoto(c, "dispatch") /\ UNCHANGED netVars
          \/ WriteFails(c) /\ WGoto(c, "fail")
  /\ UNCHANGED <<workerKeeps, running, buffered, events, rawPending, frames, polls,
                 pollPending, controlVars, due, historyVars>>

\* A reply goes to the poll, to the control request, to the oldest raw
\* request, or to the queue of frames, in this order.
IsPollReply(c, f) == pollPending /\ c = "send" /\ f.code = "RETR"
IsControlReply(c, f) == control = "pending" /\ c = Normal("receive") /\ f.code = "CLEAR"

ProcessPollReply(c) ==
  LET f == hand[c]
  IN /\ wpc[c] = "frame" /\ f.kind = "reply" /\ IsPollReply(c, f)
     /\ pollPending' = FALSE
     /\ due' = due \ {Poll}
     /\ WGoto(c, IF f.ok = "event" THEN "dispatch"
                 ELSE IF f.ok = "empty" \/ (f.ok = "ok" /\ sawEvent) THEN "top" ELSE "fail")
     /\ UNCHANGED <<workerKeeps, netVars, running, buffered, events, rawPending, frames,
                    polls, sawEvent, controlVars, historyVars>>

\* mutant: the local events are left to the caller
ProcessControlReplyOnly(c) ==
  LET f == hand[c]
  IN /\ wpc[c] = "frame" /\ f.kind = "reply" /\ ~IsPollReply(c, f) /\ IsControlReply(c, f)
     /\ IF f.ok = "bad"
        THEN WGoto(c, "fail") /\ UNCHANGED <<control, answer, barrier>>
        ELSE /\ control' = "complete" /\ answer' = f.n
             /\ barrier' = IF f.ok = "ok" THEN f.ev ELSE barrier
             /\ WGoto(c, "top")
     /\ UNCHANGED <<workerKeeps, netVars, running, buffered, events, rawPending, frames,
                    pollVars, asked, due, seen, last>>

\* With a positive reply the local events go too.
ProcessControlReply(c) ==
  LET f == hand[c]
  IN /\ wpc[c] = "frame" /\ f.kind = "reply" /\ ~IsPollReply(c, f) /\ IsControlReply(c, f)
     /\ IF f.ok = "bad"
        THEN WGoto(c, "fail") /\ UNCHANGED <<control, answer, barrier, events>>
        ELSE /\ control' = "complete" /\ answer' = f.n
             /\ events' = IF f.ok = "ok" THEN <<>> ELSE events
             /\ barrier' = IF f.ok = "ok" THEN f.ev ELSE barrier
             /\ WGoto(c, "top")
     /\ UNCHANGED <<workerKeeps, netVars, running, buffered, rawPending, frames, pollVars,
                    asked, due, seen, last>>

\* A confirmation of a sent event is consumed until the raw calls are used.
Consumed(f) == f.code = "CONFIRM" /\ ~rawActive

ProcessOtherReply(c) ==
  LET f == hand[c]
      k == <<c, f.code>>
      own == f.code \in Codes /\ f.ok # "bad" /\ rawPending[k] > 0
  IN /\ wpc[c] = "frame" /\ f.kind = "reply" /\ ~IsPollReply(c, f) /\ ~IsControlReply(c, f)
     /\ rawPending' = IF own THEN [rawPending EXCEPT ![k] = @ - 1] ELSE rawPending
     /\ due' = IF own THEN due \ {k} ELSE due
     /\ frames' = IF Consumed(f) THEN frames ELSE Append(frames, f)
     /\ WGoto(c, IF Consumed(f) /\ f.ok # "ok" THEN "fail" ELSE "top")
     /\ UNCHANGED <<workerKeeps, netVars, running, buffered, events, pollVars, controlVars,
                    historyVars>>

\* dispatchBinaryEvent
Dispatch(c) ==
  /\ wpc[c] = "dispatch"
  /\ LET wanted == running /\ hand[c].ev \in Wanted
     IN /\ WGoto(c, IF wanted /\ active THEN "call" ELSE "top")
        /\ events' = IF wanted /\ ~active
                     THEN Append(events, [ch |-> c, n |-> hand[c].ev]) ELSE events
  /\ UNCHANGED <<workerKeeps, netVars, running, buffered, rawPending, frames, pollVars,
                 controlVars, due, historyVars>>

CallbackBegins(c) ==
  /\ wpc[c] = "call" /\ cb = None
  /\ IF running THEN /\ cb' = c
                     /\ last' = [last EXCEPT ![c] = hand[c].ev]
                     /\ WGoto(c, "callback")
                ELSE WGoto(c, "top") /\ UNCHANGED <<cb, last>>
  /\ UNCHANGED <<config, netVars, issued, running, workers, buffered, events, rawVars,
                 pollVars, controlVars, due, cmd, ctl, threadVars, seen, barrier>>

\* A callback returns or throws.
CallbackReturns(c) ==
  /\ wpc[c] = "callback" /\ pc[c] = "idle"
  /\ cb' = None
  /\ WGoto(c, "top") \/ WGoto(c, "fail")
  /\ UNCHANGED <<config, netVars, issued, running, workers, buffered, events, rawVars,
                 pollVars, controlVars, due, cmd, ctl, threadVars, historyVars>>

\* mutant: the worker ends, and the client does not know
WorkerJustEnds(c) ==
  /\ wpc[c] = "fail"
  /\ WGoto(c, "done")
  /\ UNCHANGED <<workerKeeps, netVars, running, buffered, events, rawPending, frames,
                 pollVars, controlVars, due, historyVars>>

WorkerFails(c) ==
  /\ wpc[c] = "fail"
  /\ running' = FALSE
  /\ WGoto(c, "done")
  /\ UNCHANGED <<workerKeeps, netVars, buffered, events, rawPending, frames, pollVars,
                 controlVars, due, historyVars>>

Worker(c) == \/ WorkerTop(c) \/ WorkerPolls(c) \/ WorkerWritesPoll(c)
             \/ WorkerReads(c) \/ WorkerReadFails(c)
             \/ ProcessEvent(c) \/ ProcessPollReply(c) \/ ProcessControlReply(c)
             \/ ProcessOtherReply(c) \/ Dispatch(c)
             \/ CallbackBegins(c) \/ CallbackReturns(c) \/ WorkerFails(c)
-----------------------------------------------------------------------------
(* connect (connectBinary) and disconnect.  doCmdOpen, the text dialogue and *)
(* doCmdBinary are one step, which may fail; the calls that are refused are  *)
(* left out.                                                                 *)

ownerKeeps == <<config, sent, bad, issued, ctl, cb, calls, last, barrier>>

Connect ==
  /\ ~running /\ workers = {} /\ \A c \in Channels : transport[c] # "up"
  /\ Call(Owner, IF Polling THEN "spawn" ELSE "opening")
  /\ transport' = [c \in Chan |-> IF c \in Channels THEN "up" ELSE "none"]
  /\ net' = [c \in Chan |-> <<>>]
  /\ todo' = [c \in Chan |-> IF c = Normal("receive") /\ ~Polling
                             THEN <<Request(c, "OPEN", "open", 0)>> ELSE <<>>]
  /\ buffered' = <<>>
  /\ UNCHANGED <<config, sent, bad, issued, running, workers, wpc, hand, events, rawVars, pollVars,
                 controlVars, due, lockVars, historyVars>>

\* openBinaryReceiveChannel keeps what comes before the reply to OPEN.
OpenReads ==
  LET c == Normal("receive")
      f == Head(net[c])
  IN /\ pc[Owner] = "opening" /\ net[c] # <<>>
     /\ net' = [net EXCEPT ![c] = Tail(@)]
     /\ IF f.code = "OPEN"
        THEN /\ Goto(Owner, IF f.ok = "ok" THEN "spawn" ELSE "closeFailed")
             /\ UNCHANGED <<buffered, seen>>
        ELSE /\ buffered' = Append(buffered, f)
             /\ Seen(c, f)
             /\ UNCHANGED <<pc, arg>>
     /\ UNCHANGED <<ownerKeeps, transport, todo, running, workers, wpc, hand, events, rawVars,
                    pollVars, controlVars, due, cmd>>

\* It fails when the time is up, the connection is lost or the frames that
\* are kept grow too large.
OpenFails ==
  /\ pc[Owner] = "opening"
  /\ Goto(Owner, "closeFailed")
  /\ buffered' = <<>>
  /\ UNCHANGED <<ownerKeeps, transport, net, todo, running, workers, wpc, hand, events, rawVars,
                 pollVars, controlVars, due, cmd, seen>>

ResetState ==
  /\ events' = <<>> /\ frames' = <<>>
  /\ rawPending' = [k \in Keys |-> 0] /\ rawActive' = FALSE
  /\ pollPending' = FALSE /\ sawEvent' = FALSE
  /\ EndControl
  /\ due' = {}

\* The receive worker is started, and the send worker if there is one; a
\* thread that cannot be started ends the connection.
Spawn ==
  /\ pc[Owner] = "spawn"
  /\ ResetState
  /\ \/ /\ running' = TRUE
        /\ workers' = {Normal("receive")}
        /\ wpc' = [wpc EXCEPT ![Normal("receive")] = "top"]
        /\ Goto(Owner, IF mode = "two" THEN "spawn2" ELSE "idle")
     \/ running' = FALSE /\ Goto(Owner, "closeFailed") /\ UNCHANGED <<workers, wpc>>
  /\ UNCHANGED <<ownerKeeps, transport, net, todo, hand, buffered, polls, cmd, seen>>

SpawnSend ==
  /\ pc[Owner] = "spawn2"
  /\ \/ /\ workers' = Chan
        /\ wpc' = [wpc EXCEPT !["send"] = "top"]
        /\ Goto(Owner, "idle")
        /\ UNCHANGED running
     \/ running' = FALSE /\ Goto(Owner, "joinFailed") /\ UNCHANGED <<workers, wpc>>
  /\ UNCHANGED <<ownerKeeps, transport, net, todo, hand, buffered, events, rawVars, pollVars,
                 controlVars, due, cmd, seen>>

Disconnect ==
  /\ Call(Owner, "join")
  /\ running' = FALSE
  /\ events' = <<>> /\ frames' = <<>> /\ rawPending' = [k \in Keys |-> 0]
  /\ due' = due \ Keys
  /\ UNCHANGED <<config, netVars, issued, workerVars, rawActive, pollVars, controlVars, lockVars,
                 historyVars>>

\* mutant: a worker in a callback is not waited for
JoinDetaches ==
  /\ pc[Owner] \in {"join", "joinFailed"}
  /\ \A c \in workers : wpc[c] \in {"done", "callback"}
  /\ workers' = {}
  /\ Goto(Owner, IF pc[Owner] = "join" THEN "close" ELSE "closeFailed")
  /\ UNCHANGED <<ownerKeeps, transport, net, todo, running, wpc, hand, buffered, events, rawVars,
                 pollVars, controlVars, due, cmd, seen>>

\* The workers are joined one after the other, which takes as long as the
\* slower one does.
Join ==
  /\ pc[Owner] \in {"join", "joinFailed"}
  /\ \A c \in workers : wpc[c] = "done"
  /\ workers' = {}
  /\ Goto(Owner, IF pc[Owner] = "join" THEN "close" ELSE "closeFailed")
  /\ UNCHANGED <<ownerKeeps, transport, net, todo, running, wpc, hand, buffered, events, rawVars,
                 pollVars, controlVars, due, cmd, seen>>

\* doCmdClose on both connections, after a disconnect with the command mutex.
Close ==
  /\ pc[Owner] \in {"close", "closeFailed"} /\ cmd = None
  /\ transport' = [c \in Chan |-> "none"]
  /\ net' = [c \in Chan |-> <<>>] /\ todo' = [c \in Chan |-> <<>>]
  /\ buffered' = <<>>
  /\ Goto(Owner, "idle")
  /\ UNCHANGED <<ownerKeeps, running, workers, wpc, hand, events, rawVars, pollVars, controlVars,
                 due, cmd, seen>>
-----------------------------------------------------------------------------
Begins(t) == \/ "receive" \in load.operations /\ Receive(t)
             \/ "receiveRaw" \in load.operations /\ ReceiveRaw(t)
             \/ "send" \in load.operations /\ Send(t)
             \/ "sendRaw" \in load.operations /\ SendRaw(t)
             \/ "clear" \in load.operations /\ Clear(t)

InCall(t) == \/ SendLock(t) \/ SendWrite(t) \/ CallFails(t)
             \/ RawLock(t) \/ RawWrite(t) \/ RawUnsend(t)
             \/ ControlLock(t) \/ ControlBegin(t) \/ ControlWrite(t) \/ ControlUnset(t)
             \/ ControlReturns(t) \/ ControlTimeout(t)

InOwnerCall == OpenReads \/ OpenFails \/ Spawn \/ SpawnSend \/ Join \/ Close

Server == \E c \in Chan : ServerEvent(c) \/ ServerReplies(c) \/ ConnectionLost(c)

Next == \/ Server \/ Expire
        \/ \E c \in Chan : Worker(c)
        \/ Connect \/ Disconnect \/ InOwnerCall
        \/ \E t \in Threads : Begins(t) \/ InCall(t)

Spec == Init /\ [][Next]_vars

\* Every thread keeps running and time passes; nothing is assumed of the
\* server, nor that the application begins a call.
Fairness == /\ WF_vars(Expire)
            /\ WF_vars(InOwnerCall)
            /\ \A c \in Chan : WF_vars(Worker(c))
            /\ \A t \in Threads : WF_vars(InCall(t))

FairSpec == Spec /\ Fairness
-----------------------------------------------------------------------------
\* The type invariant.
Places == {"idle", "sendLock", "sendWrite", "fail", "rawLock", "rawWrite", "rawUnsend", "ctlLock",
           "ctlCmd", "ctlWrite", "ctlUnset", "ctlWait", "opening", "spawn", "spawn2", "join",
           "close", "joinFailed", "closeFailed"}
WorkerPlaces == {"top", "poll", "frame", "dispatch", "call", "callback", "fail", "done"}
RequestSet == [ch : Chan, code : Codes \cup {"CONFIRM", "OPEN"},
             by : {"event", "raw", "control", "poll", "open"}, n : Nat]
FrameSet == {f \in [kind : {"event", "reply"}, code : Codes \cup {"CONFIRM", "OPEN", "NONE"},
                  by : {"event", "raw", "control", "poll", "open", "none"}, n : Nat, ev : Nat,
                  ok : {"ok", "error", "bad", "empty", "event"}] :
             f.kind = "event" \/ f.ok = "event" => EventIn(f) > 0}

FlagsOK == /\ active \in BOOLEAN /\ running \in BOOLEAN /\ rawActive \in BOOLEAN
           /\ pollPending \in BOOLEAN /\ sawEvent \in BOOLEAN
NetOK == /\ transport \in [Chan -> {"none", "up", "lost"}]
         /\ net \in [Chan -> Seq(FrameSet)] /\ todo \in [Chan -> Seq(RequestSet)]
         /\ sent \in [Chan -> Nat] /\ bad \in Nat
WorkersOK == /\ workers \subseteq Chan /\ wpc \in [Chan -> WorkerPlaces]
             /\ hand \in [Chan -> FrameSet \cup {NoFrame}] /\ buffered \in Seq(FrameSet)
QueuesOK == /\ events \in Seq([ch : Chan, n : Nat]) /\ frames \in Seq(FrameSet)
            /\ rawPending \in [Keys -> Nat] /\ due \subseteq Keys \cup {Poll}
ControlOK == /\ issued \in Nat /\ asked \in 0 .. issued /\ answer \in Nat /\ polls \in Nat
             /\ control \in {"none", "pending", "complete"}
LocksOK == {cmd, ctl} \subseteq Threads \cup {None} /\ cb \in Chan \cup {None}
ThreadsOK == /\ pc \in [Threads -> Places] /\ arg \in [Threads -> [ch : Chan, code : Codes]]
             /\ calls \in [Threads -> Nat]
HistoryOK == seen \in [Chan -> Nat] /\ last \in [Chan -> Nat] /\ barrier \in Nat

TypeOK == /\ mode \in Modes /\ load \in Workloads
          /\ FlagsOK /\ NetOK /\ WorkersOK /\ QueuesOK /\ ControlOK /\ LocksOK /\ ThreadsOK
          /\ HistoryOK

\* The replies still to come on a channel: the one in the worker's hand, those
\* on their way, those the server owes.
Answers(m, code, by) == m.code = code /\ m.by = by
Number(q, code, by) == Cardinality({i \in DOMAIN q : Answers(q[i], code, by)})
InHand(c, code, by) == wpc[c] = "frame" /\ Answers(hand[c], code, by)
Coming(c, code, by) == Number(net[c], code, by) + Number(todo[c], code, by)
                         + (IF InHand(c, code, by) THEN 1 ELSE 0)

\* The replies to control requests that come are replies to request n.
ForRequest(c, n) ==
  /\ InHand(c, "CLEAR", "control") => hand[c].n = n
  /\ \A q \in {net[c], todo[c]} : \A i \in DOMAIN q :
       Answers(q[i], "CLEAR", "control") => q[i].n = n

\* A control command has timed out and is about to stop the client.
Stopping == \E t \in Threads : pc[t] = "fail"

\* While the client runs, whatever reply is still to come belongs to a
\* request that waits for it, so that processBinaryFrame can go by channel
\* and code alone: a late reply never meets another request.  The reply
\* binaryCommand returns with is the reply to its own request, also after
\* time-outs, reconnections and raw requests of other threads.
RepliesAreExpected ==
  /\ running /\ ~Stopping =>
       \A c \in Channels :
         /\ Coming(c, "CLEAR", "control") > 0 =>
              /\ control = "pending"
              /\ Coming(c, "CLEAR", "raw") = 0
              /\ ForRequest(c, asked)
         /\ Coming(c, "RETR", "poll") > 0 =>
              pollPending /\ (Polling => Coming(c, "RETR", "raw") = 0)
         /\ \A code \in Codes :
              Tracked(code) => Coming(c, code, "raw") <= rawPending[<<c, code>>]
  /\ control = "complete" => answer = asked

\* Once a clear() has succeeded, no event that the server sent before its
\* acknowledgement on that connection is in the local queue.
ClearIsFinal == \A i \in DOMAIN events :
  events[i].ch = Normal("receive") => events[i].n > barrier

\* When disconnect has joined the workers, no callback runs, no event can
\* be received and no raw request waits, whatever the other threads did
\* meanwhile; when it or a connect that failed has returned, no connection
\* is open.
DisconnectIsComplete ==
  /\ pc[Owner] = "close" => /\ events = <<>>
                            /\ \A k \in Keys : rawPending[k] = 0
  /\ workers = {} /\ pc[Owner] = "idle" => /\ \A c \in Chan : wpc[c] = "done"
                                           /\ \A c \in Chan : transport[c] = "none"

\* A clear() that succeeds is about to discard, or the connection has ended.
Excused == \/ ~running
           \/ \E c \in Chan : /\ wpc[c] = "frame" /\ hand[c].kind = "reply"
                              /\ IsControlReply(c, hand[c])

EventsOf(c) == {events[i].n : i \in {j \in DOMAIN events : events[j].ch = c}}
Bring(q) == {EventIn(q[i]) : i \in DOMAIN q} \ {0}

PipeOf(c) == EventsOf(c) \cup ({EventIn(hand[c])} \ {0})
               \cup (IF c = Normal("receive") THEN Bring(buffered) ELSE {})

SendPipe == INSTANCE EventPipe WITH seen <- seen["send"], last <- last["send"],
                                    pipe <- PipeOf("send"), excused <- Excused
ReceivePipe == INSTANCE EventPipe WITH seen <- seen["receive"], last <- last["receive"],
                                       pipe <- PipeOf("receive"), excused <- Excused

\* On each connection the events that are read are handed over once, in
\* order, and none is lost without an excuse; those before the reply to OPEN
\* and those in the replies to polls are among them.
ImplementsPipe == SendPipe!Spec /\ ReceivePipe!Spec

\* Every call returns, also when the server answers nothing, callbacks call
\* the client and the connection is lost.
CallsReturn == \A t \in Threads : pc[t] # "idle" ~> pc[t] = "idle"

\* A lost connection stops the client, whichever of the two it is.
LossNoticed == \A c \in Chan :
  (running /\ transport[c] = "lost") ~> (~running \/ transport[c] = "up")

\* A raw request that waits is answered, or the client stops: the queue of
\* waiting requests never blocks clear() or the polls for ever.
RawRequestsEnd == \A k \in Keys : rawPending[k] > 0 ~> (rawPending[k] = 0 \/ ~running)
-----------------------------------------------------------------------------
(***************************************************************************)
(* The inductive invariant behind DisconnectIsComplete and ClearIsFinal.   *)
(***************************************************************************)
\* When there are workers, when the client runs, and what disconnect has
\* emptied stays empty until the next connect
LifeInv ==
  /\ \A c \in Chan : c \notin workers => wpc[c] = "done"
  /\ running => workers # {} /\ pc[Owner] \notin {"opening", "spawn", "join", "close", "joinFailed",
                                                 "closeFailed"}
  /\ pc[Owner] \in {"opening", "spawn", "close", "closeFailed"} => workers = {}
  /\ workers = {} => pc[Owner] \in {"idle", "opening", "spawn", "join", "close", "closeFailed"}
  /\ workers = {} /\ pc[Owner] \in {"idle", "join"} => \A c \in Chan : transport[c] = "none"
  /\ pc[Owner] \in {"join", "close"} => events = <<>> /\ \A k \in Keys : rawPending[k] = 0

\* An event in g came later than f: than the event f brings, or than the
\* events the server had sent when it answered with f.
Before(f, g) == EventIn(g) > 0 => f.ev < g.ev

\* What is on its way, kept or held is in the order in which it was sent.
OrderInv ==
  /\ \A c \in Chan :
       /\ hand[c].ev <= sent[c]
       /\ \A i \in 1 .. Len(net[c]) :
            /\ net[c][i].ev <= sent[c]
            /\ Before(hand[c], net[c][i])
            /\ \A j \in 1 .. i - 1 : Before(net[c][j], net[c][i])
  /\ \A i \in 1 .. Len(buffered) :
       /\ buffered[i].ev <= sent[Normal("receive")]
       /\ Before(hand[Normal("receive")], buffered[i])
       /\ \A j \in 1 .. i - 1 : Before(buffered[j], buffered[i])
       /\ \A j \in 1 .. Len(net[Normal("receive")]) : Before(buffered[i], net[Normal("receive")][j])

\* Every event that can still come is newer than the last clear.
After(f) == EventIn(f) > 0 => f.ev > barrier
FreshInv ==
  /\ barrier <= sent[Normal("receive")]
  /\ After(hand[Normal("receive")])
  /\ \A i \in 1 .. Len(net[Normal("receive")]) : After(net[Normal("receive")][i])
  /\ \A i \in 1 .. Len(buffered) : After(buffered[i])

\* Only a frame with an event is dispatched.
DispatchInv == \A c \in Chan : wpc[c] = "dispatch" => EventIn(hand[c]) > 0

IInv == TypeOK /\ LifeInv /\ OrderInv /\ FreshInv /\ DispatchInv /\ ClearIsFinal
-----------------------------------------------------------------------------
(***************************************************************************)
(* What RepliesAreExpected needs beyond it.                                *)
(***************************************************************************)
\* Requests that are waited for, and what makes one a proper message of c
Asks(m) == m.by \in {"raw", "control", "poll"}
Proper(c, m) == /\ m.code = "CLEAR" => m.by \in {"raw", "control"}
                /\ m.code = "RETR" => m.by \in {"raw", "poll"}
                /\ m.by = "control" => c = Normal("receive") /\ m.code = "CLEAR"
                /\ m.by = "poll" => c = "send" /\ m.code = "RETR" /\ Polling

\* What is on its way is proper, and nobody has asked for what came early.
KindInv ==
  /\ \A c \in Chan : /\ Proper(c, hand[c])
                     /\ \A i \in 1 .. Len(net[c]) : Proper(c, net[c][i])
                     /\ \A i \in 1 .. Len(todo[c]) : Proper(c, todo[c][i])
  /\ \A i \in 1 .. Len(buffered) :
       Proper(Normal("receive"), buffered[i]) /\ ~Asks(buffered[i])
  /\ pc[Owner] \in {"opening", "spawn"} =>
       \A c \in Chan : /\ \A i \in 1 .. Len(net[c]) : ~Asks(net[c][i])
                       /\ \A i \in 1 .. Len(todo[c]) : ~Asks(todo[c][i])
  /\ workers \subseteq Channels /\ (pc[Owner] = "spawn2" => mode = "two")

\* Who holds the command mutex, and the control mutex; nobody writes while
\* there is no connection.
CmdPlaces == {"sendWrite", "rawWrite", "rawUnsend", "ctlWrite"}
CtlPlaces == {"ctlCmd", "ctlWrite", "ctlUnset", "ctlWait"}
MutexInv ==
  /\ \A t \in Threads : /\ cmd = t <=> pc[t] \in CmdPlaces
                        /\ pc[t] \in CtlPlaces => ctl = t
                        /\ ctl = t => pc[t] \in CtlPlaces \cup {"fail"}
  /\ workers = {} /\ pc[Owner] \in {"idle", "opening", "spawn"} => cmd = None
  /\ control # "none" => ctl # None /\ pc[ctl] \in {"ctlWrite", "ctlUnset", "ctlWait"}

\* A raw request is about to be written; a control request has timed out, or
\* is about to be written.
Writing(c, code) == /\ cmd # None /\ pc[cmd] \in {"rawWrite", "rawUnsend"}
                    /\ Key(arg[cmd]) = <<c, code>>
TimedOut == ctl # None /\ pc[ctl] = "fail"
Asking == ctl # None /\ pc[ctl] = "ctlWrite"

\* Every reply to a control request that comes is to the one that waits.
ControlInv ==
  LET R == Normal("receive")
  IN /\ Coming(R, "CLEAR", "control") > 0 => ~running \/ control = "pending" \/ TimedOut
     /\ control = "pending" => /\ Coming(R, "CLEAR", "raw") = 0 /\ ~Writing(R, "CLEAR")
                               /\ Coming(R, "CLEAR", "control") <= 1
                               /\ Asking => Coming(R, "CLEAR", "control") = 0
                               /\ ForRequest(R, asked)
     /\ control = "complete" => answer = asked /\ Coming(R, "CLEAR", "control") = 0
     /\ Asking => control = "pending"

\* Every raw request whose reply comes is counted, and the one being written.
RawInv ==
  running => \A c \in Chan, code \in Codes :
    \/ ~Tracked(code)
    \/ code = "CLEAR" /\ TimedOut
    \/ Coming(c, code, "raw") + (IF Writing(c, code) THEN 1 ELSE 0) <= rawPending[<<c, code>>]

\* There is one poll at a time, and while it waits no raw request of its kind.
PollInv ==
  /\ \A c \in Chan : wpc[c] = "poll" => c = "send"
  /\ pollPending => Polling /\ Coming("send", "RETR", "raw") = 0 /\ ~Writing("send", "RETR")
  /\ Coming("send", "RETR", "poll") + (IF wpc["send"] = "poll" THEN 1 ELSE 0) <= 1
  /\ Coming("send", "RETR", "poll") > 0 \/ wpc["send"] = "poll" => pollPending

ReplyInv == KindInv /\ MutexInv /\ ControlInv /\ RawInv /\ PollInv
-----------------------------------------------------------------------------
(***************************************************************************)
(* What ImplementsPipe needs beyond both: on its way from the connection   *)
(* to the application an event overtakes no other of its connection.       *)
(***************************************************************************)
\* An event in f has come after the last one handed over; it is counted as seen.
Between(c, f) == EventIn(f) > 0 => last[c] < f.ev /\ f.ev <= seen[c]

HandOrder == \A c \in Chan :
  /\ last[c] <= seen[c] /\ seen[c] <= sent[c]
  /\ Between(c, hand[c])
  /\ EventIn(hand[c]) > 0 => wpc[c] \in HoldsFrame
  /\ wpc[c] = "call" => EventIn(hand[c]) > 0 /\ hand[c].ev \in Wanted /\ active
  /\ \A i \in 1 .. Len(net[c]) : EventIn(net[c][i]) > 0 => seen[c] < net[c][i].ev

EventsOrder == \A i \in 1 .. Len(events) :
  LET c == events[i].ch
      n == events[i].n
  IN /\ n \in Wanted /\ last[c] < n /\ n <= seen[c]
     /\ EventIn(hand[c]) > 0 => n < hand[c].ev
     /\ c = Normal("receive") =>
          \A j \in 1 .. Len(buffered) : EventIn(buffered[j]) > 0 => n < buffered[j].ev
     /\ \A j \in 1 .. Len(events) : i < j /\ events[j].ch = c => n < events[j].n

PipeInv == /\ HandOrder /\ EventsOrder
           /\ \A i \in 1 .. Len(buffered) : Between(Normal("receive"), buffered[i])
           /\ active => events = <<>>

\* Between the start of the two workers there is only the first.
SpawnInv == pc[Owner] = "spawn2" => workers = {Normal("receive")}
=============================================================================

--------------------------- MODULE SingleChannel ---------------------------
(***************************************************************************)
(* vscpClientTcp in single-channel text mode, on the VscpRemoteTcpIf of    *)
(* SingleChannelIf.                                                        *)
(*                                                                         *)
(* Threads: the application's Callers, of which Owner also connects and    *)
(* disconnects; the receive worker W, whose callbacks call the client and  *)
(* which therefore has a pc like the callers; the interface's reader.      *)
(*                                                                         *)
(* dispatch is the m_singleChannelDispatchMutex that the worker holds      *)
(* while it moves an event from the interface's queue to the client's; a   *)
(* clear sets pause so that the worker lets go of it.  The wait on         *)
(* m_singleChannelDispatchCondition is the one without time limit.  The    *)
(* client's m_singleChannelMutex is held inside one step each.             *)
(***************************************************************************)
EXTENDS SingleChannelIf

CONSTANTS Owner,      \* the thread that connects and disconnects
          Wanted,     \* the events m_filterIn accepts
          MaxCalls    \* bound of the model: calls each thread makes

ASSUME SingleChannelAssumption == /\ Owner \in Callers
                                  /\ W \notin Callers
                                  /\ None \notin Threads
                                  /\ MaxCalls \in [Threads -> Nat]
                                  /\ MaxEvents \in Nat
                                  /\ MaxBad \in Nat

VARIABLES
  dispatch,   \* the holder of m_singleChannelDispatchMutex
  pause,      \* m_singleChannelPauseRequested
  running,    \* m_singleChannelRunning
  worker,     \* m_singleChannelWorkerThread.joinable()
  wpc,        \* where the worker is in singleChannelWorker
  hand,       \* the event it holds, or 0
  events,     \* m_singleChannelEvents
  active,     \* a callback is active
  calls,      \* how many calls each thread has made
  last,       \* history: the last event handed to the application
  barrier     \* history: acked, at the last clear that succeeded

dispatchVars == <<dispatch, pause>>
workerVars == <<wpc, hand>>
clientVars == <<running, worker, events>>
historyVars == <<last, barrier>>
upperVars == <<dispatchVars, workerVars, clientVars, historyVars, calls, active>>
vars == <<ifVars, pc, upperVars>>

Init == /\ IfInit
        /\ dispatch = None /\ pause = FALSE
        /\ running = FALSE /\ worker = FALSE /\ wpc = "none" /\ hand = 0
        /\ events = <<>>
        /\ active \in BOOLEAN
        /\ calls = [t \in Threads |-> 0]
        /\ last = 0 /\ barrier = 0
-----------------------------------------------------------------------------
\* A thread begins a call.  Nobody else uses the client while it connects,
\* except a callback.
Call(t, l) == /\ pc[t] = "idle"
              /\ calls[t] < MaxCalls[t]
              /\ IF t = W THEN wpc = "callback" ELSE pc[Owner] \notin {"open", "spawn"}
              /\ calls' = [calls EXCEPT ![t] = @ + 1]
              /\ Goto(t, l)
              /\ UNCHANGED <<ifVars, active>>

Send(t) == /\ Call(t, "sendLock")
           /\ UNCHANGED <<dispatchVars, workerVars, clientVars, historyVars>>

SendLock(t) ==
  /\ pc[t] = "sendLock"
  /\ cmd = None
  /\ IF running THEN LockCommand(t, "send") /\ Goto(t, "begin")
                ELSE UNCHANGED lockVars /\ Goto(t, "idle")
  /\ UNCHANGED <<serverVars, readerVars, commandVars, stateVars, upperVars>>

SendReturns(t) ==
  /\ pc[t] = "ret" /\ op = "send"
  /\ UnlockCommand
  /\ Goto(t, "idle")
  /\ UNCHANGED <<serverVars, readerVars, pending, complete, response, stateVars, upperVars>>

Clear(t) == /\ Call(t, "clearLock")
            /\ UNCHANGED <<dispatchVars, workerVars, clientVars, historyVars>>

\* The constructor of SingleChannelPause does not take the dispatch mutex.
ClearLock(t) ==
  /\ pc[t] = "clearLock"
  /\ cmd = None
  /\ IF running THEN LockCommand(t, "clear") /\ pause' = TRUE /\ Goto(t, "clearDispatch")
                ELSE UNCHANGED <<lockVars, pause>> /\ Goto(t, "idle")
  /\ UNCHANGED <<serverVars, readerVars, commandVars, stateVars, dispatch, workerVars, clientVars,
                 historyVars, calls, active>>

\* mutant: the worker may be moving an event meanwhile
ClearDispatchUnlocked(t) ==
  /\ pc[t] = "clearDispatch"
  /\ Goto(t, IF running THEN "begin" ELSE "clearPause")
  /\ UNCHANGED <<ifVars, upperVars>>

ClearDispatch(t) ==
  /\ pc[t] = "clearDispatch"
  /\ dispatch = None
  /\ IF running THEN dispatch' = t /\ Goto(t, "begin")
                ELSE UNCHANGED dispatch /\ Goto(t, "clearPause")
  /\ UNCHANGED <<ifVars, pause, workerVars, clientVars, historyVars, calls, active>>

\* doCmdClear, after the command
ClearReturns(t) ==
  /\ pc[t] = "ret" /\ op = "clear"
  /\ eventQueue' = IF ret /\ loop THEN <<>> ELSE eventQueue
  /\ Goto(t, IF ret THEN "clearEvents" ELSE "clearUnlock")
  /\ UNCHANGED <<serverVars, readerVars, commandVars, transport, loop, joinable, stop, failed,
                 lockVars, upperVars>>

ClearEvents(t) ==
  /\ pc[t] = "clearEvents"
  /\ events' = <<>>
  /\ barrier' = acked
  /\ Goto(t, "clearUnlock")
  /\ UNCHANGED <<ifVars, dispatchVars, workerVars, running, worker, last, calls, active>>

ClearUnlock(t) ==
  /\ pc[t] = "clearUnlock"
  /\ dispatch' = None
  /\ Goto(t, "clearPause")
  /\ UNCHANGED <<ifVars, pause, workerVars, clientVars, historyVars, calls, active>>

\* m_singleChannelDispatchCondition.notify_all
NotifyWorker == wpc' = IF wpc = "blocked" THEN "woken" ELSE wpc

Unpause(t) ==
  /\ pc[t] = "clearPause"
  /\ pause' = FALSE
  /\ NotifyWorker
  /\ UnlockCommand
  /\ Goto(t, "idle")
  /\ UNCHANGED <<serverVars, readerVars, pending, complete, response, stateVars, dispatch, hand,
                 clientVars, historyVars, calls, active>>

\* mutant: the flag is reset without the mutex
ClearUnpauseUnlocked(t) == Unpause(t)

\* The destructor of SingleChannelPause takes it, and notifies.
ClearUnpause(t) == dispatch = None /\ Unpause(t)

\* receiveSingleChannel, without and with a time limit
Pop == events' = Tail(events) /\ last' = Head(events)

Receive(t) ==
  /\ ~active /\ events # <<>>
  /\ Pop
  /\ Call(t, "idle")
  /\ UNCHANGED <<dispatchVars, workerVars, running, worker, barrier>>

ReceiveBlocking(t) ==
  /\ ~active /\ events = <<>> /\ running
  /\ Call(t, "receiving")
  /\ UNCHANGED <<dispatchVars, workerVars, clientVars, historyVars>>

\* mutant: the event is left in the queue
ReceiveReturnsCopy(t) ==
  /\ pc[t] = "receiving"
  /\ last' = IF events # <<>> THEN Head(events) ELSE last
  /\ Goto(t, "idle")
  /\ UNCHANGED <<ifVars, dispatchVars, workerVars, clientVars, barrier, calls, active>>

\* An event, the end of the connection or the time limit ends the wait.
ReceiveReturns(t) ==
  /\ pc[t] = "receiving"
  /\ IF events # <<>> THEN Pop ELSE UNCHANGED <<events, last>>
  /\ Goto(t, "idle")
  /\ UNCHANGED <<ifVars, dispatchVars, workerVars, running, worker, barrier, calls, active>>
-----------------------------------------------------------------------------
(* connect and disconnect, calls of the Owner.  A call that is refused      *)
(* changes nothing and is left out: connect when the client is connected,   *)
(* disconnect from a callback.                                              *)

Connect ==
  /\ ~running /\ ~worker /\ transport # "up" /\ ~loop /\ ~joinable
  /\ Call(Owner, "open")
  /\ UNCHANGED <<dispatchVars, workerVars, clientVars, historyVars>>

ConnectSpawns ==
  /\ pc[Owner] = "spawn"
  /\ events' = <<>> /\ running' = TRUE /\ worker' = TRUE
  /\ wpc' = "top"
  /\ Goto(Owner, "idle")
  /\ UNCHANGED <<ifVars, dispatchVars, hand, historyVars, calls, active>>

\* std::thread throws; the connection is closed.
ConnectSpawnFails ==
  /\ pc[Owner] = "spawn"
  /\ events' = <<>> /\ running' = FALSE
  /\ Goto(Owner, "closeLock")
  /\ UNCHANGED <<ifVars, dispatchVars, worker, workerVars, historyVars, calls, active>>

Disconnect ==
  /\ running' = FALSE
  /\ events' = <<>>
  /\ Call(Owner, "discDispatch")
  /\ UNCHANGED <<dispatchVars, worker, workerVars, historyVars>>

\* The worker is notified with the dispatch mutex held.
DisconnectDispatch ==
  /\ pc[Owner] = "discDispatch"
  /\ dispatch = None
  /\ NotifyWorker
  /\ Goto(Owner, "discJoin")
  /\ UNCHANGED <<ifVars, dispatchVars, hand, clientVars, historyVars, calls, active>>

\* mutant: a worker in a callback is not waited for
DisconnectJoinDetaches ==
  /\ pc[Owner] = "discJoin"
  /\ worker => wpc \in {"done", "callback"}
  /\ worker' = FALSE
  /\ Goto(Owner, "closeLock")
  /\ UNCHANGED <<ifVars, dispatchVars, workerVars, running, events, historyVars, calls, active>>

DisconnectJoin ==
  /\ pc[Owner] = "discJoin"
  /\ worker => wpc = "done"
  /\ worker' = FALSE
  /\ Goto(Owner, "closeLock")
  /\ UNCHANGED <<ifVars, dispatchVars, workerVars, running, events, historyVars, calls, active>>
-----------------------------------------------------------------------------
(* singleChannelWorker.                                                     *)

workerKeeps == <<serverVars, readerVars, commandVars, transport, loop, joinable, stop, failed,
                 lockVars, pc, pause, worker, calls, active, barrier>>

WorkerTop ==
  /\ wpc = "top"
  /\ IF running THEN dispatch = None /\ dispatch' = W /\ wpc' = "eval"
                ELSE wpc' = "done" /\ UNCHANGED dispatch
  /\ UNCHANGED <<workerKeeps, hand, running, events, eventQueue, last>>

\* mutant: the pause request is not looked at
WorkerEvalNoPause ==
  /\ wpc = "eval"
  /\ wpc' = IF ~running THEN "done" ELSE "recv"
  /\ dispatch' = IF ~running THEN None ELSE W
  /\ UNCHANGED <<workerKeeps, hand, running, events, eventQueue, last>>

\* The condition of the wait on m_singleChannelDispatchCondition.
WorkerEval ==
  /\ wpc = "eval"
  /\ wpc' = IF ~running THEN "done" ELSE IF pause THEN "block" ELSE "recv"
  /\ dispatch' = IF ~running THEN None ELSE W
  /\ UNCHANGED <<workerKeeps, hand, running, events, eventQueue, last>>

WorkerBlock ==
  /\ wpc = "block"
  /\ wpc' = "blocked"
  /\ dispatch' = None
  /\ UNCHANGED <<workerKeeps, hand, running, events, eventQueue, last>>

WorkerWoken ==
  /\ wpc = "woken"
  /\ dispatch = None
  /\ wpc' = "eval"
  /\ dispatch' = W
  /\ UNCHANGED <<workerKeeps, hand, running, events, eventQueue, last>>

\* doCmdBlockingReceive, up to its wait
WorkerReceive ==
  /\ wpc = "recv"
  /\ wpc' = IF transport = "up" /\ loop THEN "waiting" ELSE "error"
  /\ UNCHANGED <<workerKeeps, dispatch, hand, running, events, eventQueue, last>>

\* An event whose line cannot be converted is an error of the receive.
WorkerTakes ==
  /\ wpc = "waiting"
  /\ eventQueue # <<>>
  /\ hand' = Head(eventQueue)
  /\ eventQueue' = Tail(eventQueue)
  /\ wpc' \in {"got", "error"}
  /\ UNCHANGED <<workerKeeps, dispatch, running, events, last>>

WorkerTimeout ==
  /\ wpc = "waiting"
  /\ eventQueue = <<>> /\ ~failed /\ ~stop /\ loop
  /\ wpc' = "top"
  /\ dispatch' = None
  /\ UNCHANGED <<workerKeeps, hand, running, events, eventQueue, last>>

WorkerReceiveFails ==
  /\ wpc = "waiting"
  /\ eventQueue = <<>> /\ (failed \/ stop \/ ~loop)
  /\ wpc' = "error"
  /\ UNCHANGED <<workerKeeps, dispatch, hand, running, events, eventQueue, last>>

\* m_singleChannelRunning is read here, and the event dispatched later.
WorkerChecks ==
  /\ wpc \in {"got", "error"}
  /\ IF running
     THEN /\ wpc' = IF wpc = "got" THEN "push" ELSE "fail"
          /\ dispatch' = IF wpc = "got" THEN W ELSE None
          /\ UNCHANGED hand
     ELSE wpc' = "done" /\ dispatch' = None /\ hand' = 0
  /\ UNCHANGED <<workerKeeps, running, events, eventQueue, last>>

WorkerRejects ==
  /\ wpc = "push" /\ hand \notin Wanted
  /\ hand' = 0
  /\ wpc' = "top"
  /\ dispatch' = None
  /\ UNCHANGED <<workerKeeps, running, events, eventQueue, last>>

WorkerQueues ==
  /\ wpc = "push" /\ hand \in Wanted /\ ~active
  /\ events' = Append(events, hand)
  /\ hand' = 0
  /\ wpc' = "top"
  /\ dispatch' = None
  /\ UNCHANGED <<workerKeeps, running, eventQueue, last>>

\* An active callback is called without the mutex ("call"); an event that
\* vscp_convertEventToEventEx cannot convert is an error.
WorkerUnlocks ==
  /\ wpc = "push" /\ hand \in Wanted
  /\ wpc' = IF active THEN "call" ELSE "fail"
  /\ dispatch' = None
  /\ UNCHANGED <<workerKeeps, hand, running, events, eventQueue, last>>

WorkerCalls ==
  /\ wpc = "call"
  /\ IF running THEN wpc' = "callback" /\ last' = hand
                ELSE wpc' = "top" /\ UNCHANGED last
  /\ hand' = 0
  /\ UNCHANGED <<workerKeeps, dispatch, running, events, eventQueue>>

\* A callback returns or throws.
CallbackReturns ==
  /\ wpc = "callback" /\ pc[W] = "idle"
  /\ wpc' \in {"top", "fail"}
  /\ UNCHANGED <<workerKeeps, dispatch, hand, running, events, eventQueue, last>>

\* mutant: the receivers are not told
WorkerFailsSilently ==
  /\ wpc = "fail"
  /\ hand' = 0
  /\ wpc' = "done"
  /\ UNCHANGED <<workerKeeps, running, dispatch, events, eventQueue, last>>

\* failSingleChannelWorker
WorkerFails ==
  /\ wpc = "fail"
  /\ running' = FALSE
  /\ hand' = 0
  /\ wpc' = "done"
  /\ UNCHANGED <<workerKeeps, dispatch, events, eventQueue, last>>

Worker == \/ WorkerTop \/ WorkerEval \/ WorkerBlock \/ WorkerWoken
          \/ WorkerReceive \/ WorkerTakes \/ WorkerTimeout \/ WorkerReceiveFails
          \/ WorkerChecks \/ WorkerRejects \/ WorkerQueues \/ WorkerUnlocks
          \/ WorkerCalls \/ CallbackReturns \/ WorkerFails
-----------------------------------------------------------------------------
\* A step of the interface leaves the client's own state alone.
IfStep(A) == A /\ UNCHANGED upperVars

Begins(t) == Send(t) \/ Clear(t) \/ Receive(t) \/ ReceiveBlocking(t)

\* The step a thread takes in a call it has begun.
InCall(t) == \/ IfStep(Command(t))
             \/ SendLock(t) \/ SendReturns(t)
             \/ ClearLock(t) \/ ClearDispatch(t) \/ ClearReturns(t) \/ ClearEvents(t)
             \/ ClearUnlock(t) \/ ClearUnpause(t)
             \/ ReceiveReturns(t)

InOwnerCall == \/ IfStep(OpenClose(Owner))
               \/ ConnectSpawns \/ ConnectSpawnFails
               \/ DisconnectDispatch \/ DisconnectJoin

Next == \/ IfStep(Server) \/ IfStep(Reader) \/ Worker
        \/ Connect \/ Disconnect \/ InOwnerCall
        \/ \E t \in Threads : Begins(t) \/ InCall(t)

Spec == Init /\ [][Next]_vars

\* Every thread keeps running and every timed wait ends; nothing is assumed
\* of the server, nor that the application begins a call.
Fairness == /\ WF_vars(IfStep(Reader))
            /\ WF_vars(Worker)
            /\ WF_vars(InOwnerCall)
            /\ \A t \in Threads : WF_vars(InCall(t))

FairSpec == Spec /\ Fairness
-----------------------------------------------------------------------------
\* The type invariant.
Places == {"idle", "sendLock", "begin", "write", "wait", "writeJoin", "timeoutJoin", "ret",
           "clearLock", "clearDispatch", "clearEvents", "clearUnlock", "clearPause", "receiving",
           "open", "spawn", "discDispatch", "discJoin", "closeLock", "closeStop", "closeJoin"}
WorkerPlaces == {"none", "top", "eval", "block", "blocked", "woken", "recv", "waiting", "got",
                 "error", "push", "call", "callback", "fail", "done"}

FlagsOK == /\ pause \in BOOLEAN /\ running \in BOOLEAN /\ worker \in BOOLEAN /\ active \in BOOLEAN
           /\ peer \in BOOLEAN /\ loop \in BOOLEAN /\ joinable \in BOOLEAN /\ stop \in BOOLEAN
           /\ failed \in BOOLEAN /\ pending \in BOOLEAN /\ ret \in BOOLEAN

TypeOK == /\ FlagsOK /\ IfTypeOK
          /\ pc \in [Threads -> Places]
          /\ dispatch \in Threads \cup {None}
          /\ wpc \in WorkerPlaces
          /\ hand \in 0 .. sent /\ last \in 0 .. sent /\ barrier \in 0 .. sent
          /\ events \in Seq(1 .. sent)
          /\ calls \in [Threads -> Nat] /\ \A t \in Threads : calls[t] <= MaxCalls[t]

\* The reply that completes a command (processSingleChannelLine) is the
\* server's reply to that command, never a late one to an earlier command:
\* the reason why doSingleChannelCommand closes the connection on a time-out.
ReplyIsOwn == response # 0 => /\ response = issued
                              /\ \A t \in Threads : pc[t] # "write"

\* stopSingleChannelReader joins the reader without a mutex of its own; no
\* two threads do so at once, whatever mix of time-outs, failed writes and
\* disconnects.
ReaderJoinedOnce == \A t, u \in Threads :
  {pc[t], pc[u]} \subseteq {"writeJoin", "timeoutJoin", "closeStop", "closeJoin"} => t = u

\* After a clear() that succeeded, no event that came before the server's
\* acknowledgement is queued at either level, although the worker moves
\* events from one queue to the other on its own.
ClearIsFinal == \A q \in {events, eventQueue} : \A i \in DOMAIN q : q[i] > barrier

\* A worker blocked on m_singleChannelDispatchCondition, a wait without time
\* limit, is owed a notification: by the SingleChannelPause of a clear in
\* progress or by disconnect.
NoLostDispatchWakeup ==
  wpc = "blocked" => \/ op = "clear" /\ pause /\ cmd # None
                     \/ pc[Owner] = "discDispatch"

\* When disconnect has returned, nothing of the connection is left running:
\* no callback, no reader, no transport, and nothing to receive from it.
DisconnectIsComplete ==
  ~worker /\ pc[Owner] = "idle" => /\ wpc \in {"none", "done"}
                                   /\ ~joinable /\ rpc = "none"
                                   /\ transport = "none" /\ ~loop
                                   /\ eventQueue = <<>>

\* When disconnect has returned, receive() reports VSCP_ERROR_NOT_CONNECTED:
\* there is no event left in m_singleChannelEvents.
NothingAfterDisconnect == ~worker /\ pc[Owner] = "idle" => events = <<>>

\* A clear() that is about to discard, or the end of the connection.
Excused == \/ ~running
           \/ /\ op = "clear"
              /\ \E t \in Threads : (pc[t] = "ret" /\ ret) \/ pc[t] = "clearEvents"

Entries(q) == {q[i] : i \in DOMAIN q}

\* The events that have arrived and are not handed over yet
InTransit == Entries(events) \cup ({hand} \ {0}) \cup Entries(eventQueue)

Pipe == INSTANCE EventPipe WITH pipe <- InTransit, excused <- Excused

\* The two queues and the worker between them hand events over once, in
\* order, and lose none without an excuse.
ImplementsPipe == Pipe!Spec

\* Every call returns, also while the worker keeps the dispatch mutex busy,
\* callbacks call the client, and the server answers nothing.
CallsReturn == \A t \in Threads : pc[t] # "idle" ~> pc[t] = "idle"

\* An error of the reader, or a command's time-out, reaches the application:
\* the client stops running.
FailureNoticed == (failed /\ running) ~> ~running
-----------------------------------------------------------------------------
(***************************************************************************)
(* The inductive invariant behind the safety properties.                   *)
(***************************************************************************)
CommandPlaces == {"begin", "write", "wait", "writeJoin", "timeoutJoin", "ret"}
ClearPlaces == {"clearDispatch", "clearEvents", "clearUnlock", "clearPause"}
ClosePlaces == {"closeStop", "closeJoin"}
OwnerPlaces == {"open", "spawn", "discDispatch", "discJoin", "closeLock", "closeStop", "closeJoin"}

\* Who holds the command mutex between two steps, and for which call
LockInv ==
  /\ \A t \in Threads : pc[t] \in CommandPlaces \cup ClearPlaces \cup ClosePlaces <=> cmd = t
  /\ op = "none" <=> cmd = None
  /\ op = "close" => cmd = Owner
  /\ \A t \in Threads : /\ pc[t] \in ClearPlaces => op = "clear"
                        /\ pc[t] \in ClosePlaces => op = "close"
                        /\ pc[t] \in OwnerPlaces => t = Owner

\* Where the worker holds the dispatch mutex
WorkerHolds == {"eval", "block", "recv", "waiting", "got", "error", "push"}

\* Who holds the dispatch mutex, and what the worker may rely on while it does
DispatchInv ==
  /\ \A t \in Threads :
       dispatch = t <=> \/ op = "clear" /\ pc[t] \in CommandPlaces \cup {"clearEvents", "clearUnlock"}
                        \/ t = W /\ wpc \in WorkerHolds
  /\ pause <=> op = "clear"
  /\ pc[W] # "idle" => wpc = "callback"
  /\ wpc \in {"block", "blocked"} => pause

\* When the client runs, and when it has a worker
RunInv ==
  /\ running => /\ worker /\ op # "close"
                /\ pc[Owner] \notin {"open", "spawn", "discDispatch", "discJoin", "closeLock"}
  /\ ~worker => wpc \in {"none", "done"}
  /\ pc[Owner] \in {"open", "spawn"} => ~worker

\* When there is a reader, and why it leaves
ReaderInv ==
  /\ joinable <=> rpc # "none"
  /\ rpc # "line" => rline = NoLine
  /\ rpc \in {"exit", "done"} => failed \/ stop
  /\ joinable /\ ~stop => loop

\* Nothing of the connection is left.
Closed == /\ ~joinable /\ rpc = "none" /\ transport = "none" /\ ~loop /\ eventQueue = <<>>
          /\ ~peer /\ toServer = <<>> /\ fromServer = <<>>

\* Without a worker the Owner is connecting, closing, or has closed.
ClosedInv ==
  /\ ~worker => /\ pc[Owner] \in {"idle", "open", "sendLock", "clearLock", "receiving",
                                  "discDispatch", "discJoin"} => Closed /\ cmd = None
                /\ cmd = Owner => op = "close"
  /\ pc[Owner] = "closeJoin" => ~loop

\* When a command waits for a reply
PendingInv ==
  /\ pending => /\ ~failed /\ complete = "no"
                /\ cmd # None /\ pc[cmd] \in {"write", "wait", "writeJoin"}
                /\ stop => pc[cmd] = "writeJoin"
  /\ \A t \in Threads : pc[t] \in {"write", "wait"} \/ (pc[t] = "ret" /\ ret) => loop

\* The connection can be used for another command.
Live == transport = "up" /\ ~failed /\ ~stop /\ joinable

IsReply(l) == l.kind \in {"ok", "error"}

\* No reply can come, or just the one to the last command.
NoReplyComes == /\ toServer = <<>> /\ ~IsReply(rline)
                /\ \A i \in 1 .. Len(fromServer) : ~IsReply(fromServer[i])
OneReplyComes ==
  /\ Len(toServer) <= 1 /\ \A i \in 1 .. Len(toServer) : toServer[i] = issued
  /\ IsReply(rline) => /\ rline.n = issued /\ toServer = <<>>
                       /\ \A i \in 1 .. Len(fromServer) : ~IsReply(fromServer[i])
  /\ \A i \in 1 .. Len(fromServer) : IsReply(fromServer[i]) =>
       /\ fromServer[i].n = issued /\ toServer = <<>>
       /\ \A j \in 1 .. Len(fromServer) : IsReply(fromServer[j]) => j = i

\* A time-out or an error leaves replies on their way; there is no other
\* command before the connection is closed.
FlightInv ==
  /\ pending => OneReplyComes
  /\ \A t \in Threads : pc[t] = "write" => /\ pending => NoReplyComes
                                           /\ Live => pending
  /\ Live /\ ~pending => NoReplyComes

\* The events on their way are newer than those that have arrived.
OrderInv ==
  /\ acked <= seen /\ barrier <= seen
  /\ \A i \in 1 .. Len(fromServer) : fromServer[i].kind = "event" =>
       /\ fromServer[i].n \in seen + 1 .. sent
       /\ \A j \in 1 .. i - 1 : fromServer[j].kind = "event" => fromServer[j].n < fromServer[i].n
  /\ rline.kind = "event" =>
       /\ rline.n \in seen + 1 .. sent
       /\ \A i \in 1 .. Len(fromServer) : fromServer[i].kind = "event" => rline.n < fromServer[i].n

\* The events in the queues and the one the worker is about to queue are newer
\* than the acknowledgement of the last clear; those that arrive while a clear
\* goes from one queue to the other are newer than its own.
ClearInv ==
  /\ \A i \in 1 .. Len(events) : events[i] > barrier
  /\ \A i \in 1 .. Len(eventQueue) : eventQueue[i] > barrier
  /\ wpc \in {"got", "push"} => hand > barrier
  /\ \A t \in Threads : pc[t] = "clearEvents" =>
       \A i \in 1 .. Len(eventQueue) : eventQueue[i] > acked

\* Behind ImplementsPipe: the worker has an event in these places only, and
\* the events are handed over, queued, in its hand and in the interface's
\* queue in the order in which they came.
Increasing(q) == \A i, j \in 1 .. Len(q) : i < j => q[i] < q[j]
PipeInv ==
  /\ hand # 0 => wpc \in {"got", "error", "push", "call", "fail"}
  /\ wpc \in {"got", "push", "call"} => hand # 0
  /\ wpc = "call" => hand \in Wanted /\ active
  /\ active => events = <<>>
  /\ last <= seen /\ hand <= seen /\ (hand # 0 => last < hand)
  /\ Increasing(events) /\ Increasing(eventQueue)
  /\ \A i \in 1 .. Len(eventQueue) : last < eventQueue[i] /\ hand < eventQueue[i] /\ eventQueue[i] <= seen
  /\ \A i \in 1 .. Len(events) :
       /\ events[i] \in Wanted /\ last < events[i] /\ events[i] <= seen
       /\ hand # 0 => events[i] < hand
       /\ \A j \in 1 .. Len(eventQueue) : events[i] < eventQueue[j]

IInv == /\ TypeOK /\ LockInv /\ DispatchInv /\ RunInv /\ ReaderInv /\ ClosedInv
        /\ PendingInv /\ FlightInv /\ ReplyIsOwn /\ OrderInv /\ ClearInv
=============================================================================

-------------------------- MODULE SingleChannelIf --------------------------
(***************************************************************************)
(* VscpRemoteTcpIf in the single-channel receive loop: a reader thread     *)
(* tells the replies to commands from the events that arrive on the same   *)
(* connection.  The module describes the steps of the server, of the       *)
(* reader and of a command; SingleChannel composes them with the client    *)
(* that uses the interface.                                                *)
(*                                                                         *)
(* Both classes have a command mutex, and that of the interface is only    *)
(* taken by a thread that holds the client's (or while connect is alone):  *)
(* cmd stands for both.  m_singleChannelMutex is held inside one step      *)
(* each.  A wait with a time limit may always run out, so it needs no      *)
(* wake-up.  Error codes are not told apart.  Commands and events are      *)
(* numbered in the order in which they are written and sent.               *)
(***************************************************************************)
EXTENDS Naturals, Sequences

CONSTANTS Callers,    \* application threads
          W,          \* the receive worker of the client
          None,       \* no thread
          MaxEvents,  \* bound of the model: events the server sends
          MaxBad      \* bound of the model: invalid lines the server sends

Threads == Callers \cup {W}

VARIABLES
  transport,  \* m_transport: "none", "up", or "down" (set and not connected)
  peer,       \* the server has the connection open
  toServer,   \* commands written, not yet seen by the server
  fromServer, \* lines sent, not yet read
  sent,       \* how many events the server has sent
  bad,        \* how many invalid lines it has sent
  loop,       \* m_bModeReceiveLoop
  joinable,   \* m_singleChannelReaderThread.joinable()
  rpc,        \* where the reader is
  rline,      \* the line it has read
  stop,       \* m_singleChannelReaderStop
  failed,     \* m_singleChannelReaderError is not VSCP_ERROR_SUCCESS
  pending,    \* m_singleChannelCommandPending
  complete,   \* m_singleChannelCommandComplete, with its Result: "no", "ok" or "failed"
  response,   \* the command that m_singleChannelCommandResponse answers, or 0
  eventQueue, \* m_singleChannelEventQueue
  cmd,        \* the holder of the command mutex
  op,         \* what it is doing: "send", "clear", "close" or "none"
  issued,     \* how many commands have been written, the last being its own
  ret,        \* what doSingleChannelCommand returned to it: success?
  pc,         \* where each thread is in a call
  seen,       \* history: the last event the reader has processed
  acked       \* history: seen, when the reply to the command was processed

serverVars == <<peer, toServer, fromServer, sent, bad>>
readerVars == <<rpc, rline, seen>>
commandVars == <<pending, complete, response, acked>>
stateVars == <<transport, loop, joinable, stop, failed, eventQueue>>
lockVars == <<cmd, op, issued, ret>>
ifVars == <<serverVars, readerVars, commandVars, stateVars, lockVars>>

Line(kind, n) == [kind |-> kind, n |-> n]
NoLine == Line("none", 0)
Lines == [kind : {"ok", "error", "event", "bad"}, n : Nat]

IfInit == /\ transport = "none" /\ loop = FALSE /\ joinable = FALSE
          /\ stop = FALSE /\ failed = FALSE /\ eventQueue = <<>>
          /\ peer = FALSE /\ toServer = <<>> /\ fromServer = <<>> /\ sent = 0 /\ bad = 0
          /\ rpc = "none" /\ rline = NoLine /\ seen = 0
          /\ pending = FALSE /\ complete = "no" /\ response = 0 /\ acked = 0
          /\ cmd = None /\ op = "none" /\ issued = 0 /\ ret = FALSE
          /\ pc = [t \in Threads |-> "idle"]

Goto(t, l) == pc' = [pc EXCEPT ![t] = l]
-----------------------------------------------------------------------------
(* The server sends events when it likes, answers commands in order or not *)
(* at all (a bare +OK is no answer), and may close the connection.         *)

clientSide == <<readerVars, commandVars, stateVars, lockVars, pc>>

ServerEvent == /\ peer /\ sent < MaxEvents
               /\ sent' = sent + 1
               /\ fromServer' = Append(fromServer, Line("event", sent + 1))
               /\ UNCHANGED <<clientSide, peer, toServer, bad>>

ServerBadLine == /\ peer /\ bad < MaxBad
                 /\ bad' = bad + 1
                 /\ fromServer' = Append(fromServer, Line("bad", 0))
                 /\ UNCHANGED <<clientSide, peer, toServer, sent>>

ServerReply == /\ peer /\ toServer # <<>>
               /\ toServer' = Tail(toServer)
               /\ \E kind \in {"ok", "error"} :
                    fromServer' = Append(fromServer, Line(kind, Head(toServer)))
               /\ UNCHANGED <<clientSide, peer, sent, bad>>

ServerIgnores == /\ peer /\ toServer # <<>>
                 /\ toServer' = Tail(toServer)
                 /\ UNCHANGED <<clientSide, peer, fromServer, sent, bad>>

ServerCloses == /\ peer
                /\ peer' = FALSE
                /\ UNCHANGED <<clientSide, toServer, fromServer, sent, bad>>

Server == ServerEvent \/ ServerBadLine \/ ServerReply \/ ServerIgnores \/ ServerCloses
-----------------------------------------------------------------------------
(* singleChannelReaderLoop.  The bytes in the socket and those in           *)
(* m_singleChannelInputBuffer are one sequence of lines; a line too long    *)
(* for the buffer is a bad line.                                            *)

\* A command that waits for its reply is told that none will come.
FailPending == IF pending
               THEN pending' = FALSE /\ complete' = "failed" /\ UNCHANGED <<response, acked>>
               ELSE UNCHANGED commandVars

readerKeeps == <<loop, joinable, lockVars, pc>>

\* transportRead returns a line.
ReaderReads == /\ rpc = "read" /\ ~stop /\ transport = "up" /\ fromServer # <<>>
               /\ rline' = Head(fromServer)
               /\ fromServer' = Tail(fromServer)
               /\ rpc' = "line"
               /\ UNCHANGED <<readerKeeps, peer, toServer, sent, bad, commandVars, stateVars, seen>>

\* transportRead returns an error.
ReaderFails == /\ rpc = "read" /\ ~stop /\ (~peer \/ transport = "down")
               /\ transport' = "down"
               /\ failed' = TRUE
               /\ FailPending
               /\ rpc' = "exit"
               /\ UNCHANGED <<readerKeeps, serverVars, rline, stop, eventQueue, seen>>

ReaderStops == /\ rpc = "read" /\ stop
               /\ rpc' = "exit"
               /\ UNCHANGED <<readerKeeps, serverVars, commandVars, stateVars, rline, seen>>

\* A reply completes the pending command, if there is one.
ProcessReply == /\ rline.kind \in {"ok", "error"}
                /\ IF pending
                   THEN /\ pending' = FALSE
                        /\ complete' = IF rline.kind = "ok" THEN "ok" ELSE "failed"
                        /\ response' = rline.n
                        /\ acked' = seen
                   ELSE UNCHANGED commandVars
                /\ UNCHANGED <<stop, failed, eventQueue, seen>>

ProcessEvent == /\ rline.kind = "event"
                /\ eventQueue' = Append(eventQueue, rline.n)
                /\ seen' = rline.n
                /\ UNCHANGED <<commandVars, stop, failed>>

ProcessBadLine == /\ rline.kind = "bad"
                  /\ failed' = TRUE
                  /\ stop' = TRUE
                  /\ FailPending
                  /\ UNCHANGED <<eventQueue, seen>>

\* processSingleChannelLine
ReaderLine == /\ rpc = "line"
              /\ ProcessReply \/ ProcessEvent \/ ProcessBadLine
              /\ rpc' = "read"
              /\ rline' = NoLine
              /\ UNCHANGED <<readerKeeps, transport, serverVars>>

ReaderExits == /\ rpc = "exit"
               /\ FailPending
               /\ rpc' = "done"
               /\ UNCHANGED <<readerKeeps, serverVars, stateVars, rline, seen>>

Reader == ReaderReads \/ ReaderFails \/ ReaderStops \/ ReaderLine \/ ReaderExits
-----------------------------------------------------------------------------
(* doSingleChannelCommand, run by the holder of the command mutex.          *)

\* std::thread::join in stopSingleChannelReader
Join == /\ joinable => rpc = "done"
        /\ joinable' = FALSE
        /\ rpc' = "none"
        /\ UNCHANGED <<rline, seen>>

\* transportClose, after its stop and join of the reader
CloseTransport == /\ transport' = "none"
                  /\ peer' = FALSE /\ toServer' = <<>> /\ fromServer' = <<>>
                  /\ UNCHANGED <<sent, bad>>

\* The command is refused, or is pending from here on.
CommandBegin(t) ==
  /\ pc[t] = "begin"
  /\ IF transport # "up" \/ failed \/ stop \/ ~joinable
     THEN Goto(t, "ret") /\ ret' = FALSE /\ UNCHANGED commandVars
     ELSE /\ Goto(t, "write")
          /\ pending' = TRUE /\ complete' = "no" /\ response' = 0 /\ acked' = 0
          /\ UNCHANGED ret
  /\ UNCHANGED <<serverVars, readerVars, stateVars, cmd, op, issued>>

CommandWrite(t) ==
  /\ pc[t] = "write"
  /\ transport = "up"
  /\ issued' = issued + 1
  /\ toServer' = Append(toServer, issued + 1)
  /\ Goto(t, "wait")
  /\ UNCHANGED <<peer, fromServer, sent, bad, readerVars, commandVars, stateVars, cmd, op, ret>>

\* transportWrite fails and closes the transport, which stops the reader.
CommandWriteFails(t) ==
  /\ pc[t] = "write"
  /\ transport' = "down"
  /\ stop' = TRUE
  /\ Goto(t, "writeJoin")
  /\ UNCHANGED <<serverVars, readerVars, commandVars, loop, joinable, failed, eventQueue, lockVars>>

CommandWriteJoin(t) ==
  /\ pc[t] = "writeJoin"
  /\ Join
  /\ CloseTransport
  /\ failed' = TRUE
  /\ pending' = FALSE /\ complete' = "no"
  /\ ret' = FALSE
  /\ Goto(t, "ret")
  /\ UNCHANGED <<response, acked, loop, stop, eventQueue, cmd, op, issued>>

CommandDone(t) ==
  /\ pc[t] = "wait"
  /\ complete # "no" \/ failed \/ stop
  /\ ret' = (complete = "ok")
  /\ complete' = "no" /\ response' = 0
  /\ Goto(t, "ret")
  /\ UNCHANGED <<serverVars, readerVars, pending, acked, stateVars, cmd, op, issued>>

\* mutant: the wait just gives up
CommandTimeoutGivesUp(t) ==
  /\ pc[t] = "wait"
  /\ complete = "no" /\ ~failed /\ ~stop
  /\ pending' = FALSE
  /\ ret' = FALSE
  /\ Goto(t, "ret")
  /\ UNCHANGED <<serverVars, readerVars, complete, response, acked, stateVars, cmd, op, issued>>

\* A reply that comes later would be taken for that of another command: the
\* connection is given up.
CommandTimeout(t) ==
  /\ pc[t] = "wait"
  /\ complete = "no" /\ ~failed /\ ~stop
  /\ pending' = FALSE
  /\ failed' = TRUE
  /\ stop' = TRUE
  /\ Goto(t, "timeoutJoin")
  /\ UNCHANGED <<serverVars, readerVars, complete, response, acked, transport, loop, joinable,
                 eventQueue, lockVars>>

CommandTimeoutJoin(t) ==
  /\ pc[t] = "timeoutJoin"
  /\ Join
  /\ CloseTransport
  /\ loop' = FALSE
  /\ ret' = FALSE
  /\ Goto(t, "ret")
  /\ UNCHANGED <<commandVars, stop, failed, eventQueue, cmd, op, issued>>

Command(t) == \/ CommandBegin(t) \/ CommandWrite(t) \/ CommandWriteFails(t)
              \/ CommandWriteJoin(t) \/ CommandDone(t) \/ CommandTimeout(t)
              \/ CommandTimeoutJoin(t)

LockCommand(t, o) == cmd' = t /\ op' = o /\ UNCHANGED <<issued, ret>>
UnlockCommand == cmd' = None /\ op' = "none" /\ ret' = FALSE /\ acked' = 0 /\ UNCHANGED issued
-----------------------------------------------------------------------------
(* doCmdOpen, doCmdEnterReceiveLoop and doCmdClose, calls of thread t.      *)

\* doCmdOpen, CHID and RCVLOOP succeed and the reader is started.
Opens(t) ==
  /\ pc[t] = "open"
  /\ transport' = "up" /\ peer' = TRUE
  /\ loop' = TRUE /\ joinable' = TRUE /\ rpc' = "read"
  /\ stop' = FALSE /\ failed' = FALSE
  /\ pending' = FALSE /\ complete' = "no" /\ response' = 0 /\ acked' = 0
  /\ eventQueue' = <<>>
  /\ Goto(t, "spawn")
  /\ UNCHANGED <<toServer, fromServer, sent, bad, rline, seen, lockVars>>

\* One of them fails; transportClose leaves its error unless doCmdClose
\* follows and resets it.
OpenFails(t) ==
  /\ pc[t] = "open"
  /\ stop' = TRUE /\ failed' \in BOOLEAN
  /\ Goto(t, "idle")
  /\ UNCHANGED <<serverVars, readerVars, commandVars, transport, loop, joinable, eventQueue,
                 lockVars>>

\* mutant: without the command mutex
CloseLockUnlocked(t) ==
  /\ pc[t] = "closeLock"
  /\ op' = "close"
  /\ Goto(t, IF transport = "up" /\ loop THEN "begin" ELSE "closeStop")
  /\ UNCHANGED <<serverVars, readerVars, commandVars, stateVars, cmd, issued, ret>>

\* The receive loop is left with a command, QUITLOOP, if that is possible.
CloseLock(t) ==
  /\ pc[t] = "closeLock"
  /\ cmd = None
  /\ LockCommand(t, "close")
  /\ Goto(t, IF transport = "up" /\ loop THEN "begin" ELSE "closeStop")
  /\ UNCHANGED <<serverVars, readerVars, commandVars, stateVars>>

\* Whatever came of QUITLOOP, the reader is stopped.
CloseStop(t) ==
  /\ \/ pc[t] = "closeStop"
     \/ pc[t] = "ret" /\ op = "close"
  /\ loop' = FALSE
  /\ stop' = TRUE
  /\ Goto(t, "closeJoin")
  /\ UNCHANGED <<serverVars, readerVars, commandVars, transport, joinable, failed, eventQueue,
                 lockVars>>

CloseJoin(t) ==
  /\ pc[t] = "closeJoin"
  /\ Join
  /\ CloseTransport
  /\ eventQueue' = <<>>
  /\ pending' = FALSE /\ complete' = "no" /\ response' = 0
  /\ failed' = FALSE
  /\ UnlockCommand
  /\ Goto(t, "idle")
  /\ UNCHANGED <<loop, stop>>

OpenClose(t) == Opens(t) \/ OpenFails(t) \/ CloseLock(t) \/ CloseStop(t) \/ CloseJoin(t)
-----------------------------------------------------------------------------
IfTypeOK ==
  /\ transport \in {"none", "up", "down"}
  /\ sent \in Nat /\ sent <= MaxEvents /\ bad \in 0 .. MaxBad
  /\ issued \in Nat /\ response \in 0 .. issued
  /\ toServer \in Seq(1 .. issued)
  /\ fromServer \in Seq(Lines)
  /\ rline \in Lines \cup {NoLine}
  /\ rpc \in {"none", "read", "line", "exit", "done"}
  /\ complete \in {"no", "ok", "failed"}
  /\ eventQueue \in Seq(1 .. sent)
  /\ cmd \in Threads \cup {None}
  /\ op \in {"none", "send", "clear", "close"}
  /\ seen \in 0 .. sent /\ acked \in 0 .. sent
=============================================================================

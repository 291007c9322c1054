--------------------------- MODULE DatagramClient ---------------------------
(***************************************************************************)
(* The life cycle and the receive queue of the UDP and multicast clients   *)
(* (vscp-client-udp.cpp, vscp-client-multicast.cpp and the templates of    *)
(* vscp-client-datagram.h they share).                                     *)
(*                                                                         *)
(* Application threads (Callers) call the client at any time.  The receive *)
(* worker W runs receiveLoop; a callback it makes runs on W and may call   *)
(* the client too, so W is a thread with a pc of its own, which is "idle"  *)
(* outside such a call.  A region guarded by m_lifecycleMutex is split     *)
(* where the mutex is released (the join, the condition wait) and where    *)
(* the worker, which does not take it, can tell the difference.  The       *)
(* socket and the queue mutex are only held inside one step each.          *)
(*                                                                         *)
(* Sockets are numbered in the order in which they are opened, so that a   *)
(* use of a closed one is told from a use of its successor.  An event is   *)
(* the authentication policy it was accepted under; whether a datagram is  *)
(* valid and passes the filter is a free choice.                           *)
(***************************************************************************)
EXTENDS Naturals, Sequences, FiniteSets

CONSTANTS Callers,     \* application threads
          W,           \* the receive worker
          None,        \* no thread
          Policies,    \* authentication settings (algorithm, key, HMAC key)
          NoAuth,      \* authentication disabled
          MaxCalls,    \* bound of the model: calls one thread makes
          MaxEvents    \* bound of the model: datagrams that arrive

ASSUME DatagramAssumption == /\ W \notin Callers
                             /\ None \notin Callers \cup {W}
                             /\ NoAuth \in Policies
                             /\ MaxCalls \in Nat
                             /\ MaxEvents \in Nat

Threads == Callers \cup {W}

VARIABLES
  lifecycle,  \* the holder of m_lifecycleMutex
  waiting,    \* threads in m_lifecycleCondition.wait, not yet notified
  joining,    \* m_joining
  worker,     \* m_pworkerthread is not null
  connected,  \* m_connected
  bRun,       \* m_bRun
  sock,       \* m_sock
  socketOpen, \* m_socketOpen
  opened,     \* how many sockets have been opened
  open,       \* the sockets the operating system has open
  policy,     \* the configured authentication settings
  pc,         \* where each thread is in a call
  calls,      \* how many calls each thread has made
  active,     \* the callbacks that are active: "ev", "ex"
  wpc,        \* where the worker is in receiveLoop
  wsock,      \* receiveLoop's copy of m_sock
  event,      \* the event receiveLoop is handling
  arrived,    \* how many datagrams have arrived
  queue,      \* m_receiveQueue
  rwaiting    \* threads in m_receiveCondition.wait_for, not yet notified

lifecycleVars == <<lifecycle, waiting, joining, worker, connected, bRun>>
socketVars == <<sock, socketOpen, opened, open>>
workerVars == <<wpc, wsock, event, arrived>>
queueVars == <<queue, rwaiting>>
callVars == <<pc, calls>>
vars == <<lifecycleVars, socketVars, workerVars, queueVars, callVars, policy, active>>

Init == /\ lifecycle = None
        /\ waiting = {}
        /\ joining = FALSE
        /\ worker = FALSE
        /\ connected = FALSE
        /\ bRun \in BOOLEAN         \* false in the UDP client, true in the multicast client
        /\ sock = 0
        /\ socketOpen = FALSE
        /\ opened = 0
        /\ open = {}
        /\ policy = NoAuth
        /\ pc = [t \in Threads |-> "idle"]
        /\ calls = [t \in Threads |-> 0]
        /\ active \in SUBSET {"ev", "ex"}
        /\ wpc = "none"
        /\ wsock = 0
        /\ event = NoAuth
        /\ arrived = 0
        /\ queue = <<>>
        /\ rwaiting = {}
-----------------------------------------------------------------------------
\* A thread that can begin a call: an application thread, or the worker
\* inside one of its callbacks.
CanCall(t) == /\ pc[t] = "idle"
              /\ calls[t] < MaxCalls
              /\ t = W => wpc \in {"callbackEv", "callbackEx"}

Count(t) == calls' = [calls EXCEPT ![t] = @ + 1]
Goto(t, l) == pc' = [pc EXCEPT ![t] = l]

\* m_pworkerthread->get_id() == std::this_thread::get_id()
OnWorker(t) == worker /\ t = W

\* closeClientSocket
CloseClientSocket == /\ open' = IF socketOpen THEN open \ {sock} ELSE open
                     /\ sock' = IF socketOpen THEN 0 ELSE sock
                     /\ socketOpen' = FALSE
                     /\ UNCHANGED opened
-----------------------------------------------------------------------------
\* connect, from the lock (or from a wake-up of the wait, which tests the
\* same conditions) to the return, the wait, the join or the opening.
ConnectEntry(t) ==
  /\ lifecycle = None
  /\ \/ /\ connected \/ OnWorker(t)        \* already connected, or refused
        /\ Goto(t, "idle")
        /\ UNCHANGED lifecycleVars
     \/ /\ ~connected /\ ~OnWorker(t) /\ joining
        /\ Goto(t, "connectWait")
        /\ waiting' = waiting \cup {t}
        /\ UNCHANGED <<lifecycle, joining, worker, connected, bRun>>
     \/ /\ ~connected /\ ~OnWorker(t) /\ ~joining /\ worker
        /\ Goto(t, "connectJoin")
        /\ bRun' = FALSE
        /\ joining' = TRUE
        /\ UNCHANGED <<lifecycle, waiting, worker, connected>>
     \/ /\ ~connected /\ ~joining /\ ~worker
        /\ Goto(t, "connectOpen")
        /\ lifecycle' = t
        /\ UNCHANGED <<waiting, joining, worker, connected, bRun>>
  /\ UNCHANGED <<socketVars, workerVars, queueVars, policy, active>>

Connect(t) == CanCall(t) /\ ConnectEntry(t) /\ Count(t)

ConnectWake(t) == /\ pc[t] = "connectWait"
                  /\ t \notin waiting
                  /\ ConnectEntry(t)
                  /\ UNCHANGED calls

\* worker->join() returns when the worker has left receiveLoop
Join(t, from, to) == /\ pc[t] = from
                     /\ wpc = "done"
                     /\ wpc' = "none"
                     /\ Goto(t, to)
                     /\ UNCHANGED <<wsock, event, arrived, calls, lifecycleVars, socketVars,
                                    queueVars, policy, active>>

ConnectJoin(t) == Join(t, "connectJoin", "connectJoined")

\* mutant: the threads that wait for the join are not notified
JoinedSilent(t, holder) == /\ lifecycle = None
                           /\ lifecycle' = holder
                           /\ worker' = FALSE
                           /\ CloseClientSocket
                           /\ joining' = FALSE
                           /\ UNCHANGED <<waiting, connected, bRun, calls, workerVars, queueVars,
                                          policy, active>>

\* mutant: the socket of a worker that died is not closed
JoinedKeepsSocket(t, holder) == /\ lifecycle = None
                                /\ lifecycle' = holder
                                /\ worker' = FALSE
                                /\ joining' = FALSE
                                /\ waiting' = {}
                                /\ UNCHANGED <<connected, bRun, calls, socketVars, workerVars,
                                               queueVars, policy, active>>

\* After the join both callers lock again, delete the worker, close the
\* socket, clear m_joining and notify; connect keeps the mutex.
Joined(t, holder) == /\ lifecycle = None
                     /\ lifecycle' = holder
                     /\ worker' = FALSE
                     /\ CloseClientSocket
                     /\ joining' = FALSE
                     /\ waiting' = {}
                     /\ UNCHANGED <<connected, bRun, calls, workerVars, queueVars, policy, active>>

ConnectJoined(t) == /\ pc[t] = "connectJoined"
                    /\ Joined(t, t)
                    /\ Goto(t, "connectOpen")

\* openSocket, or a refusal of the settings or of the address
ConnectOpen(t) ==
  /\ pc[t] = "connectOpen"
  /\ \/ /\ Goto(t, "idle")
        /\ lifecycle' = None
        /\ UNCHANGED <<socketVars, connected>>
     \/ /\ opened' = opened + 1
        /\ open' = open \cup {opened + 1}
        /\ sock' = opened + 1
        /\ socketOpen' = TRUE
        /\ connected' = TRUE
        /\ Goto(t, "connectSpawn")
        /\ UNCHANGED lifecycle
  /\ UNCHANGED <<waiting, joining, worker, bRun, calls, workerVars, queueVars, policy, active>>

\* The thread starts before its handle is stored in m_pworkerthread.
ConnectSpawn(t) ==
  /\ pc[t] = "connectSpawn"
  /\ bRun' = TRUE
  /\ wpc' = "start"
  /\ Goto(t, "connectAssign")
  /\ UNCHANGED <<lifecycle, waiting, joining, worker, connected, calls, socketVars, wsock, event,
                 arrived, queueVars, policy, active>>

\* std::system_error or std::bad_alloc: no thread
ConnectSpawnFails(t) ==
  /\ pc[t] = "connectSpawn"
  /\ connected' = FALSE
  /\ bRun' = FALSE
  /\ CloseClientSocket
  /\ lifecycle' = None
  /\ Goto(t, "idle")
  /\ UNCHANGED <<waiting, joining, worker, calls, workerVars, queueVars, policy, active>>

ConnectAssign(t) ==
  /\ pc[t] = "connectAssign"
  /\ worker' = TRUE
  /\ lifecycle' = None
  /\ Goto(t, "idle")
  /\ UNCHANGED <<waiting, joining, connected, bRun, calls, socketVars, workerVars, queueVars,
                 policy, active>>
-----------------------------------------------------------------------------
\* disconnect on the worker itself, or with no worker to join
DisconnectAtOnce(t) == /\ OnWorker(t) \/ (~joining /\ ~worker)
                       /\ connected' = FALSE
                       /\ bRun' = FALSE
                       /\ CloseClientSocket
                       /\ Goto(t, "idle")
                       /\ UNCHANGED <<lifecycle, waiting, joining, worker>>

DisconnectWaits(t) == /\ ~OnWorker(t) /\ joining
                      /\ waiting' = waiting \cup {t}
                      /\ Goto(t, "disconnectWait")
                      /\ UNCHANGED <<lifecycle, joining, worker, connected, bRun, socketVars>>

\* mutant: the socket is closed before the join, to wake the worker
DisconnectJoinsClosing(t) == /\ ~OnWorker(t) /\ ~joining /\ worker
                             /\ connected' = FALSE
                             /\ bRun' = FALSE
                             /\ joining' = TRUE
                             /\ CloseClientSocket
                             /\ Goto(t, "disconnectJoin")
                             /\ UNCHANGED <<lifecycle, waiting, worker>>

\* mutant: a join in progress is not waited for
DisconnectJoinsTwice(t) == /\ ~OnWorker(t) /\ worker
                           /\ connected' = FALSE
                           /\ bRun' = FALSE
                           /\ joining' = TRUE
                           /\ Goto(t, "disconnectJoin")
                           /\ UNCHANGED <<lifecycle, waiting, worker, socketVars>>

DisconnectJoins(t) == /\ ~OnWorker(t) /\ ~joining /\ worker
                      /\ connected' = FALSE
                      /\ bRun' = FALSE
                      /\ joining' = TRUE
                      /\ Goto(t, "disconnectJoin")
                      /\ UNCHANGED <<lifecycle, waiting, worker, socketVars>>

\* disconnect, from the lock (or a wake-up of the wait) to the return, the
\* wait or the join
DisconnectEntry(t) == /\ lifecycle = None
                      /\ DisconnectAtOnce(t) \/ DisconnectWaits(t) \/ DisconnectJoins(t)
                      /\ UNCHANGED <<workerVars, queueVars, policy, active>>

Disconnect(t) == CanCall(t) /\ DisconnectEntry(t) /\ Count(t)

DisconnectWake(t) == /\ pc[t] = "disconnectWait"
                     /\ t \notin waiting
                     /\ DisconnectEntry(t)
                     /\ UNCHANGED calls

DisconnectJoin(t) == Join(t, "disconnectJoin", "disconnectJoined")

DisconnectJoined(t) == /\ pc[t] = "disconnectJoined"
                       /\ Joined(t, None)
                       /\ Goto(t, "idle")

\* A condition variable may wake a thread without a notification.
SpuriousWake(t) == /\ t \in waiting
                   /\ waiting' = waiting \ {t}
                   /\ UNCHANGED <<lifecycle, joining, worker, connected, bRun, callVars, socketVars,
                                  workerVars, queueVars, policy, active>>
-----------------------------------------------------------------------------
\* send: the connection is tested, the frame is built, the connection is
\* tested again under the socket mutex, and the frame is sent
Send(t) == /\ CanCall(t)
           /\ lifecycle = None
           /\ Count(t)
           /\ \/ connected /\ Goto(t, "sendTo") /\ lifecycle' = t
              \/ Goto(t, "idle") /\ UNCHANGED lifecycle  \* not connected, or an invalid event
           /\ UNCHANGED <<waiting, joining, worker, connected, bRun, socketVars, workerVars,
                          queueVars, policy, active>>

SendTo(t) == /\ pc[t] = "sendTo"
             /\ lifecycle' = None
             /\ Goto(t, "idle")
             /\ UNCHANGED <<waiting, joining, worker, connected, bRun, calls, socketVars,
                            workerVars, queueVars, policy, active>>

\* mutant: a worker that has not been joined does not matter
InitFromJsonEarly(t, p) ==
  /\ CanCall(t)
  /\ lifecycle = None
  /\ Count(t)
  /\ policy' = IF ~connected /\ ~joining /\ (queue = <<>> \/ p = policy) THEN p ELSE policy
  /\ UNCHANGED <<lifecycleVars, socketVars, workerVars, queueVars, pc, active>>

\* initFromJson: refused unless the client is at rest, and while events of
\* other settings are queued
InitFromJson(t, p) ==
  /\ CanCall(t)
  /\ lifecycle = None
  /\ Count(t)
  /\ policy' = IF ~connected /\ ~joining /\ ~worker /\ (queue = <<>> \/ p = policy)
               THEN p ELSE policy
  /\ UNCHANGED <<lifecycleVars, socketVars, workerVars, queueVars, pc, active>>
-----------------------------------------------------------------------------
\* popEvent without and with blocking, and clearQueue
Pop == queue' = Tail(queue) /\ UNCHANGED rwaiting

Receive(t) == /\ CanCall(t)
              /\ Count(t)
              /\ IF queue # <<>> THEN Pop ELSE UNCHANGED queueVars
              /\ UNCHANGED <<pc, lifecycleVars, socketVars, workerVars, policy, active>>

ReceiveBlocking(t) ==
  /\ CanCall(t)
  /\ Count(t)
  /\ \/ queue # <<>> /\ Pop /\ UNCHANGED pc
     \/ /\ queue = <<>>
        /\ rwaiting' = rwaiting \cup {t}
        /\ Goto(t, "receiveWait")
        /\ UNCHANGED queue
  /\ UNCHANGED <<lifecycleVars, socketVars, workerVars, policy, active>>

\* notified: the predicate is tested again, and the wait resumed
ReceiveWake(t) ==
  /\ pc[t] = "receiveWait"
  /\ t \notin rwaiting
  /\ \/ queue # <<>> /\ Pop /\ Goto(t, "idle")
     \/ queue = <<>> /\ rwaiting' = rwaiting \cup {t} /\ UNCHANGED <<queue, pc>>
  /\ UNCHANGED <<calls, lifecycleVars, socketVars, workerVars, policy, active>>

\* wait_for gives up: the thread no longer takes notifications, and tests the
\* predicate a last time when it has the mutex again
ReceiveTimeout(t) == /\ pc[t] = "receiveWait"
                     /\ rwaiting' = rwaiting \ {t}
                     /\ Goto(t, "receiveLast")
                     /\ UNCHANGED <<queue, calls, lifecycleVars, socketVars, workerVars, policy,
                                    active>>

\* mutant: a thread that timed out does not look at the queue
ReceiveLastBlind(t) == /\ pc[t] = "receiveLast"
                       /\ Goto(t, "idle")
                       /\ UNCHANGED <<queueVars, calls, lifecycleVars, socketVars, workerVars,
                                      policy, active>>

ReceiveLast(t) == /\ pc[t] = "receiveLast"
                  /\ IF queue # <<>> THEN Pop ELSE UNCHANGED queueVars
                  /\ Goto(t, "idle")
                  /\ UNCHANGED <<calls, lifecycleVars, socketVars, workerVars, policy, active>>

ClearQueue(t) == /\ CanCall(t)
                 /\ Count(t)
                 /\ queue' = <<>>
                 /\ UNCHANGED <<rwaiting, pc, lifecycleVars, socketVars, workerVars, policy, active>>
-----------------------------------------------------------------------------
WorkerGoto(l) == wpc' = l /\ UNCHANGED <<callVars, policy, active, socketVars, lifecycle, waiting,
                                         joining, worker>>

\* receiveLoop copies the descriptor once
WorkerStart == /\ wpc = "start"
               /\ wsock' = sock
               /\ WorkerGoto("loop")
               /\ UNCHANGED <<connected, bRun, event, arrived, queueVars>>

WorkerLoop == /\ wpc = "loop"
              /\ WorkerGoto(IF bRun THEN "poll" ELSE "exit")
              /\ UNCHANGED <<connected, bRun, wsock, event, arrived, queueVars>>

\* poll times out or is interrupted; both run flag tests follow
WorkerPollNothing == /\ wpc = "poll"
                     /\ WorkerGoto(IF bRun THEN "loop" ELSE "exit")
                     /\ UNCHANGED <<connected, bRun, wsock, event, arrived, queueVars>>

WorkerPollFails == /\ wpc = "poll"
                   /\ IF bRun THEN connected' = FALSE /\ bRun' = FALSE
                              ELSE UNCHANGED <<connected, bRun>>
                   /\ WorkerGoto("exit")
                   /\ UNCHANGED <<wsock, event, arrived, queueVars>>

WorkerPollReady == /\ wpc = "poll"
                   /\ arrived < MaxEvents
                   /\ WorkerGoto(IF bRun THEN "recv" ELSE "exit")
                   /\ UNCHANGED <<connected, bRun, wsock, event, arrived, queueVars>>

\* recv fails, or the datagram is not a valid event or does not pass the filter
WorkerDiscard == /\ wpc = "recv"
                 /\ arrived' = arrived + 1
                 /\ WorkerGoto("loop")
                 /\ UNCHANGED <<connected, bRun, wsock, event, queueVars>>

\* std::bad_alloc while an authenticated frame is decrypted
WorkerNoMemory == /\ wpc = "recv"
                  /\ policy # NoAuth
                  /\ arrived' = arrived + 1
                  /\ bRun' = FALSE
                  /\ WorkerGoto("exit")
                  /\ UNCHANGED <<connected, wsock, event, queueVars>>

AfterCallbackEv == IF "ex" \in active THEN "callbackEx" ELSE "enqueue"

WorkerAccept == /\ wpc = "recv"
                /\ arrived' = arrived + 1
                /\ event' = policy
                /\ WorkerGoto(IF "ev" \in active THEN "callbackEv" ELSE AfterCallbackEv)
                /\ UNCHANGED <<connected, bRun, wsock, queueVars>>

\* a callback returns; what it called is done
CallbackReturns == /\ wpc \in {"callbackEv", "callbackEx"}
                   /\ pc[W] = "idle"
                   /\ WorkerGoto(IF wpc = "callbackEv" THEN AfterCallbackEv ELSE "enqueue")
                   /\ UNCHANGED <<connected, bRun, wsock, event, arrived, queueVars>>

\* The event is queued unless both callbacks took it; notify_one wakes one
\* of the waiting threads.
WorkerEnqueue ==
  /\ wpc = "enqueue"
  /\ IF active = {"ev", "ex"}
     THEN UNCHANGED queueVars
     ELSE /\ queue' = Append(queue, event)
          /\ \/ rwaiting = {} /\ UNCHANGED rwaiting
             \/ \E t \in rwaiting : rwaiting' = rwaiting \ {t}
  /\ WorkerGoto("loop")
  /\ UNCHANGED <<connected, bRun, wsock, event, arrived>>

WorkerDrop == /\ wpc = "enqueue"                 \* no memory for the queue entry
              /\ WorkerGoto("loop")
              /\ UNCHANGED <<connected, bRun, wsock, event, arrived, queueVars>>

\* mutant: the worker leaves m_connected set
WorkerExitSilent == /\ wpc = "exit"
                    /\ WorkerGoto("done")
                    /\ UNCHANGED <<connected, bRun, wsock, event, arrived, queueVars>>

WorkerExit == /\ wpc = "exit"
              /\ connected' = FALSE
              /\ WorkerGoto("done")
              /\ UNCHANGED <<bRun, wsock, event, arrived, queueVars>>

Worker == \/ WorkerStart \/ WorkerLoop
          \/ WorkerPollNothing \/ WorkerPollFails \/ WorkerPollReady
          \/ WorkerDiscard \/ WorkerNoMemory \/ WorkerAccept
          \/ CallbackReturns \/ WorkerEnqueue \/ WorkerDrop \/ WorkerExit
-----------------------------------------------------------------------------
\* The rest of a call that has begun
Continue(t) == \/ ConnectWake(t) \/ ConnectJoin(t) \/ ConnectJoined(t) \/ ConnectOpen(t)
               \/ ConnectSpawn(t) \/ ConnectSpawnFails(t) \/ ConnectAssign(t)
               \/ DisconnectWake(t) \/ DisconnectJoin(t) \/ DisconnectJoined(t)
               \/ SendTo(t)
               \/ ReceiveWake(t) \/ ReceiveTimeout(t) \/ ReceiveLast(t)

Call(t) == \/ Connect(t) \/ Disconnect(t) \/ Send(t)
           \/ \E p \in Policies : InitFromJson(t, p)
           \/ Receive(t) \/ ReceiveBlocking(t) \/ ClearQueue(t)

Next == \/ \E t \in Threads : Call(t) \/ Continue(t) \/ SpuriousWake(t)
        \/ Worker

Spec == Init /\ [][Next]_vars

\* Every thread that can run is scheduled, a poll returns (it has a time-out)
\* and a blocking receive times out; a callback returns.  No thread has to
\* make a call.
Fairness == /\ \A t \in Threads : WF_vars(Continue(t)) /\ WF_vars(ReceiveTimeout(t))
            /\ WF_vars(Worker)

LiveSpec == Spec /\ Fairness
-----------------------------------------------------------------------------
CallPlaces == {"idle", "connectWait", "connectJoin", "connectJoined", "connectOpen", "connectSpawn",
               "connectAssign", "disconnectWait", "disconnectJoin", "disconnectJoined", "sendTo",
               "receiveWait", "receiveLast"}
WorkerPlaces == {"none", "start", "loop", "poll", "recv", "callbackEv", "callbackEx", "enqueue",
                 "exit", "done"}

\* The types of the variables.
TypeOK ==
  /\ lifecycle \in Threads \cup {None}
  /\ waiting \subseteq Threads
  /\ joining \in BOOLEAN
  /\ worker \in BOOLEAN
  /\ connected \in BOOLEAN
  /\ bRun \in BOOLEAN
  /\ sock \in Nat
  /\ socketOpen \in BOOLEAN
  /\ opened \in Nat
  /\ open \subseteq Nat
  /\ policy \in Policies
  /\ pc \in [Threads -> CallPlaces]
  /\ calls \in [Threads -> Nat]
  /\ active \in SUBSET {"ev", "ex"}
  /\ wpc \in WorkerPlaces
  /\ wsock \in Nat
  /\ event \in Policies
  /\ arrived \in Nat
  /\ queue \in Seq(Policies)
  /\ rwaiting \subseteq Threads

\* The worker waits on and reads from a socket that is open, and it is the
\* one the client holds: no thread closes it under the worker, and a
\* reconnect never leaves the worker on the socket of the old session.  A
\* frame that is sent goes to an open socket, too: connected is still true at
\* sendto only if the socket has not been closed.
UsedSocketIsOpen ==
  /\ wpc \in {"poll", "recv"} => wsock \in open /\ wsock = sock
  /\ \A t \in Threads : pc[t] = "sendTo" /\ connected => sock \in open

\* The operating system holds exactly the socket the client knows of: none
\* leaks when a worker dies, a call fails or a callback disconnects, and
\* none is closed twice.
NoSocketLeak == open = IF socketOpen THEN {sock} ELSE {}

\* isConnected() is true only while events can be received: there is a
\* worker that has not begun to leave, or connect is about to start it.
ConnectedIsServed ==
  connected => \/ wpc \notin {"none", "done"}
               \/ \E t \in Threads : pc[t] = "connectSpawn" /\ lifecycle = t

JoinPlaces == {"connectJoin", "connectJoined", "disconnectJoin", "disconnectJoined"}

\* std::thread::join is called by one thread at a time, never by the worker
\* on itself, and the thread object exists until the joiner deletes it.
JoinOnce == \A t \in Threads : pc[t] \in JoinPlaces =>
              /\ t # W
              /\ worker
              /\ \A u \in Threads : pc[u] \in JoinPlaces => u = t

\* Every queued event was accepted under the settings in force, so that no
\* event of other settings is delivered under them (initFromJson refuses the
\* change until the queue is empty and the worker is gone).
QueuePolicy == \A i \in 1 .. Len(queue) : queue[i] = policy

\* The threads in receiveBlocking that will look at the queue
Awake == {t \in Threads : \/ pc[t] = "receiveLast"
                          \/ pc[t] = "receiveWait" /\ t \notin rwaiting}

\* No wake-up is lost: while a thread sleeps in receiveBlocking there are no
\* more queued events than threads that are awake to take them.
NoLostWakeup == rwaiting # {} => Len(queue) <= Cardinality(Awake)

\* Every call returns, from an application thread and from a callback:
\* disconnect and connect are never left waiting for the worker while the
\* worker's callback waits for them.
CallsReturn == \A t \in Threads : pc[t] # "idle" ~> pc[t] = "idle"
-----------------------------------------------------------------------------
(***************************************************************************)
(* The inductive invariant behind the safety properties.                   *)
(***************************************************************************)
\* Who holds the life cycle mutex between two steps
LockInv == \A t \in Threads :
             pc[t] \in {"connectOpen", "connectSpawn", "connectAssign", "sendTo"} <=> lifecycle = t

\* A join is announced by m_joining and ends the connection before it starts;
\* the worker never waits for the life cycle condition or for a join, and
\* nothing is opened while there is a worker.
JoinInv ==
  /\ \A t \in Threads : pc[t] \in JoinPlaces => joining
  /\ joining => worker /\ ~connected /\ ~bRun
  /\ pc[W] \in {"idle", "sendTo", "receiveWait", "receiveLast"}
  /\ \A t \in Threads : pc[t] \in {"connectOpen", "connectSpawn", "connectAssign"} => ~worker
  /\ \A t \in Threads : pc[t] = "connectOpen" => ~connected

\* When there is a running worker thread
WorkerInv ==
  /\ wpc # "none" => worker \/ \E t \in Threads : pc[t] = "connectAssign"
  /\ \A t \in Threads : pc[t] \in {"connectSpawn", "connectOpen", "connectJoined",
                                   "disconnectJoined"} => wpc = "none"
  /\ wpc \in {"none", "done"} /\ connected => \E t \in Threads : pc[t] = "connectSpawn"

\* When the client's socket is open, and when it is the worker's
SocketInv ==
  /\ connected => socketOpen
  /\ \A t \in Threads : pc[t] = "connectSpawn" => socketOpen
  /\ socketOpen => worker \/ \E t \in Threads : pc[t] \in {"connectSpawn", "connectAssign"}
  /\ wpc = "start" => socketOpen
  /\ wpc \in {"poll", "recv"} => socketOpen /\ wsock = sock
  /\ wpc \in {"loop", "callbackEv", "callbackEx", "enqueue"} /\ bRun => socketOpen /\ wsock = sock

EventInv == wpc \in {"callbackEv", "callbackEx", "enqueue"} => event = policy

IInv == /\ TypeOK /\ LockInv /\ JoinInv /\ JoinOnce /\ WorkerInv
        /\ SocketInv /\ NoSocketLeak /\ EventInv /\ QueuePolicy

\* Only a thread in the wait takes notifications, and at any time finitely
\* many threads are awake.
WakeInv == /\ \A t \in rwaiting : pc[t] = "receiveWait"
           /\ IsFiniteSet(Awake)
           /\ NoLostWakeup
=============================================================================

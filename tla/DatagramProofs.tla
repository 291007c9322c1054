--------------------------- MODULE DatagramProofs ---------------------------
(***************************************************************************)
(* The safety properties of the datagram client hold for any number of     *)
(* application threads, calls, datagrams and authentication settings.      *)
(* Each lemma shows that a group of steps preserves IInv, one part of the  *)
(* invariant at a time.                                                    *)
(***************************************************************************)
EXTENDS DatagramClient, FiniteSetTheorems, TLAPS

USE DatagramAssumption DEF lifecycleVars, socketVars, workerVars, queueVars, callVars, Threads

\* The constructor establishes the invariant.
LEMMA InitIInv == Init => IInv
<1> SUFFICES ASSUME Init PROVE IInv
  OBVIOUS
<1> USE DEF Init
<1>1. TypeOK
  <2>1. pc \in [Threads -> CallPlaces]
    BY DEF CallPlaces
  <2>2. calls \in [Threads -> Nat] /\ queue \in Seq(Policies) /\ wpc \in WorkerPlaces
    BY DEF WorkerPlaces
  <2>3. sock \in Nat /\ opened \in Nat /\ wsock \in Nat /\ arrived \in Nat /\ open \subseteq Nat
    OBVIOUS
  <2> QED BY <2>1, <2>2, <2>3 DEF TypeOK
<1>2. LockInv /\ JoinInv /\ JoinOnce
  BY DEF LockInv, JoinInv, JoinOnce, JoinPlaces
<1>3. WorkerInv /\ SocketInv
  BY DEF WorkerInv, SocketInv
<1>4. NoSocketLeak /\ EventInv /\ QueuePolicy
  BY DEF NoSocketLeak, EventInv, QueuePolicy
<1> QED BY <1>1, <1>2, <1>3, <1>4 DEF IInv

\* closeClientSocket keeps the types of the socket variables.
LEMMA CloseTypes == ASSUME TypeOK, CloseClientSocket PROVE sock' \in Nat /\ open' \subseteq Nat
<1>1. CASE socketOpen
  BY <1>1 DEF TypeOK, CloseClientSocket
<1>2. CASE ~socketOpen
  BY <1>2 DEF TypeOK, CloseClientSocket
<1> QED BY <1>1, <1>2

\* What remains of the queue when its head is taken was in it before.
LEMMA PopQueue == ASSUME TypeOK, QueuePolicy, queue # <<>>
                  PROVE  /\ Tail(queue) \in Seq(Policies)
                         /\ \A i \in 1 .. Len(Tail(queue)) : Tail(queue)[i] = policy
<1>1. queue \in Seq(Policies)
  BY DEF TypeOK
<1>2. Tail(queue) \in Seq(Policies) /\ Len(Tail(queue)) = Len(queue) - 1
  BY <1>1
<1>3. \A i \in 1 .. Len(Tail(queue)) : Tail(queue)[i] = queue[i + 1]
  BY <1>1
<1> QED BY <1>1, <1>2, <1>3 DEF QueuePolicy

\* An event of the policy in force is appended to events of that policy.
LEMMA AppendQueue == ASSUME TypeOK, QueuePolicy, event = policy
                     PROVE  /\ Append(queue, event) \in Seq(Policies)
                            /\ \A i \in 1 .. Len(Append(queue, event)) :
                                  Append(queue, event)[i] = policy
<1>1. queue \in Seq(Policies) /\ event \in Policies
  BY DEF TypeOK
<1>2. Append(queue, event) \in Seq(Policies) /\ Len(Append(queue, event)) = Len(queue) + 1
  BY <1>1
<1>3. \A i \in 1 .. Len(queue) + 1 :
         Append(queue, event)[i] = IF i = Len(queue) + 1 THEN event ELSE queue[i]
  BY <1>1
<1> QED BY <1>1, <1>2, <1>3 DEF QueuePolicy

\* The entry of connect, and its return from the condition wait
LEMMA ConnectEntryIInv ==
  ASSUME IInv, NEW t \in Threads, Connect(t) \/ ConnectWake(t)
  PROVE  IInv'
<1> USE DEF Connect, ConnectWake, ConnectEntry, OnWorker, Goto, CanCall, Count
<1>1. TypeOK'
  <2>1. pc' \in [Threads -> CallPlaces] /\ wpc' \in WorkerPlaces
    BY DEF IInv, TypeOK, CallPlaces, WorkerPlaces
  <2>2. calls' \in [Threads -> Nat]
    BY DEF IInv, TypeOK
  <2>3. waiting' \subseteq Threads /\ lifecycle' \in Threads \cup {None}
    BY DEF IInv, TypeOK
  <2>4. sock' \in Nat /\ open' \subseteq Nat
    BY DEF IInv, TypeOK
  <2>5. opened' \in Nat /\ wsock' \in Nat /\ arrived' \in Nat
    BY DEF IInv, TypeOK
  <2>6. queue' \in Seq(Policies) /\ rwaiting' \subseteq Threads
    BY DEF IInv, TypeOK
  <2> QED BY <2>1, <2>2, <2>3, <2>4, <2>5, <2>6 DEF IInv, TypeOK
<1>2. LockInv'
  BY DEF IInv, TypeOK, LockInv
<1>3. JoinInv'
  BY DEF IInv, TypeOK, LockInv, JoinInv, JoinOnce, JoinPlaces, WorkerInv
<1>4. JoinOnce'
  BY SMTT(30) DEF IInv, TypeOK, LockInv, JoinInv, JoinOnce, JoinPlaces, WorkerInv
<1>5. WorkerInv'
  BY DEF IInv, TypeOK, LockInv, JoinInv, WorkerInv
<1>6. SocketInv' /\ NoSocketLeak'
  BY DEF IInv, TypeOK, LockInv, JoinInv, WorkerInv, SocketInv, NoSocketLeak
<1>7. EventInv' /\ QueuePolicy'
  BY DEF IInv, TypeOK, LockInv, WorkerInv, EventInv, QueuePolicy
<1> QED BY <1>1, <1>2, <1>3, <1>4, <1>5, <1>6, <1>7 DEF IInv

\* The join itself: the worker is gone, the joiner has not locked yet
LEMMA JoinIInv ==
  ASSUME IInv, NEW t \in Threads, ConnectJoin(t) \/ DisconnectJoin(t)
  PROVE  IInv'
<1> USE DEF ConnectJoin, DisconnectJoin, Join, Goto
<1>1. TypeOK'
  <2>1. pc' \in [Threads -> CallPlaces] /\ wpc' \in WorkerPlaces
    BY DEF IInv, TypeOK, CallPlaces, WorkerPlaces
  <2>2. calls' \in [Threads -> Nat]
    BY DEF IInv, TypeOK
  <2>3. waiting' \subseteq Threads /\ lifecycle' \in Threads \cup {None}
    BY DEF IInv, TypeOK
  <2>4. sock' \in Nat /\ open' \subseteq Nat
    BY DEF IInv, TypeOK
  <2>5. opened' \in Nat /\ wsock' \in Nat /\ arrived' \in Nat
    BY DEF IInv, TypeOK
  <2>6. queue' \in Seq(Policies) /\ rwaiting' \subseteq Threads
    BY DEF IInv, TypeOK
  <2> QED BY <2>1, <2>2, <2>3, <2>4, <2>5, <2>6 DEF IInv, TypeOK
<1>2. LockInv'
  BY DEF IInv, TypeOK, LockInv
<1>3. JoinInv'
  BY DEF IInv, TypeOK, LockInv, JoinInv, JoinOnce, JoinPlaces, WorkerInv
<1>4. JoinOnce'
  BY DEF IInv, TypeOK, LockInv, JoinInv, JoinOnce, JoinPlaces, WorkerInv
<1>5. WorkerInv'
  BY DEF IInv, TypeOK, LockInv, JoinInv, WorkerInv
<1>6. SocketInv' /\ NoSocketLeak'
  BY DEF IInv, TypeOK, LockInv, JoinInv, WorkerInv, SocketInv, NoSocketLeak
<1>7. EventInv' /\ QueuePolicy'
  BY DEF IInv, TypeOK, LockInv, WorkerInv, EventInv, QueuePolicy
<1> QED BY <1>1, <1>2, <1>3, <1>4, <1>5, <1>6, <1>7 DEF IInv

\* What follows the join: nothing of the old session is left
LEMMA JoinedIInv ==
  ASSUME IInv, NEW t \in Threads, ConnectJoined(t) \/ DisconnectJoined(t)
  PROVE  IInv'
<1> USE DEF ConnectJoined, DisconnectJoined, Joined, CloseClientSocket, Goto
<1>1. TypeOK'
  <2>1. pc' \in [Threads -> CallPlaces] /\ wpc' \in WorkerPlaces
    BY DEF IInv, TypeOK, CallPlaces, WorkerPlaces
  <2>2. calls' \in [Threads -> Nat]
    BY DEF IInv, TypeOK
  <2>3. waiting' \subseteq Threads /\ lifecycle' \in Threads \cup {None}
    BY DEF IInv, TypeOK
  <2>4. sock' \in Nat /\ open' \subseteq Nat
    BY CloseTypes DEF IInv, TypeOK
  <2>5. opened' \in Nat /\ wsock' \in Nat /\ arrived' \in Nat
    BY DEF IInv, TypeOK
  <2>6. queue' \in Seq(Policies) /\ rwaiting' \subseteq Threads
    BY DEF IInv, TypeOK
  <2> QED BY <2>1, <2>2, <2>3, <2>4, <2>5, <2>6 DEF IInv, TypeOK
<1>2. LockInv'
  BY DEF IInv, TypeOK, LockInv
<1>3. JoinInv'
  BY DEF IInv, TypeOK, LockInv, JoinInv, JoinOnce, JoinPlaces, WorkerInv
<1>4. JoinOnce'
  BY DEF IInv, TypeOK, LockInv, JoinInv, JoinOnce, JoinPlaces, WorkerInv
<1>5. WorkerInv'
  BY DEF IInv, TypeOK, LockInv, JoinInv, WorkerInv
<1>6. SocketInv' /\ NoSocketLeak'
  BY DEF IInv, TypeOK, LockInv, JoinInv, WorkerInv, SocketInv, NoSocketLeak
<1>7. EventInv' /\ QueuePolicy'
  BY DEF IInv, TypeOK, LockInv, WorkerInv, EventInv, QueuePolicy
<1> QED BY <1>1, <1>2, <1>3, <1>4, <1>5, <1>6, <1>7 DEF IInv

\* The opening of the socket
LEMMA OpenIInv ==
  ASSUME IInv, NEW t \in Threads, ConnectOpen(t)
  PROVE  IInv'
<1> USE DEF ConnectOpen, Goto
<1>1. TypeOK'
  <2>1. pc' \in [Threads -> CallPlaces] /\ wpc' \in WorkerPlaces
    BY DEF IInv, TypeOK, CallPlaces, WorkerPlaces
  <2>2. calls' \in [Threads -> Nat]
    BY DEF IInv, TypeOK
  <2>3. waiting' \subseteq Threads /\ lifecycle' \in Threads \cup {None}
    BY DEF IInv, TypeOK
  <2>4. sock' \in Nat /\ open' \subseteq Nat
    <3>1. opened \in Nat /\ sock \in Nat /\ open \subseteq Nat
      BY DEF IInv, TypeOK
    <3>2. opened + 1 \in Nat
      BY <3>1
    <3>3. /\ sock' = sock \/ sock' = opened + 1
          /\ open' = open \/ open' = open \cup {opened + 1}
      OBVIOUS
    <3> QED BY <3>1, <3>2, <3>3
  <2>5. opened' \in Nat /\ wsock' \in Nat /\ arrived' \in Nat
    BY DEF IInv, TypeOK
  <2>6. queue' \in Seq(Policies) /\ rwaiting' \subseteq Threads
    BY DEF IInv, TypeOK
  <2> QED BY <2>1, <2>2, <2>3, <2>4, <2>5, <2>6 DEF IInv, TypeOK
<1>2. LockInv'
  BY DEF IInv, TypeOK, LockInv
<1>3. JoinInv'
  BY DEF IInv, TypeOK, LockInv, JoinInv, JoinOnce, JoinPlaces, WorkerInv
<1>4. JoinOnce'
  BY DEF IInv, TypeOK, LockInv, JoinInv, JoinOnce, JoinPlaces, WorkerInv
<1>5. WorkerInv'
  BY DEF IInv, TypeOK, LockInv, JoinInv, WorkerInv
<1>6. SocketInv' /\ NoSocketLeak'
  BY DEF IInv, TypeOK, LockInv, JoinInv, WorkerInv, SocketInv, NoSocketLeak
<1>7. EventInv' /\ QueuePolicy'
  BY DEF IInv, TypeOK, LockInv, WorkerInv, EventInv, QueuePolicy
<1> QED BY <1>1, <1>2, <1>3, <1>4, <1>5, <1>6, <1>7 DEF IInv

\* The start of the worker, or its failure
LEMMA SpawnIInv ==
  ASSUME IInv, NEW t \in Threads, ConnectSpawn(t) \/ ConnectSpawnFails(t)
  PROVE  IInv'
<1> USE DEF ConnectSpawn, ConnectSpawnFails, CloseClientSocket, Goto
<1>1. TypeOK'
  <2>1. pc' \in [Threads -> CallPlaces] /\ wpc' \in WorkerPlaces
    BY DEF IInv, TypeOK, CallPlaces, WorkerPlaces
  <2>2. calls' \in [Threads -> Nat]
    BY DEF IInv, TypeOK
  <2>3. waiting' \subseteq Threads /\ lifecycle' \in Threads \cup {None}
    BY DEF IInv, TypeOK
  <2>4. sock' \in Nat /\ open' \subseteq Nat
    BY CloseTypes DEF IInv, TypeOK
  <2>5. opened' \in Nat /\ wsock' \in Nat /\ arrived' \in Nat
    BY DEF IInv, TypeOK
  <2>6. queue' \in Seq(Policies) /\ rwaiting' \subseteq Threads
    BY DEF IInv, TypeOK
  <2> QED BY <2>1, <2>2, <2>3, <2>4, <2>5, <2>6 DEF IInv, TypeOK
<1>2. LockInv'
  BY DEF IInv, TypeOK, LockInv
<1>3. JoinInv'
  BY DEF IInv, TypeOK, LockInv, JoinInv, JoinOnce, JoinPlaces, WorkerInv
<1>4. JoinOnce'
  BY DEF IInv, TypeOK, LockInv, JoinInv, JoinOnce, JoinPlaces, WorkerInv
<1>5. WorkerInv'
  <2>1. CASE ConnectSpawn(t)
    <3>1. pc'[t] = "connectAssign" /\ wpc' = "start"
      BY <2>1 DEF IInv, TypeOK
    <3>2. \A u \in Threads : u # t => pc'[u] \notin {"connectSpawn", "connectOpen",
                                                   "connectJoined", "disconnectJoined"}
      BY <2>1 DEF IInv, TypeOK, LockInv, JoinInv, JoinOnce, JoinPlaces
    <3> QED BY <3>1, <3>2 DEF WorkerInv
  <2>2. CASE ConnectSpawnFails(t)
    BY <2>2 DEF IInv, TypeOK, LockInv, JoinInv, WorkerInv
  <2> QED BY <2>1, <2>2
<1>6. SocketInv' /\ NoSocketLeak'
  <2>1. CASE ConnectSpawn(t)
    <3>1. pc'[t] = "connectAssign" /\ wpc' = "start"
      BY <2>1 DEF IInv, TypeOK
    <3>2. socketOpen
      BY <2>1 DEF IInv, SocketInv
    <3> QED BY <3>1, <3>2, <2>1 DEF IInv, SocketInv, NoSocketLeak
  <2>2. CASE ConnectSpawnFails(t)
    BY <2>2 DEF IInv, TypeOK, LockInv, JoinInv, WorkerInv, SocketInv, NoSocketLeak
  <2> QED BY <2>1, <2>2
<1>7. EventInv' /\ QueuePolicy'
  BY DEF IInv, TypeOK, LockInv, WorkerInv, EventInv, QueuePolicy
<1> QED BY <1>1, <1>2, <1>3, <1>4, <1>5, <1>6, <1>7 DEF IInv

\* The worker's handle is stored and the mutex released
LEMMA AssignIInv ==
  ASSUME IInv, NEW t \in Threads, ConnectAssign(t)
  PROVE  IInv'
<1> USE DEF ConnectAssign, Goto
<1>1. TypeOK'
  <2>1. pc' \in [Threads -> CallPlaces] /\ wpc' \in WorkerPlaces
    BY DEF IInv, TypeOK, CallPlaces, WorkerPlaces
  <2>2. calls' \in [Threads -> Nat]
    BY DEF IInv, TypeOK
  <2>3. waiting' \subseteq Threads /\ lifecycle' \in Threads \cup {None}
    BY DEF IInv, TypeOK
  <2>4. sock' \in Nat /\ open' \subseteq Nat
    BY DEF IInv, TypeOK
  <2>5. opened' \in Nat /\ wsock' \in Nat /\ arrived' \in Nat
    BY DEF IInv, TypeOK
  <2>6. queue' \in Seq(Policies) /\ rwaiting' \subseteq Threads
    BY DEF IInv, TypeOK
  <2> QED BY <2>1, <2>2, <2>3, <2>4, <2>5, <2>6 DEF IInv, TypeOK
<1>2. LockInv'
  BY DEF IInv, TypeOK, LockInv
<1>3. JoinInv'
  BY DEF IInv, TypeOK, LockInv, JoinInv, JoinOnce, JoinPlaces, WorkerInv
<1>4. JoinOnce'
  BY DEF IInv, TypeOK, LockInv, JoinInv, JoinOnce, JoinPlaces, WorkerInv
<1>5. WorkerInv'
  BY DEF IInv, TypeOK, LockInv, JoinInv, WorkerInv
<1>6. SocketInv' /\ NoSocketLeak'
  BY DEF IInv, TypeOK, LockInv, JoinInv, WorkerInv, SocketInv, NoSocketLeak
<1>7. EventInv' /\ QueuePolicy'
  BY DEF IInv, TypeOK, LockInv, WorkerInv, EventInv, QueuePolicy
<1> QED BY <1>1, <1>2, <1>3, <1>4, <1>5, <1>6, <1>7 DEF IInv

\* The entry of disconnect, and its return from the condition wait
LEMMA DisconnectEntryIInv ==
  ASSUME IInv, NEW t \in Threads, Disconnect(t) \/ DisconnectWake(t)
  PROVE  IInv'
<1> USE DEF Disconnect, DisconnectWake, DisconnectEntry, DisconnectAtOnce, DisconnectWaits,
            DisconnectJoins, CloseClientSocket, OnWorker, Goto, CanCall, Count
<1>1. TypeOK'
  <2>1. pc' \in [Threads -> CallPlaces] /\ wpc' \in WorkerPlaces
    BY DEF IInv, TypeOK, CallPlaces, WorkerPlaces
  <2>2. calls' \in [Threads -> Nat]
    BY DEF IInv, TypeOK
  <2>3. waiting' \subseteq Threads /\ lifecycle' \in Threads \cup {None}
    BY DEF IInv, TypeOK
  <2>4. sock' \in Nat /\ open' \subseteq Nat
    BY CloseTypes DEF IInv, TypeOK
  <2>5. opened' \in Nat /\ wsock' \in Nat /\ arrived' \in Nat
    BY DEF IInv, TypeOK
  <2>6. queue' \in Seq(Policies) /\ rwaiting' \subseteq Threads
    BY DEF IInv, TypeOK
  <2> QED BY <2>1, <2>2, <2>3, <2>4, <2>5, <2>6 DEF IInv, TypeOK
<1>2. LockInv'
  BY DEF IInv, TypeOK, LockInv
<1>3. JoinInv'
  BY DEF IInv, TypeOK, LockInv, JoinInv, JoinOnce, JoinPlaces, WorkerInv
<1>4. JoinOnce'
  BY SMTT(30) DEF IInv, TypeOK, LockInv, JoinInv, JoinOnce, JoinPlaces, WorkerInv
<1>5. WorkerInv'
  BY DEF IInv, TypeOK, LockInv, JoinInv, WorkerInv
<1>6. SocketInv' /\ NoSocketLeak'
  BY DEF IInv, TypeOK, LockInv, JoinInv, WorkerInv, SocketInv, NoSocketLeak
<1>7. EventInv' /\ QueuePolicy'
  BY DEF IInv, TypeOK, LockInv, WorkerInv, EventInv, QueuePolicy
<1> QED BY <1>1, <1>2, <1>3, <1>4, <1>5, <1>6, <1>7 DEF IInv

\* send, and a wake-up without a notification
LEMMA SendIInv ==
  ASSUME IInv, NEW t \in Threads, Send(t) \/ SendTo(t) \/ SpuriousWake(t)
  PROVE  IInv'
<1> USE DEF Send, SendTo, SpuriousWake, Goto, CanCall, Count
<1>1. TypeOK'
  <2>1. pc' \in [Threads -> CallPlaces] /\ wpc' \in WorkerPlaces
    BY DEF IInv, TypeOK, CallPlaces, WorkerPlaces
  <2>2. calls' \in [Threads -> Nat]
    BY DEF IInv, TypeOK
  <2>3. waiting' \subseteq Threads /\ lifecycle' \in Threads \cup {None}
    BY DEF IInv, TypeOK
  <2>4. sock' \in Nat /\ open' \subseteq Nat
    BY DEF IInv, TypeOK
  <2>5. opened' \in Nat /\ wsock' \in Nat /\ arrived' \in Nat
    BY DEF IInv, TypeOK
  <2>6. queue' \in Seq(Policies) /\ rwaiting' \subseteq Threads
    BY DEF IInv, TypeOK
  <2> QED BY <2>1, <2>2, <2>3, <2>4, <2>5, <2>6 DEF IInv, TypeOK
<1>2. LockInv'
  BY DEF IInv, TypeOK, LockInv
<1>3. JoinInv'
  BY DEF IInv, TypeOK, LockInv, JoinInv, JoinOnce, JoinPlaces, WorkerInv
<1>4. JoinOnce'
  BY DEF IInv, TypeOK, LockInv, JoinInv, JoinOnce, JoinPlaces, WorkerInv
<1>5. WorkerInv'
  BY DEF IInv, TypeOK, LockInv, JoinInv, WorkerInv
<1>6. SocketInv' /\ NoSocketLeak'
  BY DEF IInv, TypeOK, LockInv, JoinInv, WorkerInv, SocketInv, NoSocketLeak
<1>7. EventInv' /\ QueuePolicy'
  BY DEF IInv, TypeOK, LockInv, WorkerInv, EventInv, QueuePolicy
<1> QED BY <1>1, <1>2, <1>3, <1>4, <1>5, <1>6, <1>7 DEF IInv

\* A change of the settings: there is no worker, and no event is queued
LEMMA InitFromJsonIInv ==
  ASSUME IInv, NEW t \in Threads, NEW p \in Policies, InitFromJson(t, p)
  PROVE  IInv'
<1> USE DEF InitFromJson, CanCall, Count
<1>1. TypeOK'
  <2>1. pc' \in [Threads -> CallPlaces] /\ wpc' \in WorkerPlaces
    BY DEF IInv, TypeOK, CallPlaces, WorkerPlaces
  <2>2. calls' \in [Threads -> Nat]
    BY DEF IInv, TypeOK
  <2>3. waiting' \subseteq Threads /\ lifecycle' \in Threads \cup {None}
    BY DEF IInv, TypeOK
  <2>4. sock' \in Nat /\ open' \subseteq Nat
    BY DEF IInv, TypeOK
  <2>5. opened' \in Nat /\ wsock' \in Nat /\ arrived' \in Nat
    BY DEF IInv, TypeOK
  <2>6. queue' \in Seq(Policies) /\ rwaiting' \subseteq Threads
    BY DEF IInv, TypeOK
  <2> QED BY <2>1, <2>2, <2>3, <2>4, <2>5, <2>6 DEF IInv, TypeOK
<1>2. LockInv'
  BY DEF IInv, TypeOK, LockInv
<1>3. JoinInv'
  BY DEF IInv, TypeOK, LockInv, JoinInv, JoinOnce, JoinPlaces, WorkerInv
<1>4. JoinOnce'
  BY DEF IInv, TypeOK, LockInv, JoinInv, JoinOnce, JoinPlaces, WorkerInv
<1>5. WorkerInv'
  BY DEF IInv, TypeOK, LockInv, JoinInv, WorkerInv
<1>6. SocketInv' /\ NoSocketLeak'
  BY DEF IInv, TypeOK, LockInv, JoinInv, WorkerInv, SocketInv, NoSocketLeak
<1>7. EventInv' /\ QueuePolicy'
  BY DEF IInv, TypeOK, LockInv, WorkerInv, EventInv, QueuePolicy
<1> QED BY <1>1, <1>2, <1>3, <1>4, <1>5, <1>6, <1>7 DEF IInv

\* The receive calls only take from the queue
LEMMA ReceiveIInv ==
  ASSUME IInv, NEW t \in Threads, Receive(t) \/ ReceiveBlocking(t) \/ ClearQueue(t)
  PROVE  IInv'
<1> USE DEF Receive, ReceiveBlocking, ClearQueue, Pop, Goto, CanCall, Count
<1>1. TypeOK'
  <2>1. pc' \in [Threads -> CallPlaces] /\ wpc' \in WorkerPlaces
    BY DEF IInv, TypeOK, CallPlaces, WorkerPlaces
  <2>2. calls' \in [Threads -> Nat]
    BY DEF IInv, TypeOK
  <2>3. waiting' \subseteq Threads /\ lifecycle' \in Threads \cup {None}
    BY DEF IInv, TypeOK
  <2>4. sock' \in Nat /\ open' \subseteq Nat
    BY DEF IInv, TypeOK
  <2>5. opened' \in Nat /\ wsock' \in Nat /\ arrived' \in Nat
    BY DEF IInv, TypeOK
  <2>6. queue' \in Seq(Policies) /\ rwaiting' \subseteq Threads
    <3>1. \/ queue' = queue \/ queue' = <<>>
          \/ queue # <<>> /\ queue' = Tail(queue)
      OBVIOUS
    <3>2. queue \in Seq(Policies) /\ <<>> \in Seq(Policies)
      BY DEF IInv, TypeOK
    <3>3. queue # <<>> => Tail(queue) \in Seq(Policies)
      BY PopQueue DEF IInv
    <3> QED BY <3>1, <3>2, <3>3 DEF IInv, TypeOK
  <2> QED BY <2>1, <2>2, <2>3, <2>4, <2>5, <2>6 DEF IInv, TypeOK
<1>2. LockInv'
  BY DEF IInv, TypeOK, LockInv
<1>3. JoinInv'
  BY DEF IInv, TypeOK, LockInv, JoinInv, JoinOnce, JoinPlaces, WorkerInv
<1>4. JoinOnce'
  BY DEF IInv, TypeOK, LockInv, JoinInv, JoinOnce, JoinPlaces, WorkerInv
<1>5. WorkerInv'
  BY DEF IInv, TypeOK, LockInv, JoinInv, WorkerInv
<1>6. SocketInv' /\ NoSocketLeak'
  BY DEF IInv, TypeOK, LockInv, JoinInv, WorkerInv, SocketInv, NoSocketLeak
<1>7. EventInv' /\ QueuePolicy'
  <2>1. EventInv'
    BY DEF IInv, EventInv
  <2>2. QueuePolicy'
    BY PopQueue DEF IInv, QueuePolicy
  <2> QED BY <2>1, <2>2
<1> QED BY <1>1, <1>2, <1>3, <1>4, <1>5, <1>6, <1>7 DEF IInv

\* A blocking receive that goes on
LEMMA ReceiveWakeIInv ==
  ASSUME IInv, NEW t \in Threads, ReceiveWake(t) \/ ReceiveTimeout(t) \/ ReceiveLast(t)
  PROVE  IInv'
<1> USE DEF ReceiveWake, ReceiveTimeout, ReceiveLast, Pop, Goto
<1>1. TypeOK'
  <2>1. pc' \in [Threads -> CallPlaces] /\ wpc' \in WorkerPlaces
    BY DEF IInv, TypeOK, CallPlaces, WorkerPlaces
  <2>2. calls' \in [Threads -> Nat]
    BY DEF IInv, TypeOK
  <2>3. waiting' \subseteq Threads /\ lifecycle' \in Threads \cup {None}
    BY DEF IInv, TypeOK
  <2>4. sock' \in Nat /\ open' \subseteq Nat
    BY DEF IInv, TypeOK
  <2>5. opened' \in Nat /\ wsock' \in Nat /\ arrived' \in Nat
    BY DEF IInv, TypeOK
  <2>6. queue' \in Seq(Policies) /\ rwaiting' \subseteq Threads
    <3>1. \/ queue' = queue \/ queue' = <<>>
          \/ queue # <<>> /\ queue' = Tail(queue)
      OBVIOUS
    <3>2. queue \in Seq(Policies) /\ <<>> \in Seq(Policies)
      BY DEF IInv, TypeOK
    <3>3. queue # <<>> => Tail(queue) \in Seq(Policies)
      BY PopQueue DEF IInv
    <3> QED BY <3>1, <3>2, <3>3 DEF IInv, TypeOK
  <2> QED BY <2>1, <2>2, <2>3, <2>4, <2>5, <2>6 DEF IInv, TypeOK
<1>2. LockInv'
  BY DEF IInv, TypeOK, LockInv
<1>3. JoinInv'
  BY DEF IInv, TypeOK, LockInv, JoinInv, JoinOnce, JoinPlaces, WorkerInv
<1>4. JoinOnce'
  BY DEF IInv, TypeOK, LockInv, JoinInv, JoinOnce, JoinPlaces, WorkerInv
<1>5. WorkerInv'
  BY DEF IInv, TypeOK, LockInv, JoinInv, WorkerInv
<1>6. SocketInv' /\ NoSocketLeak'
  BY DEF IInv, TypeOK, LockInv, JoinInv, WorkerInv, SocketInv, NoSocketLeak
<1>7. EventInv' /\ QueuePolicy'
  <2>1. EventInv'
    BY DEF IInv, EventInv
  <2>2. QueuePolicy'
    BY PopQueue DEF IInv, QueuePolicy
  <2> QED BY <2>1, <2>2
<1> QED BY <1>1, <1>2, <1>3, <1>4, <1>5, <1>6, <1>7 DEF IInv

\* The worker before it has a datagram
LEMMA WorkerLoopIInv ==
  ASSUME IInv, WorkerStart \/ WorkerLoop \/ WorkerPollNothing \/ WorkerPollFails \/ WorkerPollReady
  PROVE  IInv'
<1> USE DEF WorkerStart, WorkerLoop, WorkerPollNothing, WorkerPollFails, WorkerPollReady, WorkerGoto
<1>1. TypeOK'
  <2>1. pc' \in [Threads -> CallPlaces] /\ wpc' \in WorkerPlaces
    BY DEF IInv, TypeOK, CallPlaces, WorkerPlaces
  <2>2. calls' \in [Threads -> Nat]
    BY DEF IInv, TypeOK
  <2>3. waiting' \subseteq Threads /\ lifecycle' \in Threads \cup {None}
    BY DEF IInv, TypeOK
  <2>4. sock' \in Nat /\ open' \subseteq Nat
    BY DEF IInv, TypeOK
  <2>5. opened' \in Nat /\ wsock' \in Nat /\ arrived' \in Nat
    BY DEF IInv, TypeOK
  <2>6. queue' \in Seq(Policies) /\ rwaiting' \subseteq Threads
    BY DEF IInv, TypeOK
  <2> QED BY <2>1, <2>2, <2>3, <2>4, <2>5, <2>6 DEF IInv, TypeOK
<1>2. LockInv'
  BY DEF IInv, TypeOK, LockInv
<1>3. JoinInv'
  BY DEF IInv, TypeOK, LockInv, JoinInv, JoinOnce, JoinPlaces, WorkerInv
<1>4. JoinOnce'
  BY DEF IInv, TypeOK, LockInv, JoinInv, JoinOnce, JoinPlaces, WorkerInv
<1>5. WorkerInv'
  BY DEF IInv, TypeOK, LockInv, JoinInv, WorkerInv
<1>6. SocketInv' /\ NoSocketLeak'
  BY DEF IInv, TypeOK, LockInv, JoinInv, WorkerInv, SocketInv, NoSocketLeak
<1>7. EventInv' /\ QueuePolicy'
  BY DEF IInv, TypeOK, LockInv, WorkerInv, EventInv, QueuePolicy
<1> QED BY <1>1, <1>2, <1>3, <1>4, <1>5, <1>6, <1>7 DEF IInv

\* The worker with a datagram, and its callbacks
LEMMA WorkerRecvIInv ==
  ASSUME IInv, WorkerDiscard \/ WorkerNoMemory \/ WorkerAccept \/ CallbackReturns
  PROVE  IInv'
<1> USE DEF WorkerDiscard, WorkerNoMemory, WorkerAccept, CallbackReturns, AfterCallbackEv, WorkerGoto
<1>1. TypeOK'
  <2>1. pc' \in [Threads -> CallPlaces] /\ wpc' \in WorkerPlaces
    BY DEF IInv, TypeOK, CallPlaces, WorkerPlaces
  <2>2. calls' \in [Threads -> Nat]
    BY DEF IInv, TypeOK
  <2>3. waiting' \subseteq Threads /\ lifecycle' \in Threads \cup {None}
    BY DEF IInv, TypeOK
  <2>4. sock' \in Nat /\ open' \subseteq Nat
    BY DEF IInv, TypeOK
  <2>5. opened' \in Nat /\ wsock' \in Nat /\ arrived' \in Nat
    BY DEF IInv, TypeOK
  <2>6. queue' \in Seq(Policies) /\ rwaiting' \subseteq Threads
    BY DEF IInv, TypeOK
  <2> QED BY <2>1, <2>2, <2>3, <2>4, <2>5, <2>6 DEF IInv, TypeOK
<1>2. LockInv'
  BY DEF IInv, TypeOK, LockInv
<1>3. JoinInv'
  BY DEF IInv, TypeOK, LockInv, JoinInv, JoinOnce, JoinPlaces, WorkerInv
<1>4. JoinOnce'
  BY DEF IInv, TypeOK, LockInv, JoinInv, JoinOnce, JoinPlaces, WorkerInv
<1>5. WorkerInv'
  BY DEF IInv, TypeOK, LockInv, JoinInv, WorkerInv
<1>6. SocketInv' /\ NoSocketLeak'
  BY DEF IInv, TypeOK, LockInv, JoinInv, WorkerInv, SocketInv, NoSocketLeak
<1>7. EventInv' /\ QueuePolicy'
  BY DEF IInv, TypeOK, LockInv, WorkerInv, EventInv, QueuePolicy
<1> QED BY <1>1, <1>2, <1>3, <1>4, <1>5, <1>6, <1>7 DEF IInv

\* The worker queues an event, or ends
LEMMA WorkerEndIInv ==
  ASSUME IInv, WorkerEnqueue \/ WorkerDrop \/ WorkerExit
  PROVE  IInv'
<1> USE DEF WorkerEnqueue, WorkerDrop, WorkerExit, WorkerGoto
<1>1. TypeOK'
  <2>1. pc' \in [Threads -> CallPlaces] /\ wpc' \in WorkerPlaces
    BY DEF IInv, TypeOK, CallPlaces, WorkerPlaces
  <2>2. calls' \in [Threads -> Nat]
    BY DEF IInv, TypeOK
  <2>3. waiting' \subseteq Threads /\ lifecycle' \in Threads \cup {None}
    BY DEF IInv, TypeOK
  <2>4. sock' \in Nat /\ open' \subseteq Nat
    BY DEF IInv, TypeOK
  <2>5. opened' \in Nat /\ wsock' \in Nat /\ arrived' \in Nat
    BY DEF IInv, TypeOK
  <2>6. queue' \in Seq(Policies) /\ rwaiting' \subseteq Threads
    BY AppendQueue DEF IInv, TypeOK, EventInv
  <2> QED BY <2>1, <2>2, <2>3, <2>4, <2>5, <2>6 DEF IInv, TypeOK
<1>2. LockInv'
  BY DEF IInv, TypeOK, LockInv
<1>3. JoinInv'
  BY DEF IInv, TypeOK, LockInv, JoinInv, JoinOnce, JoinPlaces, WorkerInv
<1>4. JoinOnce'
  BY DEF IInv, TypeOK, LockInv, JoinInv, JoinOnce, JoinPlaces, WorkerInv
<1>5. WorkerInv'
  BY DEF IInv, TypeOK, LockInv, JoinInv, WorkerInv
<1>6. SocketInv' /\ NoSocketLeak'
  BY DEF IInv, TypeOK, LockInv, JoinInv, WorkerInv, SocketInv, NoSocketLeak
<1>7. EventInv' /\ QueuePolicy'
  <2>1. EventInv'
    BY DEF IInv, EventInv
  <2>2. QueuePolicy'
    BY AppendQueue DEF IInv, EventInv, QueuePolicy
  <2> QED BY <2>1, <2>2
<1> QED BY <1>1, <1>2, <1>3, <1>4, <1>5, <1>6, <1>7 DEF IInv

-----------------------------------------------------------------------------
\* Every step preserves the invariant.
LEMMA NextIInv == IInv /\ [Next]_vars => IInv'
<1> SUFFICES ASSUME IInv, [Next]_vars PROVE IInv'
  OBVIOUS
<1>1. ASSUME NEW t \in Threads, Call(t) PROVE IInv'
  BY <1>1, ConnectEntryIInv, DisconnectEntryIInv, SendIInv, InitFromJsonIInv, ReceiveIInv DEF Call
<1>2. ASSUME NEW t \in Threads, Continue(t) PROVE IInv'
  BY <1>2, ConnectEntryIInv, JoinIInv, JoinedIInv, OpenIInv, SpawnIInv, AssignIInv,
     DisconnectEntryIInv, SendIInv, ReceiveWakeIInv DEF Continue
<1>3. ASSUME NEW t \in Threads, SpuriousWake(t) PROVE IInv'
  BY <1>3, SendIInv
<1>4. CASE Worker
  BY <1>4, WorkerLoopIInv, WorkerRecvIInv, WorkerEndIInv DEF Worker
<1>5. CASE UNCHANGED vars
  BY <1>5 DEF vars, IInv, TypeOK, LockInv, JoinInv, JoinOnce, JoinPlaces, WorkerInv, SocketInv,
              NoSocketLeak, EventInv, QueuePolicy
<1> QED BY <1>1, <1>2, <1>3, <1>4, <1>5 DEF Next

\* The invariant holds throughout every behaviour.
THEOREM DatagramInvariant == Spec => []IInv
<1> QED BY InitIInv, NextIInv, PTL DEF Spec

\* The variables keep their types.
THEOREM DatagramTypes == Spec => []TypeOK
<1>1. IInv => TypeOK
  BY DEF IInv
<1> QED BY <1>1, DatagramInvariant, PTL

\* receiveLoop polls and reads only the open socket of its own session, and
\* send never uses a socket that has been closed.
THEOREM SocketsUsedAreOpen == Spec => []UsedSocketIsOpen
<1>1. IInv => UsedSocketIsOpen
  BY DEF IInv, SocketInv, NoSocketLeak, UsedSocketIsOpen
<1> QED BY <1>1, DatagramInvariant, PTL

\* No socket leaks and none is closed twice.
THEOREM SocketsAccountedFor == Spec => []NoSocketLeak
<1>1. IInv => NoSocketLeak
  BY DEF IInv
<1> QED BY <1>1, DatagramInvariant, PTL

\* A client that says it is connected has a worker, or is about to start it.
THEOREM ConnectedHasWorker == Spec => []ConnectedIsServed
<1>1. IInv => ConnectedIsServed
  BY DEF IInv, LockInv, WorkerInv, ConnectedIsServed
<1> QED BY <1>1, DatagramInvariant, PTL

\* connect and disconnect join the worker once, and never from itself.
THEOREM WorkerJoinedOnce == Spec => []JoinOnce
<1>1. IInv => JoinOnce
  BY DEF IInv
<1> QED BY <1>1, DatagramInvariant, PTL

\* Every queued event was accepted under the settings in force.
THEOREM QueueFollowsPolicy == Spec => []QueuePolicy
<1>1. IInv => QueuePolicy
  BY DEF IInv
<1> QED BY <1>1, DatagramInvariant, PTL
-----------------------------------------------------------------------------
(* The waits of receiveBlocking.                                            *)

\* What comes and goes elsewhere does not matter to the waiting threads.
LEMMA WakeFrame ==
  ASSUME WakeInv, UNCHANGED queueVars,
         \A u \in Threads : \A l \in {"receiveWait", "receiveLast"} : pc[u] = l <=> pc'[u] = l,
         rwaiting \subseteq Threads
  PROVE  WakeInv'
<1>1. Awake' = Awake
  BY DEF Awake
<1> QED BY <1>1 DEF WakeInv, NoLostWakeup

\* Taking an event, or emptying the queue, leaves fewer events.
LEMMA WakeFewer ==
  ASSUME WakeInv, queue' = <<>> \/ (queue # <<>> /\ queue' = Tail(queue)) \/ queue' = queue,
         UNCHANGED <<pc, rwaiting>>, queue \in Seq(Policies)
  PROVE  WakeInv'
<1>1. Awake' = Awake
  BY DEF Awake
<1>2. Len(queue') \in Nat /\ Len(queue) \in Nat /\ Len(queue') <= Len(queue)
  OBVIOUS
<1>3. Cardinality(Awake) \in Nat
  BY FS_CardinalityType DEF WakeInv
<1> QED BY <1>1, <1>2, <1>3 DEF WakeInv, NoLostWakeup

\* A thread that stops being awake has taken an event or has found none.
LEMMA WakeLeaves ==
  ASSUME WakeInv, NEW t \in Awake, Awake' = Awake \ {t}, queue \in Seq(Policies),
         IF queue # <<>> THEN queue' = Tail(queue) ELSE queue' = queue,
         rwaiting' # {} => rwaiting # {} \/ queue = <<>>,
         \A u \in rwaiting' : pc'[u] = "receiveWait"
  PROVE  WakeInv'
<1>1. IsFiniteSet(Awake) /\ Cardinality(Awake) \in Nat
  BY FS_CardinalityType DEF WakeInv
<1>2. IsFiniteSet(Awake') /\ Cardinality(Awake') = Cardinality(Awake) - 1
  BY <1>1, FS_RemoveElement
<1>3. Cardinality(Awake') \in Nat
  BY <1>2, FS_CardinalityType
<1>4. CASE queue # <<>>
  <2>1. Len(queue) \in Nat /\ Len(queue') = Len(queue) - 1
    BY <1>4
  <2> QED BY <1>1, <1>2, <1>4, <2>1 DEF WakeInv, NoLostWakeup
<1>5. CASE queue = <<>>
  <2>1. Len(queue') = 0
    BY <1>5
  <2> QED BY <1>2, <1>3, <2>1 DEF WakeInv, NoLostWakeup
<1> QED BY <1>4, <1>5

\* A thread joins those that are awake: by a time-out, or for the event that
\* is queued.
LEMMA WakeJoins ==
  ASSUME WakeInv, NEW t \in rwaiting, Awake' = Awake \cup {t}, rwaiting' = rwaiting \ {t},
         queue \in Seq(Policies), queue' = queue \/ queue' = Append(queue, event), event \in Policies,
         \A u \in rwaiting' : pc'[u] = "receiveWait"
  PROVE  WakeInv'
<1>1. IsFiniteSet(Awake) /\ Cardinality(Awake) \in Nat /\ t \notin Awake
  BY FS_CardinalityType DEF WakeInv, Awake
<1>2. IsFiniteSet(Awake') /\ Cardinality(Awake') = Cardinality(Awake) + 1
  BY <1>1, FS_AddElement
<1>3. Len(queue) \in Nat /\ (Len(queue') = Len(queue) \/ Len(queue') = Len(queue) + 1)
  OBVIOUS
<1> QED BY <1>1, <1>2, <1>3 DEF WakeInv, NoLostWakeup

\* The calls other than the blocking receive.
LEMMA CallWakeInv ==
  ASSUME IInv, WakeInv, NEW t \in Threads,
         \/ Connect(t) \/ Disconnect(t) \/ Send(t) \/ Receive(t) \/ ClearQueue(t)
         \/ \E p \in Policies : InitFromJson(t, p)
  PROVE  WakeInv'
<1> USE DEF IInv, TypeOK, CanCall, Count, Goto
<1>1. CASE Connect(t)
  BY <1>1, WakeFrame DEF Connect, ConnectEntry
<1>2. CASE Disconnect(t)
  BY <1>2, WakeFrame DEF Disconnect, DisconnectEntry, DisconnectAtOnce, DisconnectWaits, DisconnectJoins
<1>3. CASE Send(t)
  BY <1>3, WakeFrame DEF Send
<1>4. CASE \E p \in Policies : InitFromJson(t, p)
  BY <1>4, WakeFrame DEF InitFromJson
<1>5. CASE Receive(t) \/ ClearQueue(t)
  BY <1>5, WakeFewer DEF Receive, ClearQueue, Pop
<1> QED BY <1>1, <1>2, <1>3, <1>4, <1>5

\* receiveBlocking takes an event or begins to wait.
LEMMA ReceiveBlockingWakeInv ==
  ASSUME IInv, WakeInv, NEW t \in Threads, ReceiveBlocking(t)
  PROVE  WakeInv'
<1>1. CASE queue # <<>>
  BY <1>1, WakeFewer DEF IInv, TypeOK, ReceiveBlocking, Pop
<1>2. CASE queue = <<>>
  <2>1. /\ rwaiting' = rwaiting \cup {t} /\ queue' = <<>>
        /\ pc' = [pc EXCEPT ![t] = "receiveWait"] /\ pc[t] = "idle" /\ pc \in [Threads -> CallPlaces]
    BY <1>2 DEF IInv, TypeOK, ReceiveBlocking, CanCall, Goto
  <2>2. Awake' = Awake
    BY <2>1 DEF Awake
  <2>3. Cardinality(Awake) \in Nat /\ Len(queue') = 0
    BY <2>1, FS_CardinalityType DEF WakeInv
  <2>4. \A u \in rwaiting' : pc'[u] = "receiveWait"
    BY <2>1 DEF IInv, TypeOK, WakeInv
  <2> QED BY <2>2, <2>3, <2>4 DEF WakeInv, NoLostWakeup
<1> QED BY <1>1, <1>2

\* The end of the wait: a notification, the time-out and the last look.
LEMMA ReceiveEndsWakeInv ==
  ASSUME IInv, WakeInv, NEW t \in Threads, ReceiveWake(t) \/ ReceiveTimeout(t) \/ ReceiveLast(t)
  PROVE  WakeInv'
<1>0. pc \in [Threads -> CallPlaces] /\ rwaiting \subseteq Threads /\ queue \in Seq(Policies) /\ event \in Policies
  BY DEF IInv, TypeOK
<1> USE DEF Goto
<1>1. CASE ReceiveWake(t)
  <2>1. t \in Awake /\ Awake' = Awake \ {t}
    BY <1>0, <1>1 DEF Awake, ReceiveWake, Pop
  <2>2. \A u \in rwaiting' : pc'[u] = "receiveWait"
    BY <1>0, <1>1 DEF WakeInv, ReceiveWake, Pop
  <2> QED BY <1>0, <1>1, <2>1, <2>2, WakeLeaves DEF ReceiveWake, Pop
<1>2. CASE ReceiveLast(t)
  <2>1. t \in Awake /\ Awake' = Awake \ {t}
    BY <1>0, <1>2 DEF Awake, ReceiveLast, Pop
  <2>2. rwaiting' = rwaiting /\ \A u \in rwaiting' : pc'[u] = "receiveWait"
    BY <1>0, <1>2 DEF WakeInv, ReceiveLast, Pop
  <2> QED BY <1>0, <1>2, <2>1, <2>2, WakeLeaves DEF ReceiveLast, Pop
<1>3. CASE ReceiveTimeout(t)
  <2>1. /\ pc[t] = "receiveWait" /\ pc' = [pc EXCEPT ![t] = "receiveLast"]
        /\ rwaiting' = rwaiting \ {t} /\ queue' = queue
    BY <1>3 DEF ReceiveTimeout
  <2>2. Awake' = Awake \cup {t}
    BY <1>0, <2>1 DEF Awake
  <2>3. \A u \in rwaiting' : pc'[u] = "receiveWait"
    BY <1>0, <2>1 DEF WakeInv
  <2>4. CASE t \in rwaiting
    BY <1>0, <2>1, <2>2, <2>3, <2>4, WakeJoins
  <2>5. CASE t \notin rwaiting
    <3>1. Awake' = Awake /\ rwaiting' = rwaiting
      BY <2>1, <2>2, <2>5 DEF Awake
    <3> QED BY <2>1, <2>3, <3>1 DEF WakeInv, NoLostWakeup
  <2> QED BY <2>4, <2>5
<1> QED BY <1>1, <1>2, <1>3

\* The rest of connect, disconnect and send, and a spurious wake-up.
LEMMA ContinueWakeInv ==
  ASSUME IInv, WakeInv, NEW t \in Threads,
         \/ ConnectWake(t) \/ ConnectJoin(t) \/ ConnectJoined(t) \/ ConnectOpen(t)
         \/ ConnectSpawn(t) \/ ConnectSpawnFails(t) \/ ConnectAssign(t)
         \/ DisconnectWake(t) \/ DisconnectJoin(t) \/ DisconnectJoined(t)
         \/ SendTo(t) \/ SpuriousWake(t)
  PROVE  WakeInv'
<1>1. UNCHANGED queueVars
  BY DEF ConnectWake, ConnectEntry, ConnectJoin, Join, ConnectJoined, Joined, ConnectOpen,
         ConnectSpawn, ConnectSpawnFails, ConnectAssign, DisconnectWake, DisconnectEntry,
         DisconnectJoin, DisconnectJoined, SendTo, SpuriousWake
<1>2. \A u \in Threads : \A l \in {"receiveWait", "receiveLast"} : pc[u] = l <=> pc'[u] = l
  BY DEF IInv, TypeOK, Goto, ConnectWake, ConnectEntry, ConnectJoin, Join, ConnectJoined, Joined,
         ConnectOpen, ConnectSpawn, ConnectSpawnFails, ConnectAssign, DisconnectWake,
         DisconnectEntry, DisconnectAtOnce, DisconnectWaits, DisconnectJoins, DisconnectJoin,
         DisconnectJoined, SendTo, SpuriousWake
<1> QED BY <1>1, <1>2, WakeFrame DEF IInv, TypeOK

\* The worker queues an event and notifies one thread; its other steps do not
\* concern the queue.
LEMMA WorkerWakeInv ==
  ASSUME IInv, WakeInv, Worker
  PROVE  WakeInv'
<1>0. pc' = pc /\ rwaiting \subseteq Threads /\ queue \in Seq(Policies) /\ event \in Policies
  BY DEF IInv, TypeOK, Worker, WorkerStart, WorkerLoop, WorkerPollNothing, WorkerPollFails,
         WorkerPollReady, WorkerDiscard, WorkerNoMemory, WorkerAccept, CallbackReturns,
         WorkerEnqueue, WorkerDrop, WorkerExit, WorkerGoto
<1>1. CASE UNCHANGED queueVars
  BY <1>0, <1>1, WakeFrame
<1>2. CASE WorkerEnqueue /\ queue' = Append(queue, event)
  <2>1. CASE rwaiting' = {}
    <3>1. Awake' = Awake \/ \E t \in rwaiting : Awake' = Awake \cup {t}
      BY <1>0, <1>2 DEF WakeInv, Awake, WorkerEnqueue
    <3>2. IsFiniteSet(Awake')
      BY <3>1, FS_AddElement DEF WakeInv
    <3> QED BY <2>1, <3>2 DEF WakeInv, NoLostWakeup
  <2>2. CASE rwaiting' # {}
    <3>1. PICK t \in rwaiting : rwaiting' = rwaiting \ {t}
      BY <1>2, <2>2 DEF WorkerEnqueue
    <3>2. Awake' = Awake \cup {t}
      BY <1>0, <3>1 DEF WakeInv, Awake
    <3>3. \A u \in rwaiting' : pc'[u] = "receiveWait"
      BY <1>0, <3>1 DEF WakeInv
    <3> QED BY <1>0, <1>2, <3>1, <3>2, <3>3, WakeJoins
  <2> QED BY <2>1, <2>2
<1>3. UNCHANGED queueVars \/ (WorkerEnqueue /\ queue' = Append(queue, event))
  BY DEF Worker, WorkerStart, WorkerLoop, WorkerPollNothing, WorkerPollFails,
         WorkerPollReady, WorkerDiscard, WorkerNoMemory, WorkerAccept, CallbackReturns,
         WorkerEnqueue, WorkerDrop, WorkerExit
<1> QED BY <1>1, <1>2, <1>3

\* receiveLoop's notify_one is enough: a notified thread always looks at the
\* queue, and so does one whose time is up.
THEOREM NoWakeupIsLost == Spec => []NoLostWakeup
<1>1. Init => WakeInv
  <2> SUFFICES ASSUME Init PROVE WakeInv
    OBVIOUS
  <2>1. Awake = {} /\ rwaiting = {}
    BY DEF Init, Awake
  <2> QED BY <2>1, FS_EmptySet DEF WakeInv, NoLostWakeup
<1>2. IInv /\ WakeInv /\ [Next]_vars => WakeInv'
  <2> SUFFICES ASSUME IInv, WakeInv, [Next]_vars PROVE WakeInv'
    OBVIOUS
  <2>1. ASSUME NEW t \in Threads, Call(t) PROVE WakeInv'
    BY <2>1, CallWakeInv, ReceiveBlockingWakeInv DEF Call
  <2>2. ASSUME NEW t \in Threads, Continue(t) \/ SpuriousWake(t) PROVE WakeInv'
    BY <2>2, ContinueWakeInv, ReceiveEndsWakeInv DEF Continue
  <2>3. CASE Worker
    BY <2>3, WorkerWakeInv
  <2>4. CASE UNCHANGED vars
    BY <2>4, WakeFrame DEF IInv, TypeOK, vars
  <2> QED BY <2>1, <2>2, <2>3, <2>4 DEF Next
<1>3. WakeInv => NoLostWakeup
  BY DEF WakeInv
<1> QED BY <1>1, <1>2, <1>3, DatagramInvariant, PTL DEF Spec
=============================================================================

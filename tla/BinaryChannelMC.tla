-------------------------- MODULE BinaryChannelMC --------------------------
(* Instances of BinaryChannel for TLC.                                      *)
EXTENDS BinaryChannel

CONSTANTS c1, c2

AllModes == {"poll", "one", "two"}
TwoCallers == {c1, c2}

CallsOf(first, second, send, receive) ==
  [t \in Threads |-> CASE t = c1 -> first [] t = c2 -> second
                       [] t = "send" -> send [] OTHER -> receive]

\* Two application threads compete for the replies.
Requests == [operations |-> {"sendRaw", "clear"}, calls |-> CallsOf(2, 1, 0, 0),
             events |-> [c \in Chan |-> 0], polls |-> 2, faults |-> 2]

\* One application thread, with events on both connections.
Deliveries == [operations |-> {"receive", "clear"}, calls |-> CallsOf(3, 0, 0, 0),
               events |-> [c \in Chan |-> 2], polls |-> 2, faults |-> 1]

\* Every operation, and a callback of the send worker that calls the client.
Mixed == [operations |-> {"receive", "receiveRaw", "send", "sendRaw", "clear"},
          calls |-> CallsOf(2, 0, 1, 0),
          events |-> [c \in Chan |-> IF c = "send" THEN 1 ELSE 0], polls |-> 1, faults |-> 1]

RequestsAndDeliveries == {Requests, Deliveries}
JustMixed == {Mixed}
=============================================================================

-------------------------- MODULE SingleChannelMC --------------------------
(* Instances of SingleChannel for TLC.                                      *)
EXTENDS SingleChannel

CONSTANTS c1, c2

\* Two application threads, the owner with two calls, and a callback with one.
TwoCallers == {c1, c2}
TwoAndOne == [t \in TwoCallers \cup {W} |-> IF t = c1 THEN 2 ELSE 1]

\* One application thread with three calls, and a callback with one.
OneCaller == {c1}
ThreeCalls == [t \in OneCaller \cup {W} |-> IF t = W THEN 1 ELSE 3]

\* The same with two calls.
TwoCalls == [t \in OneCaller \cup {W} |-> IF t = W THEN 1 ELSE 2]

\* The filter rejects the second event.
OddEvents == {1, 3}
=============================================================================

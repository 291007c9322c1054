----------------------------- MODULE EventPipe -----------------------------
(***************************************************************************)
(* What the receive side of a client promises an application: the events   *)
(* that arrive are handed over once each, in the order of their arrival,   *)
(* and none is missing unless the filter rejects it, or a clear, a         *)
(* disconnect or a failure of the connection excuses the loss.             *)
(***************************************************************************)
EXTENDS Naturals

CONSTANT Wanted         \* the events the application's filter accepts

VARIABLES seen,         \* events are numbered: the last that arrived
          pipe,         \* the set of those that are not handed over yet
          last,         \* the last one handed over
          excused       \* events may be discarded

pipeVars == <<seen, pipe, last, excused>>

Init == seen = 0 /\ pipe = {} /\ last = 0 /\ excused = TRUE

Arrive == /\ seen' > seen
          /\ pipe' = pipe \cup {seen'}
          /\ UNCHANGED last

\* The oldest event goes first.
HandOver == /\ \E e \in pipe :
                 /\ e > last /\ e \in Wanted
                 /\ \A f \in pipe : e <= f
                 /\ last' = e
                 /\ pipe' = pipe \ {e}
            /\ UNCHANGED seen

Reject == /\ \E e \in pipe : e \notin Wanted /\ pipe' = pipe \ {e}
          /\ UNCHANGED <<seen, last>>

\* A clear empties the stages of the pipe one after the other, and leaves
\* the event a callback is about to be called with.
Discard == /\ excused \/ excused'
           /\ pipe' \subseteq pipe
           /\ UNCHANGED <<seen, last>>

\* The excuse comes and goes.
Excuse == UNCHANGED <<seen, pipe, last>>

Next == Arrive \/ HandOver \/ Reject \/ Discard \/ Excuse

Spec == Init /\ [][Next]_pipeVars
=============================================================================

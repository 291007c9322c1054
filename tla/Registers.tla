----------------------------- MODULE Registers -----------------------------
(***************************************************************************)
(* Reading and writing the registers of one node: the functions of         *)
(* register.cpp over any client ("read", "write", "readBlock" and          *)
(* "writeBlock") and the register calls of the TCP interface, which repeat *)
(* a request that is not answered ("ifRead" and "ifWrite", and "viaWrite"  *)
(* for a node behind an interface of the server).                          *)
(*                                                                         *)
(* The host makes one call at a time and is the only one that writes.      *)
(* Requests and replies may be lost, and a reply may come after its call   *)
(* has given up.  They are not reordered, but for the frames of one reply  *)
(* (register.cpp:256).  Nothing in a reply tells which request it answers. *)
(* Other nodes answer other hosts, with frames for the same registers too. *)
(* Time is abstract: a call with a time limit may give up at any time.     *)
(***************************************************************************)
EXTENDS Naturals, Sequences, FiniteSets, FiniteSetsExt

CONSTANTS PageSize,    \* registers of a page; counts are modulo this; 256 in the code
          Values,      \* what they hold; 0 is the value of a new map entry
          Chunk,       \* registers in a frame; 4 in the code
          Nickname,    \* the last byte of the node's GUID
          PageByte,    \* the high byte of the number of the page
          Foreign,     \* frames of other nodes, or about another page
          Calls,       \* the calls the application makes: see Call
          Weight(_),   \* what a call counts for in MaxCalls
          MaxCalls,    \* bounds of the model: calls,
          MaxLost,     \*   requests and frames that are lost,
          MaxNoise,    \*   events of others,
          MaxResends   \*   repeated requests

Offsets == 0 .. PageSize - 1
Empty == [r \in {} |-> 0]
Maps == UNION {[S -> Values] : S \in SUBSET Offsets}

\* A call: the map is empty for a call that reads, and a call for one register
\* has count 1.  A count of 0 is the whole page.  Without a limit the timeout
\* is 0; the calls of the interface have limits of their own.
Call(kind, off, count, map, limit) ==
  [kind |-> kind, off |-> off, count |-> count, map |-> map, limit |-> limit]
ReadKinds == {"read", "readBlock", "ifRead"}
WriteKinds == {"write", "ifWrite", "viaWrite"}
IfKinds == {"ifRead", "ifWrite", "viaWrite"}
Kinds == ReadKinds \cup WriteKinds \cup {"writeBlock"}

Registers(count) == IF count = 0 THEN PageSize ELSE count

\* The registers of a frame, and what it says of one of them.
Covers(f) == f.off .. f.off + Len(f.data) - 1
At(f, r) == f.data[r - f.off + 1]

FrameSet ==
  {f \in [node : {"this", "other"}, page : {"this", "other"}, index : Nat, off : Offsets,
          data : Seq(Values)] :
     Len(f.data) > 0 /\ Covers(f) \subseteq Offsets}

\* A frame of this node about this page.
Own(f) == f.node = "this" /\ f.page = "this"

ASSUME RegistersAssumption ==
  /\ PageSize \in Nat \ {0} /\ Chunk \in Nat \ {0}
  /\ Values \subseteq Nat /\ 0 \in Values
  /\ Nickname \in Nat /\ PageByte \in Nat
  /\ \A f \in Foreign : f \in FrameSet /\ ~Own(f)
  /\ \A c \in Calls : /\ c.kind \in Kinds /\ c.map \in Maps /\ c.limit \in BOOLEAN
                      /\ c.off \in Offsets /\ c.count \in Offsets
                      /\ c.off + Registers(c.count) - 1 \in Offsets
                      /\ c.map = Empty <=> c.kind \in ReadKinds
                      /\ c.kind \in WriteKinds => DOMAIN c.map = {c.off}
                      /\ c.kind \in IfKinds => c.limit
                      /\ Weight(c) \in Nat
  /\ {MaxCalls, MaxLost, MaxNoise, MaxResends} \subseteq Nat

VARIABLES
  regs,             \* the node's registers
  toNode, toHost,   \* requests, and replies as sets of frames, on their way
  queue,            \* the client's receive queue
  call, pc,         \* the call, and where it is: "idle", "send", "wait"
  want,             \* regvalues of the block write: what is not confirmed yet
  rest,             \* the frames of the block write that are left
  left, rcvcnt,     \* frameset and rcvcnt of the block read
  got,              \* the registers that were read
  spoiled,          \* ex holds a received event and not the request
  outcome,          \* how the last call ended
  asked,            \* history: for every register, the values calls asked for
  alone,            \* history: no other reply can be taken for the call's
  possible,         \* history: what a register may hold for all the host knows
  fresh,            \* history: the registers this call has sent a new value to
  foreign,          \* history: the registers of got that came from another node
  calls, lost, noise, resends

nodeVars == <<regs, toNode, toHost>>
blockVars == <<want, rest, left, rcvcnt, got>>
historyVars == <<asked, alone, possible, fresh, foreign>>
counters == <<calls, lost, noise, resends>>
vars == <<nodeVars, queue, call, pc, blockVars, spoiled, outcome, historyVars, counters>>

NoCall == Call("read", 0, 0, Empty, TRUE)

Init == /\ regs = [r \in Offsets |-> 0]
        /\ toNode = <<>> /\ toHost = <<>> /\ queue = <<>>
        /\ call = NoCall /\ pc = "idle"
        /\ want = Empty /\ rest = {} /\ left = {} /\ rcvcnt = 0 /\ got = Empty
        /\ spoiled = FALSE /\ outcome = "none"
        /\ asked = [r \in Offsets |-> {}] /\ alone = TRUE
        /\ possible = [r \in Offsets |-> {regs[r]}] /\ fresh = {} /\ foreign = {}
        /\ calls = 0 /\ lost = 0 /\ noise = 0 /\ resends = 0
-----------------------------------------------------------------------------
(* The node and the way to it.                                              *)

hostKeeps == <<call, pc, blockVars, spoiled, outcome, historyVars, calls, resends>>

Frame(index, off, data) ==
  [node |-> "this", page |-> "this", index |-> index, off |-> off, data |-> data]

\* The frames count registers take, and the registers in one of them.
Indices(count) == {j \in 0 .. count - 1 : j * Chunk < count}
Size(count, i) == Min({Chunk, count - i * Chunk})

\* The frames of the reply to a read of count registers.
FramesOf(off, count, m) ==
  {Frame(i, off + i * Chunk, [k \in 1 .. Size(count, i) |-> m[off + i * Chunk + k - 1]]) :
     i \in Indices(count)}

\* A write is answered with the registers it has written, a count of 0 with
\* those of the page, and an event that is no request is ignored.
NodeAnswers ==
  /\ toNode # <<>>
  /\ toNode' = Tail(toNode)
  /\ LET q == Head(toNode)
     IN CASE q.kind = "read" -> /\ toHost' = Append(toHost, FramesOf(q.off, Registers(q.count), regs))
                                /\ UNCHANGED regs
          [] q.kind = "write" -> /\ regs' = [r \in Offsets |-> IF r \in Covers(q) THEN At(q, r)
                                                                               ELSE regs[r]]
                                 /\ toHost' = Append(toHost, {Frame(0, q.off, q.data)})
          [] q.kind = "event" -> UNCHANGED <<regs, toHost>>
  /\ UNCHANGED <<queue, hostKeeps, lost, noise>>

\* A frame leaves the oldest reply.
Leaves(f) == LET s == Head(toHost) \ {f}
             IN toHost' = IF s = {} THEN Tail(toHost) ELSE [toHost EXCEPT ![1] = s]

Deliver ==
  /\ toHost # <<>>
  /\ \E f \in Head(toHost) : Leaves(f) /\ queue' = Append(queue, f)
  /\ UNCHANGED <<regs, toNode, hostKeeps, lost, noise>>

Lost ==
  /\ lost < MaxLost
  /\ lost' = lost + 1
  /\ \/ toNode # <<>> /\ toNode' = Tail(toNode) /\ UNCHANGED toHost
     \/ toHost # <<>> /\ (\E f \in Head(toHost) : Leaves(f)) /\ UNCHANGED toNode
  /\ UNCHANGED <<regs, queue, hostKeeps, noise>>

\* An event of another node, about the same page or another, or one of this
\* node about another page.
OtherEvent ==
  /\ noise < MaxNoise
  /\ noise' = noise + 1
  /\ \E f \in Foreign : queue' = Append(queue, f)
  /\ UNCHANGED <<nodeVars, hostKeeps, lost>>
-----------------------------------------------------------------------------
(* What a call sends.                                                       *)

\* The runs of neighbouring registers (startmap), each its first register and
\* its length, cut into frames.  The length is a byte: that of the page is 0.
Runs(m) == {x \in (DOMAIN m) \X (1 .. Cardinality(DOMAIN m)) :
              /\ x[1] .. x[1] + x[2] - 1 \subseteq DOMAIN m
              /\ {x[1] - 1, x[1] + x[2]} \cap DOMAIN m = {}}
WriteFrames(m) ==
  UNION {{[off |-> x[1] + i * Chunk, count |-> Size(x[2] % PageSize, i)] :
            i \in Indices(x[2] % PageSize)} : x \in Runs(m)}

Read(off, count) == [kind |-> "read", off |-> off, count |-> count, data |-> <<>>]
Write(off, data) == [kind |-> "write", off |-> off, count |-> Len(data), data |-> data]
Received == [kind |-> "event", off |-> 0, count |-> 0, data |-> <<>>]

\* The host knows of what it sends, not of what arrives.  before holds the
\* registers that were new before this request.
Sends(q, before) ==
  LET written == IF q.kind = "write" THEN Covers(q) ELSE {}
  IN /\ toNode' = Append(toNode, q)
     /\ possible' = [r \in Offsets |-> IF r \in written THEN possible[r] \cup {At(q, r)}
                                                        ELSE possible[r]]
     /\ fresh' = (before \ written) \cup {r \in written : At(q, r) \notin possible[r]}

Request(c) == IF c.map = Empty THEN Read(c.off, c.count)
                               ELSE Write(c.off, <<c.map[c.off]>>)

\* Everything on its way belongs to reads of the same block.
SameBlock(c) ==
  /\ \A i \in DOMAIN toNode : toNode[i] = Read(c.off, c.count)
  /\ \A i \in DOMAIN toHost : \A f \in toHost[i] :
       /\ f.index \in Indices(c.count) /\ f.off = c.off + f.index * Chunk
       /\ Len(f.data) = Size(c.count, f.index)

\* A call begins.  writeLevel2Register is the one that does not clear the
\* queue.  frameset and startmap are made before anything is sent; a block
\* write without frames ends there.
Begin ==
  /\ pc = "idle"
  /\ \E c \in Calls :
       /\ calls + Weight(c) <= MaxCalls /\ calls' = calls + Weight(c)
       /\ call' = c /\ alone' = SameBlock(c)
       /\ asked' = [r \in Offsets |-> IF r \in DOMAIN c.map THEN asked[r] \cup {c.map[r]} ELSE asked[r]]
       /\ queue' = IF c.kind \in {"ifWrite", "viaWrite"} THEN queue ELSE <<>>
       /\ want' = IF c.kind = "writeBlock" THEN c.map ELSE Empty
       /\ rest' = IF c.kind = "writeBlock" THEN WriteFrames(c.map) ELSE {}
       /\ left' = IF c.kind = "readBlock" THEN Indices(c.count) ELSE {}
       /\ \/ /\ c.kind # "writeBlock" /\ Sends(Request(c), {})
             /\ pc' = "wait" /\ outcome' = "none"
          \/ /\ c.kind = "writeBlock" /\ fresh' = {} /\ UNCHANGED <<toNode, possible>>
             /\ IF WriteFrames(c.map) = {} THEN pc' = "idle" /\ outcome' = "ok"
                                           ELSE pc' = "send" /\ outcome' = "none"
  /\ rcvcnt' = 0 /\ got' = Empty /\ foreign' = {} /\ spoiled' = FALSE
  /\ UNCHANGED <<regs, toHost, lost, noise, resends>>

\* regvalues[r] makes a new entry, 0, when there is none.
Filled(m, rs) == [r \in DOMAIN m \cup rs |-> IF r \in DOMAIN m THEN m[r] ELSE 0]

\* The next frame of a block write, lowest registers first.
SendFrame ==
  /\ pc = "send"
  /\ \E f \in rest :
       LET m == Filled(want, f.off .. f.off + f.count - 1)
       IN /\ \A g \in rest : f.off <= g.off
          /\ want' = m
          /\ rest' = rest \ {f}
          /\ Sends(Write(f.off, [k \in 1 .. f.count |-> m[f.off + k - 1]]), fresh)
  /\ queue' = <<>>
  /\ pc' = "wait"
  /\ UNCHANGED <<regs, toHost, call, left, rcvcnt, got, spoiled, outcome, asked, alone, foreign,
                 counters>>

\* readLevel2Register and writeLevel2Register send the event they have, which
\* is the last one received if there was any.
Resend ==
  /\ pc = "wait" /\ call.kind \in IfKinds /\ resends < MaxResends
  /\ resends' = resends + 1
  /\ toNode' = Append(toNode, IF spoiled THEN Received ELSE Request(call))
  /\ UNCHANGED <<regs, toHost, queue, call, pc, blockVars, spoiled, outcome, historyVars, calls,
                 lost, noise>>
-----------------------------------------------------------------------------
(* The wait for the reply: one event at a time.                             *)

End(result) == pc' = "idle" /\ outcome' = result

\* After a reply, or without one, a block write goes on to its next frame; it
\* ends with the result of the last.  Other calls end.
NextFrame(result) == IF rest = {} THEN End(result) ELSE pc' = "send" /\ UNCHANGED outcome

\* do ... while (timeout): with a timeout of 0 there is one turn, which leaves
\* the success of getcount or receive.  The block read alone loops for ever.
OneTurn == ~call.limit /\ call.kind # "readBlock"
WaitOn == IF OneTurn THEN NextFrame("ok") ELSE UNCHANGED <<pc, outcome>>

\* register.cpp assigns the nickname instead of comparing it: what counts is
\* that it is not 0.  The interface compares the GUID, or its last byte for a
\* write to a node behind an interface.
IsReply(f) == /\ f.page = "this"
              /\ IF call.kind \in IfKinds THEN f.node = "this" ELSE Nickname # 0

\* This node has confirmed a write of a value that was not possible before.
Confirm(rs) ==
  LET f == Head(queue)
  IN possible' = [r \in Offsets |-> IF Own(f) /\ r \in rs \cap fresh \cap Covers(f) THEN {At(f, r)}
                                                                                 ELSE possible[r]]

\* What the call takes for a reply may come from another node.
Takes(kinds) == /\ pc = "wait" /\ call.kind \in kinds /\ queue # <<>>
                /\ queue' = Tail(queue)
                /\ spoiled' = TRUE
                /\ alone' = (alone /\ (IsReply(Head(queue)) => Own(Head(queue))))
                /\ UNCHANGED <<nodeVars, call, asked, counters>>

\* mutant: the register is not compared
AnswersAny(f) == IsReply(f) /\ f.index = 0

\* A reply to a call for one register.
Answers(f) == IsReply(f) /\ f.index = 0 /\ f.off = call.off

ReceiveRead ==
  /\ Takes({"read", "ifRead"})
  /\ LET f == Head(queue)
     IN IF Answers(f) THEN /\ got' = [r \in {call.off} |-> f.data[1]] /\ End("ok")
                           /\ foreign' = IF Own(f) THEN {} ELSE {call.off}
                      ELSE UNCHANGED <<got, foreign>> /\ WaitOn
  /\ UNCHANGED <<want, rest, left, rcvcnt, possible, fresh>>

\* mutant: the value that comes back is not compared
AcceptsAny(f) == TRUE

\* Behind an interface the value is compared with a byte of the page.
Accepts(f) == call.map[call.off] = IF call.kind = "viaWrite" THEN PageByte ELSE f.data[1]

\* vscp_writeLevel1Register waits on for the value it has written, and
\* writeLevel2Register gives up when it is not the one.
ReceiveWrite ==
  /\ Takes(WriteKinds)
  /\ LET f == Head(queue)
     IN \/ /\ Answers(f) /\ Accepts(f) /\ End("ok")
           /\ Confirm(IF call.kind = "viaWrite" THEN {} ELSE {call.off})
        \/ Answers(f) /\ ~Accepts(f) /\ call.kind # "write" /\ End("mismatch") /\ UNCHANGED possible
        \/ (Answers(f) => ~Accepts(f) /\ call.kind = "write") /\ WaitOn /\ UNCHANGED possible
  /\ UNCHANGED <<blockVars, fresh, foreign>>

\* mutant: the frames are not told apart
AllThereByCount == rcvcnt' = call.count

AllThere == rcvcnt' = call.count /\ left' = {}

\* Frames come in any order; the registers are counted in a byte.
ReceiveBlock ==
  /\ Takes({"readBlock"})
  /\ LET f == Head(queue)
     IN IF IsReply(f)
        THEN /\ left' = left \ {f.index}
             /\ got' = [r \in DOMAIN got \cup Covers(f) |-> IF r \in Covers(f) THEN At(f, r) ELSE got[r]]
             /\ foreign' = IF Own(f) THEN foreign \ Covers(f) ELSE foreign \cup Covers(f)
             /\ rcvcnt' = (rcvcnt + Len(f.data)) % PageSize
             /\ IF AllThere THEN End("ok") ELSE WaitOn
        ELSE UNCHANGED <<left, got, foreign, rcvcnt>> /\ WaitOn
  /\ UNCHANGED <<want, rest, possible, fresh>>

\* The registers of the frame that have the value they should have.
Confirmed(f, m) == {r \in Covers(f) : m[r] = At(f, r)}

ReceiveBlockWrite ==
  /\ Takes({"writeBlock"})
  /\ LET f == Head(queue)
         m == Filled(want, Covers(f))
         done == Confirmed(f, m)
     IN IF IsReply(f) /\ f.index = 0
        THEN /\ want' = [r \in DOMAIN m \ done |-> m[r]]
             /\ Confirm(done)
             /\ fresh' = IF Own(f) THEN fresh ELSE fresh \ done
             /\ IF DOMAIN want' = {} THEN End("ok") ELSE NextFrame("ok")
        ELSE UNCHANGED <<want, possible, fresh>> /\ WaitOn
  /\ UNCHANGED <<rest, left, rcvcnt, got, foreign>>

\* The time is over, or there was nothing to receive in the only turn.
GiveUp ==
  /\ pc = "wait"
  /\ \/ call.limit /\ NextFrame("timeout")
     \/ OneTurn /\ queue = <<>> /\ NextFrame("ok")
  /\ UNCHANGED <<nodeVars, queue, call, blockVars, spoiled, historyVars, counters>>

\* clear, send or receive of the client fails (register.cpp); the TCP
\* interface does not look.
ClientFails ==
  /\ pc # "idle" /\ call.kind \notin IfKinds
  /\ End("error")
  /\ UNCHANGED <<nodeVars, queue, call, blockVars, spoiled, historyVars, counters>>
-----------------------------------------------------------------------------
Host == \/ Begin \/ SendFrame \/ Resend \/ GiveUp \/ ClientFails
        \/ ReceiveRead \/ ReceiveWrite \/ ReceiveBlock \/ ReceiveBlockWrite

Next == NodeAnswers \/ Deliver \/ Lost \/ OtherEvent \/ Host

Spec == Init /\ [][Next]_vars
-----------------------------------------------------------------------------
\* The type invariant.
RequestSet ==
  {q \in [kind : {"read", "write", "event"}, off : Offsets, count : Nat, data : Seq(Values)] :
     /\ q.kind = "read" => q.off + Registers(q.count) - 1 \in Offsets
     /\ q.kind = "write" => Len(q.data) > 0 /\ Covers(q) \subseteq Offsets}
PartSet == {f \in [off : Offsets, count : Nat] :
              f.count > 0 /\ f.off .. f.off + f.count - 1 \subseteq Offsets}

WayOK == /\ regs \in [Offsets -> Values] /\ toNode \in Seq(RequestSet)
         /\ toHost \in Seq(SUBSET FrameSet) /\ queue \in Seq(FrameSet)
CallOK == /\ call \in Calls \cup {NoCall} /\ pc \in {"idle", "send", "wait"}
          /\ want \in Maps /\ got \in Maps /\ rest \subseteq PartSet
          /\ left \subseteq Nat /\ rcvcnt \in Offsets
          /\ outcome \in {"none", "ok", "mismatch", "timeout", "error"}
FlagsOK == spoiled \in BOOLEAN /\ alone \in BOOLEAN
HistoryOK == /\ asked \in [Offsets -> SUBSET Values] /\ possible \in [Offsets -> SUBSET Values]
             /\ fresh \subseteq Offsets /\ foreign \subseteq Offsets
CountersOK == calls \in Nat /\ lost \in Nat /\ noise \in Nat /\ resends \in Nat
TypeOK == WayOK /\ CallOK /\ FlagsOK /\ HistoryOK /\ CountersOK

\* What a successful call has read from the node is a value the register may
\* hold.  Once the node has confirmed a write of a new value, that is this value
\* alone: reads return what was written, whatever calls timed out before, and
\* however late their replies come.  A read of one register with a time limit
\* that succeeds has its value, and the calls of the interface have it from the
\* node.  (Those of register.cpp may have it from another one: see IsReply.)
ReadIsPossible ==
  outcome = "ok" =>
    /\ \A r \in DOMAIN got \ foreign : got[r] \in possible[r]
    /\ call.kind \in {"read", "ifRead"} /\ call.limit => DOMAIN got = {call.off}
    /\ call.kind \in IfKinds => foreign = {}

\* Once the node has confirmed a write of a new value, to whichever call that
\* compares the value, the node has it, until the host sends another.
WriteIsDone == \A r \in Offsets : regs[r] \in possible[r]

\* A read of a block smaller than the page that succeeds has read every
\* register of the block, in whatever order the frames came and whichever were
\* lost, also when frames of an earlier read of the block are among them, as
\* long as it has not taken a frame of another node for one of its own.  For
\* the page, a count of 0, it need not: AllThere then looks at the count alone.
BlockIsComplete == outcome = "ok" /\ call.kind = "readBlock" /\ call.count # 0 /\ alone =>
                     DOMAIN got = call.off .. call.off + call.count - 1

\* A block write writes the values it was called with.
OnlyAskedValues == \A i \in DOMAIN toNode : toNode[i].kind = "write" =>
                     \A r \in Covers(toNode[i]) : At(toNode[i], r) \in asked[r]
-----------------------------------------------------------------------------
(***************************************************************************)
(* The inductive invariant behind ReadIsPossible, WriteIsDone and          *)
(* BlockIsComplete.                                                        *)
(***************************************************************************)
\* What a frame says of a register, and what a request does to it.
Says(f, r) == Own(f) /\ r \in Covers(f)
Writes(q, r) == q.kind = "write" /\ r \in Covers(q)

\* A value that is on its way, or that the register has, is possible.
AllIn(r, S) ==
  /\ regs[r] \in S
  /\ \A i \in 1 .. Len(toNode) : Writes(toNode[i], r) => At(toNode[i], r) \in S
  /\ \A i \in 1 .. Len(toHost) : \A f \in toHost[i] : Says(f, r) => At(f, r) \in S
  /\ \A i \in 1 .. Len(queue) : Says(queue[i], r) => At(queue[i], r) \in S
PossibleInv == \A r \in Offsets : AllIn(r, possible[r])

\* Register r is v, and stays v, for all that is on its way to the node,
\* to the host and in the queue, from the place that comes after.
NodeHas(r, v) == \A i \in 1 .. Len(toNode) : Writes(toNode[i], r) => At(toNode[i], r) = v
RegsHave(r, v) == regs[r] = v /\ NodeHas(r, v)
HostHas(r, v) == /\ RegsHave(r, v)
                 /\ \A i \in 1 .. Len(toHost) : \A f \in toHost[i] : Says(f, r) => At(f, r) = v

\* A new value v of r: whatever comes after the first sign of it has it too.
\* Requests, the register, replies and the queue are one line.
NewValue(r, v) ==
  /\ \A i \in 1 .. Len(toNode) : Writes(toNode[i], r) /\ At(toNode[i], r) = v =>
       \A j \in i .. Len(toNode) : Writes(toNode[j], r) => At(toNode[j], r) = v
  /\ regs[r] = v => NodeHas(r, v)
  /\ \A i \in 1 .. Len(toHost) : (\E f \in toHost[i] : Says(f, r) /\ At(f, r) = v) =>
       /\ RegsHave(r, v)
       /\ \A j \in i .. Len(toHost) : \A f \in toHost[j] : Says(f, r) => At(f, r) = v
  /\ \A i \in 1 .. Len(queue) : Says(queue[i], r) /\ At(queue[i], r) = v =>
       /\ HostHas(r, v)
       /\ \A j \in i .. Len(queue) : Says(queue[j], r) => At(queue[j], r) = v

\* The value the call has sent to r, while it waits to have it confirmed.
Unconfirmed(r) == IF call.kind = "writeBlock" THEN r \in DOMAIN want
                  ELSE call.kind \in WriteKinds /\ r = call.off
Sent(r) == IF call.kind = "writeBlock" THEN want[r] ELSE call.map[r]

FreshInv == \A r \in fresh : \/ \E v \in Values : possible[r] = {v}
                             \/ Unconfirmed(r) /\ NewValue(r, Sent(r))

\* What a call knows: a block write alone sends frame by frame, the value of
\* another write may be repeated, and only a call that reads has read.
CallInv == /\ call.kind # "writeBlock" => pc # "send" /\ rest = {}
           /\ call.kind \in WriteKinds => call.map[call.off] \in possible[call.off]
           /\ call.kind \notin ReadKinds => DOMAIN got = {}
           /\ \A r \in DOMAIN got \ foreign : got[r] \in possible[r]

\* Frames of a block read that is alone tell by their index which registers
\* they bring, and those of the indices that came are there.
Part(i) == call.off + i * Chunk .. call.off + i * Chunk + Size(call.count, i) - 1
OfBlock(f) == f.index \in Indices(call.count) /\ Covers(f) = Part(f.index)
BlockInv ==
  call.kind = "readBlock" /\ call.count # 0 =>
    /\ left \subseteq Indices(call.count) /\ (outcome = "ok" => left = {})
    /\ alone => /\ \A i \in 1 .. Len(toNode) : toNode[i] = Read(call.off, call.count)
                /\ \A i \in 1 .. Len(toHost) : \A f \in toHost[i] : OfBlock(f)
                /\ \A i \in 1 .. Len(queue) : Own(queue[i]) => OfBlock(queue[i])
                /\ DOMAIN got = UNION {Part(i) : i \in Indices(call.count) \ left}

\* What ReadIsPossible says besides: where the value comes from.
ReadInv == /\ call.kind \in IfKinds => foreign = {}
           /\ outcome = "ok" /\ call.kind \in {"read", "ifRead"} /\ call.limit => DOMAIN got = {call.off}

IInv == TypeOK /\ PossibleInv /\ FreshInv /\ CallInv /\ BlockInv
=============================================================================

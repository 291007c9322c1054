----------------------------- MODULE BootLoader -----------------------------
(***************************************************************************)
(* CBootDevice_VSCP: a host loads a firmware image into a node, block by   *)
(* block.  Each request is an event that the node answers with an ACK or a *)
(* NACK event; checkResponse waits for it and gives up after a time limit. *)
(* A block that fails is tried again from its START_BLOCK, three times at  *)
(* most.                                                                   *)
(*                                                                         *)
(* The image is abstracted to the chunks of its blocks, and a checksum to  *)
(* the data it is computed from: a block is a sequence of chunks.  Events  *)
(* travel in order in both directions and any of them may be lost or late. *)
(* A time limit may run out at any moment of a wait.  The node is not part *)
(* of the repository: it answers as the host's code expects it to.  The    *)
(* boot device has a status callback, which deviceLoad calls untested.     *)
(***************************************************************************)
EXTENDS Naturals, Sequences

CONSTANTS Loads,        \* the loads that are checked: see device
          ChunkSize,    \* m_chunkSize
          FullLevel2,   \* m_pclient->isFullLevel2()
          MaxRestarts   \* bound of the model: restarts of the node

\* Tries of a block in deviceLoad.
FourTries == 4
Tries == 3

\* writeBlock sends a block in this many chunks.
ChunksOf(size) == IF size > ChunkSize
                    THEN size \div ChunkSize + (IF size % ChunkSize # 0 THEN 1 ELSE 0)
                    ELSE 1

ASSUME BootLoaderAssumption ==
  /\ ChunkSize \in Nat \ {0} /\ MaxRestarts \in Nat
  /\ FullLevel2 \in BOOLEAN
  /\ \A d \in Loads :
       /\ d.blockSize \in Nat /\ d.image \in Seq(Seq(Seq(Nat)))
       /\ \A t \in DOMAIN d.image : \A b \in DOMAIN d.image[t] :
            Len(d.image[t][b]) = ChunksOf(d.blockSize)

VARIABLES
  device,   \* the bytes of a block, as the node reports, and the image: for
            \* each memory type its blocks, a block being a sequence of chunks
  pc,       \* what the host does next
  memtype,  \* the memory type being loaded
  block,    \* the block of it
  trycnt,   \* tries left
  chunk,    \* chunks of the block sent
  await,    \* the answer checkResponse waits for
  ex,       \* the event checkResponse received last
  rv,       \* the result of the last call
  toNode,   \* requests on their way to the node
  toHost,   \* answers on their way to the host, its client's queue included
  mode,     \* the node runs its "application" or is in "boot" mode
  at,       \* the block the node collects
  buffer,   \* the chunks of it the node has
  flash,    \* the blocks of the node's memory
  restarts  \* how often the node has restarted

load == <<memtype, block, trycnt, chunk>>
host == <<device, pc, load, rv>>
node == <<mode, at, buffer, flash>>
vars == <<host, await, ex, toNode, toHost, node, restarts>>

Image == device.image
BlockSize == device.blockSize
NChunks == ChunksOf(BlockSize)

\* The blocks of the image, numbered from 0 in each memory type, and their data.
Blocks == UNION {{t} \X (0 .. Len(Image[t]) - 1) : t \in DOMAIN Image}
BlockData(x) == Image[x[1]][x[2] + 1]

None == "none"
Answers == {"ENTER", "START", "CHUNK", "DATA", "PROGRAM"}
NoBlock == <<0, 0>>
NoEvent == [to |-> None, ack |-> FALSE, block |-> 0, data |-> <<>>]

Init ==
  /\ device \in Loads
  /\ pc = "idle" /\ memtype = 1 /\ block = 0 /\ trycnt = 0 /\ chunk = 0
  /\ await = None /\ ex = NoEvent /\ rv = "SUCCESS"
  /\ toNode = <<>> /\ toHost = <<>>
  /\ mode = "application" /\ at = NoBlock /\ buffer = <<>>
  /\ flash = [x \in Blocks |-> <<>>] /\ restarts = 0

-----------------------------------------------------------------------------
(* Sending a request and waiting for the answer to it.                       *)

Wait(answer) == await' = answer /\ ex' = NoEvent

Send(request, b, data) ==
  /\ toNode' = Append(toNode, [to |-> request, at |-> b, data |-> data])
  /\ Wait(request)

\* checkResponse receives an event: an awaited answer ends it, others are dropped.
CheckResponse ==
  /\ await # None /\ toHost # <<>>
  /\ ex' = Head(toHost)
  /\ toHost' = Tail(toHost)
  /\ IF Head(toHost).to = await
       THEN /\ await' = None
            /\ rv' = IF Head(toHost).ack \/ ~FullLevel2 THEN "SUCCESS" ELSE "NACK"
       ELSE UNCHANGED <<await, rv>>
  /\ UNCHANGED <<device, pc, load, toNode, node, restarts>>

CheckResponseTimeout ==
  /\ await # None
  /\ await' = None /\ rv' = "TIMEOUT"
  /\ UNCHANGED <<device, pc, load, ex, toNode, toHost, node, restarts>>

\* The host continues at p with nothing to wait for.
At(p) == pc = p /\ await = None

-----------------------------------------------------------------------------
(* deviceInit, and deviceLoad once it has succeeded.                         *)

\* Standard registers that cannot be read, another algorithm, another device code.
DeviceInitRefuses ==
  /\ At("idle")
  /\ pc' = "end" /\ rv' = "ERROR"
  /\ UNCHANGED <<device, load, await, ex, toNode, toHost, node, restarts>>

DeviceInit ==
  /\ At("idle")
  /\ Send("ENTER", NoBlock, <<>>)
  /\ pc' = "init"
  /\ UNCHANGED <<device, load, rv, toHost, node, restarts>>

DeviceInitEnds ==
  /\ At("init")
  /\ IF rv # "SUCCESS" THEN pc' = "end" /\ UNCHANGED rv
     ELSE IF ChunkSize > ex.data[1] THEN pc' = "end" /\ rv' = "SIZE"
     ELSE pc' = "memtype" /\ UNCHANGED rv
  /\ UNCHANGED <<device, load, await, ex, toNode, toHost, node, restarts>>

\* deviceLoad enters the next memory type, skips one without data, or is done.
NextMemtype ==
  /\ At("memtype")
  /\ IF memtype > Len(Image) THEN pc' = "end" /\ UNCHANGED <<load, rv>>
     ELSE IF Image[memtype] = <<>>
       THEN memtype' = memtype + 1 /\ rv' = "SUCCESS" /\ UNCHANGED <<pc, block, trycnt, chunk>>
     ELSE /\ pc' = "start"
          /\ rv' = "SUCCESS"
          /\ trycnt' = Tries
          /\ UNCHANGED <<memtype, block, chunk>>
  /\ UNCHANGED <<device, await, ex, toNode, toHost, node, restarts>>

\* mutant: a failed try is not counted
TryFailsForFree(e) ==
  /\ rv' = e
  /\ pc' = "start"
  /\ UNCHANGED load

\* A try of the block has failed with e.
TryFails(e) ==
  /\ rv' = e
  /\ trycnt' = trycnt - 1
  /\ pc' = IF trycnt' > 0 THEN "start" ELSE "end"
  /\ UNCHANGED <<memtype, block, chunk>>

\* The client cannot send; deviceInit returns, deviceLoad has failed a try.
SendFails ==
  /\ \/ At("idle") /\ pc' = "end" /\ rv' = "ERROR" /\ UNCHANGED load
     \/ (At("start") \/ At("program")) /\ TryFails("ERROR")
  /\ UNCHANGED <<device, await, ex, toNode, toHost, node, restarts>>

WriteBlockStart ==
  /\ At("start")
  /\ Send("START", <<memtype, block>>, <<>>)
  /\ pc' = "started"
  /\ UNCHANGED <<device, load, rv, toHost, node, restarts>>

WriteBlockStartEnds ==
  /\ At("started")
  /\ IF rv = "SUCCESS"
       THEN pc' = "chunk" /\ chunk' = 0 /\ UNCHANGED <<memtype, block, trycnt, rv>>
       ELSE TryFails(rv)
  /\ UNCHANGED <<device, await, ex, toNode, toHost, node, restarts>>

WriteChunk ==
  /\ At("chunk")
  /\ Send("CHUNK", NoBlock, <<BlockData(<<memtype, block>>)[chunk + 1]>>)
  /\ pc' = "chunked"
  /\ UNCHANGED <<device, load, rv, toHost, node, restarts>>

\* After the last chunk, and after one that failed, writeBlock waits for the answer to the block.
WriteChunkEnds ==
  /\ \/ At("chunk") /\ pc' = "data" /\ Wait("DATA") /\ UNCHANGED chunk   \* the send failed
     \/ /\ At("chunked")
        /\ IF rv = "SUCCESS" /\ chunk + 1 < NChunks
             THEN pc' = "chunk" /\ UNCHANGED <<await, ex>>
             ELSE pc' = "data" /\ Wait("DATA")
        /\ chunk' = IF rv = "SUCCESS" THEN chunk + 1 ELSE chunk
  /\ UNCHANGED <<device, memtype, block, trycnt, rv, toNode, toHost, node, restarts>>

\* The checksum and the block number in the answer are those of the block.
BlockConfirmedByNumber == ex.block = block

BlockConfirmed == ex.data = BlockData(<<memtype, block>>) /\ ex.block = block

WriteBlockEnds ==
  /\ At("data")
  /\ IF rv = "SUCCESS" /\ BlockConfirmed
       THEN pc' = "program" /\ UNCHANGED <<load, rv>>
       ELSE TryFails(IF BlockConfirmed THEN rv ELSE "INVALID_FRAME")
  /\ UNCHANGED <<device, await, ex, toNode, toHost, node, restarts>>

ProgramBlock ==
  /\ At("program")
  /\ Send("PROGRAM", <<memtype, block>>, <<>>)
  /\ pc' = "programmed"
  /\ UNCHANGED <<device, load, rv, toHost, node, restarts>>

\* The next block, with three tries of its own, or the next memory type.
NextBlock ==
  /\ trycnt' = Tries /\ UNCHANGED <<chunk, rv>>
  /\ IF block + 1 < Len(Image[memtype])
       THEN pc' = "start" /\ block' = block + 1 /\ UNCHANGED memtype
       ELSE pc' = "memtype" /\ block' = 0 /\ memtype' = memtype + 1

ProgramBlockEnds ==
  /\ At("programmed")
  /\ IF rv = "SUCCESS" THEN NextBlock ELSE TryFails(rv)
  /\ UNCHANGED <<device, await, ex, toNode, toHost, node, restarts>>

-----------------------------------------------------------------------------
(* The node and the network.                                                 *)

Answer(request, ack, b, data) == [to |-> request, ack |-> ack, block |-> b, data |-> data]

\* The node takes the next request, which is r, and answers with the events of answers.
Requested(r) == toNode # <<>> /\ Head(toNode).to = r

Reply(answers) ==
  /\ toNode' = Tail(toNode)
  /\ toHost' = toHost \o answers
  /\ UNCHANGED <<host, await, ex, restarts>>

\* It refuses any request, with data of its own.
NodeRefuses ==
  \E r \in {"ENTER", "START", "CHUNK", "PROGRAM"}, size \in {0, BlockSize} :
    /\ Requested(r) /\ (mode = "boot" \/ r = "ENTER")
    /\ Reply(<<Answer(r, FALSE, 0, <<size>>)>>)
    /\ UNCHANGED node

NodeEnters ==
  /\ Requested("ENTER")
  /\ Reply(<<Answer("ENTER", TRUE, 0, <<BlockSize>>)>>)
  /\ mode' = "boot" /\ at' = NoBlock /\ buffer' = <<>>
  /\ UNCHANGED flash

NodeStarts ==
  /\ Requested("START") /\ mode = "boot"
  /\ Reply(<<Answer("START", TRUE, 0, <<>>)>>)
  /\ at' = Head(toNode).at /\ buffer' = <<>>
  /\ UNCHANGED <<mode, flash>>

\* The chunk that completes the block is followed by an answer to the block.
NodeCollects ==
  /\ Requested("CHUNK") /\ mode = "boot" /\ at # NoBlock /\ Len(buffer) < NChunks
  /\ buffer' = buffer \o Head(toNode).data
  /\ \E good \in BOOLEAN :
       LET toChunk == Answer("CHUNK", TRUE, 0, <<>>)
           toBlock == Answer("DATA", good, at[2], buffer')
       IN Reply(IF Len(buffer') = NChunks THEN <<toChunk, toBlock>> ELSE <<toChunk>>)
  /\ UNCHANGED <<mode, at, flash>>

\* It programs the block it has collected; if that fails the old contents are gone.
NodePrograms ==
  /\ Requested("PROGRAM") /\ mode = "boot" /\ at # NoBlock
  /\ Len(buffer) = NChunks /\ Head(toNode).at[2] = at[2]
  /\ \E good \in BOOLEAN :
       /\ Reply(<<Answer("PROGRAM", good, 0, <<>>)>>)
       /\ flash' = [flash EXCEPT ![at] = IF good THEN buffer ELSE <<>>]
  /\ UNCHANGED <<mode, at, buffer>>

NodeRestarts ==
  /\ restarts < MaxRestarts /\ mode = "boot"
  /\ restarts' = restarts + 1
  /\ mode' = "application" /\ at' = NoBlock /\ buffer' = <<>>
  /\ UNCHANGED <<host, await, ex, toNode, toHost, flash>>

\* A request the network loses or the application ignores, and an answer that is lost.
RequestLost ==
  /\ toNode # <<>> /\ toNode' = Tail(toNode)
  /\ UNCHANGED <<host, await, ex, toHost, node, restarts>>

AnswerLost ==
  /\ toHost # <<>> /\ toHost' = Tail(toHost)
  /\ UNCHANGED <<host, await, ex, toNode, node, restarts>>

-----------------------------------------------------------------------------

Waiting == CheckResponse \/ CheckResponseTimeout

HostStep ==
  \/ DeviceInit \/ DeviceInitRefuses \/ DeviceInitEnds \/ NextMemtype
  \/ WriteBlockStart \/ WriteBlockStartEnds \/ WriteChunk \/ WriteChunkEnds
  \/ WriteBlockEnds \/ ProgramBlock \/ ProgramBlockEnds \/ SendFails

NodeStep ==
  NodeEnters \/ NodeStarts \/ NodeCollects \/ NodePrograms \/ NodeRefuses \/ NodeRestarts

Next == Waiting \/ HostStep \/ NodeStep \/ RequestLost \/ AnswerLost

\* The host's thread runs, and the clock that ends a wait advances.  Nothing is assumed of
\* the node or of the network.
Spec == Init /\ [][Next]_vars /\ WF_vars(HostStep) /\ WF_vars(CheckResponseTimeout)

-----------------------------------------------------------------------------

\* The types of the variables.
TypeOK ==
  /\ pc \in {"idle", "init", "memtype", "start", "started", "chunk", "chunked", "data",
             "program", "programmed", "end"}
  /\ memtype \in 1 .. Len(Image) + 1 /\ block \in Nat
  /\ trycnt \in 0 .. Tries /\ chunk \in 0 .. NChunks
  /\ await \in Answers \cup {None}
  /\ rv \in {"SUCCESS", "NACK", "TIMEOUT", "ERROR", "INVALID_FRAME", "SIZE"}
  /\ mode \in {"application", "boot"} /\ at \in Blocks \cup {NoBlock}
  /\ Len(buffer) <= NChunks /\ DOMAIN flash = Blocks
  /\ restarts \in 0 .. MaxRestarts

\* Where a block stands relative to the one being loaded.
Passed(x) == x[1] < memtype \/ (x[1] = memtype /\ x[2] < block)
Ahead(x) == x[1] > memtype \/ (x[1] = memtype /\ x[2] > block)

\* A block that deviceLoad has passed is in the node's memory, and stays there, whatever was
\* lost, late or tried again.  Neither the answer to START_BLOCK nor that to PROGRAM_BLOCK_DATA
\* names its block in checkResponse, so a late answer can be taken for the next one; that
\* never goes so far that the host is ahead of the node.
PassedIsProgrammed == \A x \in Blocks : Passed(x) => flash[x] = BlockData(x)

\* The node never programs data other than the image's: writeBlock confirms what the node
\* holds before programBlock, also when chunks of two tries mix in the node's buffer.  A load
\* that gives up has not touched the blocks behind the one that failed: no request of
\* deviceLoad makes the node program a block that the host has not reached.
OnlyImageData == \A x \in Blocks : flash[x] = <<>> \/ (flash[x] = BlockData(x) /\ ~Ahead(x))

\* deviceInit and deviceLoad return, even if the node never answers.
LoadReturns == <>(pc = "end")

\* The documentation of checkResponse: a NACK event that ends the wait makes it return
\* VSCP_ERROR_NACK.
NackIsReported ==
  [][(CheckResponse /\ await' = None /\ ~ex'.ack) => rv' = "NACK"]_vars
-----------------------------------------------------------------------------
(* Why these hold: the inductive invariant, for a client that tells a NACK.  *)
(* The stream is what is in toHost followed by what is in toNode, oldest     *)
(* first.  Answers are taken from its front and requests added at its end,   *)
(* so that all that is older than an answer is gone once it is taken.        *)

Current == <<memtype, block>>
Here == at \in {Current, NoBlock}

\* No message of the stream is of a kind in K.
NoneOf(K) == /\ \A i \in 1 .. Len(toHost) : toHost[i].to \notin K
             /\ \A i \in 1 .. Len(toNode) : toNode[i].to \notin K
Only(K) == NoneOf(Answers \ K)
Quiet == toHost = <<>> /\ toNode = <<>>

\* No message of a kind in K is ahead of one of a kind in L.
Never(K, L) ==
  /\ \A i, j \in 1 .. Len(toHost) : i < j /\ toHost[i].to \in K => toHost[j].to \notin L
  /\ \A i \in 1 .. Len(toHost), j \in 1 .. Len(toNode) : toHost[i].to \in K => toNode[j].to \notin L
  /\ \A i, j \in 1 .. Len(toNode) : i < j /\ toNode[i].to \in K => toNode[j].to \notin L

Start == {"START"}
Program == {"PROGRAM"}
Others == Answers \ Start

\* How far the try is: START_BLOCK, a chunk, the block, the programming is acknowledged.
Acknowledged(p) == At(p) /\ rv = "SUCCESS"
Writing == pc \in {"chunk", "chunked", "data"}
Started == Acknowledged("started") \/ Writing \/ pc \in {"program", "programmed"}
Confirmed == (Acknowledged("data") /\ BlockConfirmed) \/ pc = "program"

Requests == [to : Answers, at : Blocks \cup {NoBlock}, data : Seq(Nat)]
Events == [to : Answers, ack : BOOLEAN, block : Nat, data : Seq(Nat)]

StreamOK ==
  /\ device \in Loads
  /\ toNode \in Seq(Requests) /\ toHost \in Seq(Events)
  /\ buffer \in Seq(Nat)
  /\ pc \in {"start", "started", "chunk", "chunked", "data", "program", "programmed"} =>
       Current \in Blocks /\ trycnt > 0
  /\ pc \in {"chunk", "chunked"} => chunk < NChunks
  /\ pc \in {"idle", "init", "memtype"} => block = 0
  /\ await # None => <<pc, await>> \in {<<"init", "ENTER">>, <<"started", "START">>, <<"chunked", "CHUNK">>,
                                        <<"data", "DATA">>, <<"programmed", "PROGRAM">>}

\* What the requests on their way ask for, and where the node is.
RequestInv ==
  /\ at = NoBlock \/ at = Current \/ Passed(at)
  /\ \A i \in 1 .. Len(toNode) :
       /\ toNode[i].to = "START" => toNode[i].at = Current
       /\ toNode[i].to = "CHUNK" => \E k \in 1 .. NChunks : toNode[i].data = <<BlockData(Current)[k]>>
  /\ NChunks = 1 /\ at = Current => buffer = <<>> \/ buffer = BlockData(Current)

\* Between two blocks nothing is on its way.
QuietInv ==
  /\ pc \in {"idle", "memtype"} => Quiet
  /\ pc = "init" => Only({"ENTER"}) /\ Never({"ENTER"}, {"ENTER"})
  /\ Acknowledged("init") => Quiet
  /\ Acknowledged("programmed") => Quiet

\* What earlier tries can have left on its way.  Try 3 is the first in which an answer to a
\* chunk can be late, and only a fourth one could meet a late answer to PROGRAM_BLOCK_DATA.
FirstTryInv ==
  trycnt = 3 =>
    /\ pc = "start" => Quiet
    /\ pc = "started" => Only(Start) /\ Never(Start, Start)
    /\ Started => NoneOf(Start)
SecondTryInv ==
  trycnt = 2 =>
    /\ pc = "start" => Only(Start) \/ NoneOf(Start)
    /\ pc = "started" => Never(Start, Others)
    /\ Acknowledged("started") \/ (pc = "chunk" /\ chunk = 0) => Only(Start)
    /\ Writing => Never(Others, Start)
    /\ (Writing /\ chunk > 0) \/ Acknowledged("chunked") \/ Acknowledged("data") \/ pc \in {"program", "programmed"}
         => NoneOf(Start)
ThirdTryInv == trycnt = 1 /\ pc \in {"start", "started"} => Never(Start, Program)
ProgramInv == /\ Started /\ pc # "programmed" => NoneOf(Program)
              /\ pc = "programmed" => Never(Program, Answers)
StreamInv == QuietInv /\ FirstTryInv /\ SecondTryInv /\ ThirdTryInv /\ ProgramInv

\* What follows a START_BLOCK whose answer came late: its first chunk, and an answer to the
\* block only if that chunk is the whole block.
Late ==
  /\ \A i, j \in 1 .. Len(toHost) : i < j /\ toHost[i].to = "START" /\ toHost[j].to = "DATA" => NChunks = 1
  /\ \A j \in 1 .. Len(toNode) :
       /\ toNode[j].to = "CHUNK"
       /\ \/ \E i \in 1 .. Len(toHost) : toHost[i].to = "START"
          \/ \E i \in 1 .. j - 1 : toNode[i].to = "START"
       => /\ at = NoBlock \/ buffer = <<>>
          /\ \A k \in 1 .. Len(toNode) : toNode[k].to = "CHUNK" => k = j
LateInv ==
  /\ trycnt = 2 /\ (Acknowledged("started") \/ (pc = "chunk" /\ chunk = 0)) => at = NoBlock \/ buffer = <<>>
  /\ (trycnt = 2 /\ Writing) \/ (trycnt = 1 /\ pc \in {"start", "started"}) => Late

\* The same once that answer has been taken for the one to a later START_BLOCK.
Mixed ==
  /\ \A i, j \in 1 .. Len(toHost) : i < j /\ toHost[i].to = "DATA" /\ toHost[j].to = "START" => NChunks = 1
  /\ \A i \in 1 .. Len(toHost), j \in 1 .. Len(toNode) :
       toHost[i].to = "DATA" /\ toNode[j].to = "START" => NChunks = 1
  /\ \A i, j \in 1 .. Len(toNode) :
       i < j /\ toNode[i].to = "CHUNK" /\ toNode[j].to = "START" =>
         /\ at = NoBlock \/ buffer = <<>>
         /\ \A k \in 1 .. Len(toNode) : toNode[k].to = "CHUNK" => k = i \/ k > j
MixedInv == trycnt = 1 /\ (Acknowledged("started") \/ Writing) => Mixed

\* What the answers on their way say about the node.
AnswerInv ==
  \A i \in 1 .. Len(toHost) :
    /\ toHost[i].to = "START" /\ toHost[i].ack =>
         /\ Here
         /\ (\A j \in i + 1 .. Len(toHost) : toHost[j].to # "CHUNK") => at = NoBlock \/ buffer = <<>>
    /\ toHost[i].to = "DATA" /\ (\A j \in i + 1 .. Len(toHost) : toHost[j].to # "START") =>
         at = NoBlock \/ (Len(buffer) = NChunks /\ buffer = toHost[i].data)
    /\ toHost[i].to = "PROGRAM" /\ toHost[i].ack /\ (\A j \in i + 1 .. Len(toHost) : toHost[j].to # "PROGRAM") =>
         flash[Current] = BlockData(Current)

\* A block is only programmed after the node has confirmed it: the node still has it, or what
\* comes before the request is a whole block again.
ReadyInv ==
  /\ Started => Here
  /\ Confirmed => \/ NChunks = 1
                  \/ /\ \A j \in 1 .. Len(toNode) : toNode[j].to # "START"
                     /\ at = NoBlock \/ buffer = BlockData(Current)
  /\ Acknowledged("programmed") => flash[Current] = BlockData(Current)
ProgramReady ==
  \A i \in 1 .. Len(toNode) : toNode[i].to = "PROGRAM" =>
    /\ Here
    /\ \/ NChunks = 1
       \/ /\ \A j \in 1 .. i - 1 : toNode[j].to # "START"
          /\ at = NoBlock \/ buffer = BlockData(Current)

IInv == /\ TypeOK /\ StreamOK /\ RequestInv /\ StreamInv
        /\ LateInv /\ MixedInv
        /\ AnswerInv /\ ReadyInv /\ ProgramReady /\ OnlyImageData /\ PassedIsProgrammed
=============================================================================

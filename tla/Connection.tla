------------------------------ MODULE Connection ------------------------------
(***************************************************************************)
(* A child's connection to its storage server: the calls of                *)
(* NetIOConnector (src/src/NetIOConnector.cpp) that RingORAM and the       *)
(* start-up of a child make, the byte stream between the two processes,    *)
(* and the server that takes the stream apart                              *)
(* (src/Testing/Unit Tests/Servers_MultiRingORAM.cpp).                     *)
(*                                                                         *)
(* insert_slot, clear and setTupleLength are sent and not answered;        *)
(* find_slot and the barrier of the bulk upload wait for an answer.  The   *)
(* server's map of slots outlives its connections, so a run of the program *)
(* starts on what an earlier run, perhaps one that was killed, left there. *)
(*                                                                         *)
(* Abstractions.  The stream is a sequence of units: an opcode, a name and *)
(* a number are one unit each, a ciphertext is BlockSize of them.  A unit  *)
(* read in the place of another kind could be any number.  A ciphertext is *)
(* the run, the number of the write and the slot it was made for:          *)
(* encryption is random, so no two writes send the same.  One port serves  *)
(* one ORAM name.  Where the child is in its program is the variable at.   *)
(*                                                                         *)
(* The address of a slot is a 32-bit product.  In a tree with more than    *)
(* 2^Width units it wraps, nothing refuses that, and slots share an        *)
(* address: the properties say what holds of addresses in any tree, and of *)
(* slots in one that fits.                                                 *)
(***************************************************************************)
EXTENDS Integers, Sequences, FiniteSets

CONSTANTS
  BucketSize,  \* slots of a bucket
  BlockSize,   \* length of a ciphertext, in units of the stream and of addresses
  Trees,       \* numbers of buckets a run's tree may have
  Width,       \* bits of a slot address, 32 in the code
  ChunkSize,   \* CHUNK_BYTES: length of the buffer that makes the upload flush
  MaxRuns,     \* bound: connections
  MaxOps       \* bound: slots read or written after the start-up of a run

ASSUME ConnectionAssumption ==
  /\ {BucketSize, BlockSize, ChunkSize} \subseteq Nat \ {0}
  /\ Trees \subseteq Nat \ {0} /\ \E t \in Trees : \A u \in Trees : u <= t
  /\ 2 ^ Width \in Nat \ {0}
  /\ {MaxRuns, MaxOps} \subseteq Nat

VARIABLES
  at,        \* where the child is in its program
  bulk,      \* it runs ServerInitializationBulk
  tree,      \* buckets of its tree
  next,      \* slots built, or streamed, so far
  silent,    \* silent_: insert_slot does nothing
  buf,       \* the chunk bulk_init_tree_stream is filling
  asked,     \* the slot find_slot waits for
  mem,       \* history: what the ORAM last put at each address in this run
  ops,       \* slots read and written since the start-up
  runs,      \* connections made
  toServer,  \* units sent and not read by the server
  toClient,  \* units sent back and not read by the child
  session,   \* the server waits in accept, handles a client, or has ended
  storage    \* server_storage: address -> units, <<>> where there is none

client == <<at, bulk, tree, next, silent, buf, asked, mem, ops, runs>>
server == <<session, storage>>
connection == <<client, server, toServer, toClient>>

------------------------------------------------------------------------------
(* Slots and the stream. *)

MaxTree == CHOOSE t \in Trees : \A u \in Trees : u <= t
Slots(t) == 0 .. t * BucketSize - 1
AllSlots == Slots(MaxTree)
Addresses == 0 .. 2 ^ Width - 1

\* The slots of the tree have addresses of their own.
Fits(t) == t * BucketSize * BlockSize <= 2 ^ Width

Ciphers == (1 .. MaxRuns) \X (0 .. MaxOps) \X AllSlots
SlotOf(v) == v[3]
Zeros == <<0, 0, 0>>    \* what find_slot gets for a slot the server does not have
NoCipher == <<0, 1, 0>> \* an address the ORAM has not written in this run

\* Mutant: the bucket's part of the address leaves out the bucket size.
PackedAddress(i) ==
  ((i \div BucketSize) * BlockSize + (i % BucketSize) * BlockSize) % 2 ^ Width

\* The address of slot i of the tree, slot i % BucketSize of its bucket.
Address(i) ==
  ((i \div BucketSize) * BucketSize * BlockSize + (i % BucketSize) * BlockSize)
    % 2 ^ Width

Op(code) == [kind |-> "op", val |-> code]
Name == [kind |-> "name", val |-> 0]
U32(n) == [kind |-> "u32", val |-> n]
Data(v) == [kind |-> "data", val |-> v]
Block(v) == [i \in 1 .. BlockSize |-> Data(v)]
Ack == [kind |-> "ack", val |-> 1]

CLEAR == 0
INSERT_SLOT == 1
FIND_SLOT == 3
SET_TUPLE_LENGTH == 9
CHUNK_BARRIER == 10
CLOSE == -1

\* Mutant: a ciphertext shorter than a block is not padded.
UnpaddedUnits(i, v) ==
  <<Op(INSERT_SLOT), Name, U32(Address(i)), U32(BlockSize), Data(v)>>

\* The units of one slot, in insert_slot and in the bulk upload alike.
SlotUnits(i, v) ==
  <<Op(INSERT_SLOT), Name, U32(Address(i)), U32(BlockSize)>> \o Block(v)

Send(units) == toServer' = toServer \o units

ConnectionInit ==
  /\ at = "down" /\ bulk = FALSE /\ tree = 0 /\ next = 0 /\ silent = FALSE
  /\ buf = <<>> /\ asked = 0 /\ ops = 0 /\ runs = 0
  /\ mem = [a \in Addresses |-> NoCipher]
  /\ toServer = <<>> /\ toClient = <<>>
  /\ session = "accept"
  /\ storage = [a \in Addresses |-> <<>>]

------------------------------------------------------------------------------
(* The child. *)

\* The child connects; the server's accept returns.
Connect ==
  /\ at = "down" /\ session = "accept" /\ runs < MaxRuns
  /\ \E t \in Trees, b \in BOOLEAN : tree' = t /\ bulk' = b
  /\ at' = "clear"
  /\ session' = "open"
  /\ runs' = runs + 1
  /\ UNCHANGED <<next, silent, buf, asked, mem, ops, storage, toServer, toClient>>

\* Mutant: the slots of earlier runs are not cleared.
KeepStorage ==
  /\ at = "clear"
  /\ silent' = bulk
  /\ at' = "length"
  /\ UNCHANGED <<bulk, tree, next, buf, asked, mem, ops, runs, toServer, toClient, server>>

\* clear, and silent mode for the constructor of a bulk initialization.
ClearStorage ==
  /\ at = "clear"
  /\ Send(<<Op(CLEAR), Name>>)
  /\ silent' = bulk
  /\ at' = "length"
  /\ UNCHANGED <<bulk, tree, next, buf, asked, mem, ops, runs, toClient, server>>

\* The constructor of RingORAM announces the block length.
SetTupleLength ==
  /\ at = "length"
  /\ Send(<<Op(SET_TUPLE_LENGTH), Name, U32(BlockSize)>>)
  /\ at' = "build"
  /\ UNCHANGED <<bulk, tree, next, silent, buf, asked, mem, ops, runs, toClient, server>>

\* insert_slot, a no-op in silent mode.
InsertSlot(i, v) ==
  /\ mem' = [mem EXCEPT ![Address(i)] = v]
  /\ IF silent THEN UNCHANGED toServer ELSE Send(SlotUnits(i, v))

\* The constructor fills the next slot of the tree with a dummy.
BuildSlot ==
  /\ at = "build" /\ next \in Slots(tree)
  /\ InsertSlot(next, <<runs, 0, next>>)
  /\ next' = next + 1
  /\ UNCHANGED <<at, bulk, tree, silent, buf, asked, ops, runs, toClient, server>>

\* The constructor returns: silent mode ends, and a bulk initialization goes on to
\* stream the tree.
Built ==
  /\ at = "build" /\ next \notin Slots(tree)
  /\ at' = IF bulk THEN "stream" ELSE "serve"
  /\ next' = 0
  /\ silent' = FALSE
  /\ UNCHANGED <<bulk, tree, buf, asked, mem, ops, runs, toServer, toClient, server>>

\* flush_with_barrier sends what the buffer holds and waits for the answer.
Flush(units) ==
  /\ Send(units \o <<Op(CHUNK_BARRIER)>>)
  /\ buf' = units
  /\ at' = "ack"

\* Mutant: the buffer is cut where the chunk is full, in the middle of a slot.
FlushInSlot ==
  /\ at = "stream" /\ next \in Slots(tree)
  /\ mem' = [mem EXCEPT ![Address(next)] = <<runs, 0, next>>]
  /\ LET units == buf \o SlotUnits(next, <<runs, 0, next>>)
     IN  IF Len(units) < ChunkSize
         THEN buf' = units /\ UNCHANGED <<at, toServer>>
         ELSE /\ Send(SubSeq(units, 1, ChunkSize) \o <<Op(CHUNK_BARRIER)>>
                        \o SubSeq(units, ChunkSize + 1, Len(units)))
              /\ buf' = units
              /\ at' = "ack"
  /\ next' = next + 1
  /\ UNCHANGED <<bulk, tree, silent, asked, ops, runs, toClient, server>>

\* bulk_init_tree_stream adds the next slot to the buffer and flushes it when it is
\* long enough, at the end of the slot.
StreamSlot ==
  /\ at = "stream" /\ next \in Slots(tree)
  /\ mem' = [mem EXCEPT ![Address(next)] = <<runs, 0, next>>]
  /\ LET units == buf \o SlotUnits(next, <<runs, 0, next>>)
     IN  IF Len(units) >= ChunkSize
         THEN Flush(units)
         ELSE buf' = units /\ UNCHANGED <<at, toServer>>
  /\ next' = next + 1
  /\ UNCHANGED <<bulk, tree, silent, asked, ops, runs, toClient, server>>

\* Mutant: the last chunk is sent without a barrier.
EndUnanswered ==
  /\ at = "stream" /\ next \notin Slots(tree)
  /\ Send(buf)
  /\ buf' = <<>>
  /\ at' = "serve"
  /\ UNCHANGED <<bulk, tree, next, silent, asked, mem, ops, runs, toClient, server>>

\* The last, partial chunk; without one the child is ready.
StreamEnd ==
  /\ at = "stream" /\ next \notin Slots(tree)
  /\ IF buf = <<>>
     THEN at' = "serve" /\ UNCHANGED <<buf, toServer>>
     ELSE Flush(buf)
  /\ UNCHANGED <<bulk, tree, next, silent, asked, mem, ops, runs, toClient, server>>

\* The answer to the barrier arrives and the buffer is emptied.
RecvAck ==
  /\ at = "ack" /\ toClient # <<>> /\ Head(toClient) = Ack
  /\ toClient' = Tail(toClient)
  /\ buf' = <<>>
  /\ at' = "stream"
  /\ UNCHANGED <<bulk, tree, next, silent, asked, mem, ops, runs, toServer, server>>

\* WriteBucket writes a slot of a bucket.
WriteSlot ==
  /\ at = "serve" /\ ops < MaxOps
  /\ \E i \in Slots(tree) : InsertSlot(i, <<runs, ops + 1, i>>)
  /\ ops' = ops + 1
  /\ UNCHANGED <<at, bulk, tree, next, silent, buf, asked, runs, toClient, server>>

\* ReadPath and ReadBucket ask for a slot with find_slot, which names the bucket too.
AskSlot ==
  /\ at = "serve" /\ ops < MaxOps
  /\ \E i \in Slots(tree) :
       /\ asked' = i
       /\ Send(<<Op(FIND_SLOT), Name, U32(i \div BucketSize), U32(Address(i)),
                 U32(BlockSize)>>)
  /\ ops' = ops + 1
  /\ at' = "find"
  /\ UNCHANGED <<bulk, tree, next, silent, buf, mem, runs, toClient, server>>

\* find_slot returns when the whole block is there.
RecvSlot ==
  /\ at = "find" /\ Len(toClient) >= BlockSize
  /\ toClient' = SubSeq(toClient, BlockSize + 1, Len(toClient))
  /\ at' = "serve"
  /\ UNCHANGED <<bulk, tree, next, silent, buf, asked, mem, ops, runs, toServer, server>>

\* The child's memory and the answers on their way to it are gone.
Gone ==
  /\ at' = "down" /\ bulk' = FALSE /\ tree' = 0 /\ next' = 0 /\ silent' = FALSE
  /\ buf' = <<>> /\ asked' = 0 /\ ops' = 0
  /\ mem' = [a \in Addresses |-> NoCipher]
  /\ toClient' = <<>>
  /\ UNCHANGED <<runs, server>>

\* The connector is destroyed: the close code, then the end of the stream.
Close ==
  /\ at = "serve"
  /\ Send(<<Op(CLOSE)>>)
  /\ Gone

\* The child ends without a close code, wherever it is: what it had not handed to the
\* network is lost, from some unit on.
Exit ==
  /\ at # "down"
  /\ \E n \in 0 .. Len(toServer) : toServer' = SubSeq(toServer, 1, n)
  /\ Gone

Client ==
  \/ ClearStorage \/ SetTupleLength \/ BuildSlot \/ Built
  \/ StreamSlot \/ StreamEnd \/ RecvAck \/ RecvSlot

------------------------------------------------------------------------------
(* The server.  A handler blocks until its fields are there, so it is one step that
waits for them. *)

Arrived(n) == Len(toServer) >= n
Take(n) == toServer' = SubSeq(toServer, n + 1, Len(toServer))

\* The number in the n-th unit; a unit of another kind could be any small number.
NumberAt(n) ==
  IF toServer[n].kind = "u32" THEN {toServer[n].val} ELSE Addresses

\* The next opcode is this one.  That the server takes nothing else for an opcode is
\* what InStep says.
NextIs(code) == session = "open" /\ Arrived(1) /\ toServer[1] = Op(code)

HandleClear ==
  /\ NextIs(CLEAR) /\ Arrived(2)
  /\ Take(2)
  /\ storage' = [a \in Addresses |-> <<>>]
  /\ UNCHANGED <<client, session, toClient>>

HandleInsertSlot ==
  /\ NextIs(INSERT_SLOT) /\ Arrived(4)
  /\ \E a \in NumberAt(3), size \in NumberAt(4) :
       /\ Arrived(4 + size)
       /\ storage' = [storage EXCEPT ![a] = SubSeq(toServer, 5, 4 + size)]
       /\ Take(4 + size)
  /\ UNCHANGED <<client, session, toClient>>

\* A slot the server does not have, or has with another length, is answered with zeros.
HandleFindSlot ==
  /\ NextIs(FIND_SLOT) /\ Arrived(5)
  /\ \E a \in NumberAt(4), size \in NumberAt(5) :
       toClient' = toClient \o
         (IF Len(storage[a]) = size THEN storage[a] ELSE [k \in 1 .. size |-> Data(Zeros)])
  /\ Take(5)
  /\ UNCHANGED <<client, server>>

HandleSetTupleLength ==
  /\ NextIs(SET_TUPLE_LENGTH) /\ Arrived(3)
  /\ Take(3)
  /\ UNCHANGED <<client, server, toClient>>

HandleChunkBarrier ==
  /\ NextIs(CHUNK_BARRIER)
  /\ toClient' = Append(toClient, Ack)
  /\ Take(1)
  /\ UNCHANGED <<client, server>>

\* The close code ends the session; the server accepts again.
HandleClose ==
  /\ NextIs(CLOSE)
  /\ session' = "accept"
  /\ toServer' = <<>> /\ toClient' = <<>>
  /\ UNCHANGED <<client, storage>>

Handle ==
  \/ HandleClear \/ HandleInsertSlot \/ HandleFindSlot \/ HandleSetTupleLength
  \/ HandleChunkBarrier \/ HandleClose

\* The stream begins with a whole message.
MessageArrived ==
  \/ NextIs(CLEAR) /\ Arrived(2)
  \/ NextIs(INSERT_SLOT) /\ Arrived(4) /\ \E size \in NumberAt(4) : Arrived(4 + size)
  \/ NextIs(FIND_SLOT) /\ Arrived(5)
  \/ NextIs(SET_TUPLE_LENGTH) /\ Arrived(3)
  \/ NextIs(CHUNK_BARRIER)
  \/ NextIs(CLOSE)

\* The child is gone and its stream at an end: recv throws and the session ends.
SessionEnds ==
  /\ session = "open" /\ at = "down"
  /\ toServer = <<>>
  /\ session' = "accept"
  /\ toClient' = <<>>
  /\ UNCHANGED <<client, toServer, storage>>

\* It ends inside a message: recv throws in a handler, nobody catches that, and the
\* server ends with all it has stored.
ServerEnds ==
  /\ session = "open" /\ at = "down"
  /\ toServer # <<>> /\ ~ MessageArrived
  /\ session' = "ended"
  /\ storage' = [a \in Addresses |-> <<>>]
  /\ toServer' = <<>> /\ toClient' = <<>>
  /\ UNCHANGED client

Server == Handle \/ SessionEnds \/ ServerEnds

ConnectionNext == Connect \/ Client \/ WriteSlot \/ AskSlot \/ Close \/ Exit \/ Server

\* The server and a started child go on by themselves; whether the ORAM reads and
\* writes slots, and whether the child ends, is up to others.
ConnectionSpec == ConnectionInit /\ [][ConnectionNext]_connection /\ WF_connection(Client) /\ WF_connection(Server)

------------------------------------------------------------------------------
(* Properties. *)

\* The variables have the types of the code's fields.
ConnectionTypeOK ==
  /\ at \in {"down", "clear", "length", "build", "stream", "ack", "serve", "find"}
  /\ {bulk, silent} \subseteq BOOLEAN
  /\ tree \in Trees \cup {0} /\ next \in 0 .. MaxTree * BucketSize
  /\ asked \in AllSlots /\ ops \in 0 .. MaxOps /\ runs \in 0 .. MaxRuns
  /\ mem \in [Addresses -> Ciphers \cup {NoCipher}]
  /\ session \in {"accept", "open", "ended"}
  /\ DOMAIN storage = Addresses

\* What was last put at the address of slot i is that slot's, if the tree fits.
Kept(i) == Fits(tree) => SlotOf(mem[Address(i)]) = i

\* find_slot returns what the ORAM last put at that slot's address in this run, which in
\* a tree that fits is what it put in that slot: although insert_slot is not answered,
\* never the zeros of a slot that is still on its way, nor a ciphertext of an earlier run.
AnswersAreLatest ==
  at = "find" /\ Len(toClient) >= BlockSize =>
    toClient = Block(mem[Address(asked)]) /\ Kept(asked)

\* The server takes the stream apart where the child put it together: the next unit it
\* will take for an opcode was written as one, in both ways to upload a tree.
InStep == session = "open" /\ toServer # <<>> => toServer[1].kind = "op"

\* A child of the bulk initialization that says it is ready has its whole tree on the
\* server, however far the server had fallen behind; in a tree that does not fit, the last
\* slot of each address.
ReadyMeansStored ==
  at = "serve" /\ bulk /\ ops = 0 =>
    \A i \in Slots(tree) : storage[Address(i)] = Block(mem[Address(i)]) /\ Kept(i)

\* Once the server has caught up with a started child it holds the child's tree and
\* nothing else: no slot of a larger tree of an earlier run is left behind.
TreeOnly ==
  at = "serve" /\ toServer = <<>> =>
    /\ \A a \in Addresses :
         storage[a] = IF \E i \in Slots(tree) : Address(i) = a THEN Block(mem[a]) ELSE <<>>
    /\ \A i \in Slots(tree) : Kept(i)

\* A child that connects gets ready, and one that asks for a slot gets it: nothing
\* between the two processes can leave it waiting for an answer, unless it exits.
AlwaysGoesOn == at \notin {"serve", "down"} ~> at \in {"serve", "down"}
==============================================================================

------------------------------- MODULE Dispatch -------------------------------
(***************************************************************************)
(* How a plan's operations reach the ORAMs                                 *)
(* (src/src/MultiRingORAM_Servers.cpp): executeOramOps groups them by      *)
(* server, puts the reads first, cuts and pads batches, and starts one     *)
(* worker thread per server; a worker translates primary keys to block ids *)
(* and sends each batch, in rounds of at most FIXED_BATCH_SIZE operations, *)
(* through the pipe of the server's child process, which executes them one *)
(* by one and answers the round.                                           *)
(*                                                                         *)
(* Abstractions.  A child's ORAM is the store that module RingORAM is      *)
(* checked to implement.  The header of a round travels with its first     *)
(* operation.  Every server has a process.                                 *)
(***************************************************************************)
EXTENDS Transactions

CONSTANTS
  BlockIds,       \* block ids, numbers as primary keys are
  pk_to_blockid,  \* the block of each loaded record, by server and primary key
  LoadedBlocks,   \* what the ORAMs hold at the start, by server and block
  Calls,          \* the plans executeOramOps is called with
  BatchSize,      \* bread, bwrite
  FixedBatch,     \* FIXED_BATCH_SIZE
  PipeSize        \* operations a pipe holds

ASSUME MapAssumption ==
  /\ DOMAIN pk_to_blockid \subseteq Keys
  /\ \A k \in DOMAIN pk_to_blockid : pk_to_blockid[k] \in BlockIds
  /\ PrimaryKeys \cup {0} \subseteq BlockIds
  /\ \A k, l \in DOMAIN pk_to_blockid :
       k[1] = l[1] /\ pk_to_blockid[k] = pk_to_blockid[l] => k = l
\* Every record has been loaded into its block; a block of its own content is not empty.
ASSUME LoadAssumption ==
  /\ LoadedBlocks \in [Servers -> [BlockIds -> Results]]
  /\ \A k \in DOMAIN pk_to_blockid : LoadedBlocks[k[1]][pk_to_blockid[k]] # None
ASSUME CallsAssumption == Calls \subseteq Seq(Operations)
ASSUME BatchAssumption ==
  /\ BatchSize \in Nat \ {0}
  /\ FixedBatch \in Nat \ {0}
  /\ PipeSize \in Nat \ {0}

VARIABLES
  oram,      \* the content of every block, by server
  bound,     \* oram_bound_ops of the call
  slots,     \* per_slot_results
  worker,    \* what the thread of each server is doing
  batches,   \* the batches a worker has not finished
  offset,    \* operations of the first batch whose round is over
  written,   \* operations of the round in the pipe or beyond
  received,  \* per_op_results of the batch so far
  pipe,      \* to_child
  op_results,\* what the child has executed of the round
  reply,     \* from_child: the answer to a round
  dead,      \* children that have exited
  killed,    \* the proxy died of SIGPIPE
  ran,       \* history: what each executed operation of the call returned
  goneBefore,\* history: the children that had exited when the call began
  broken     \* history: the server on whose pipe the proxy got SIGPIPE

proxy == <<bound, slots, worker, batches, offset, written, received>>
child == <<oram, op_results, dead, ran>>
channels == <<pipe, reply>>
signal == <<killed, broken>>
vars == <<proxy, child, channels, signal, goneBefore>>

NoReply == << -1 >>
ASSUME NoReplyAssumption == -1 \notin Results
SlotDummy == -1  \* kSlotDummy
Slots == DOMAIN bound

TypeOK ==
  /\ oram \in [Servers -> [BlockIds -> Results]]
  /\ bound \in Calls \cup {<< >>}
  /\ slots \in [Slots -> Results]
  /\ worker \in [Servers -> {"none", "run", "ok", "failed"}]
  /\ \A s \in Servers :
       /\ offset[s] \in 0 .. BatchSize
       /\ written[s] \in 0 .. FixedBatch
       /\ Len(pipe[s]) <= PipeSize
       /\ Len(op_results[s]) < FixedBatch
  /\ dead \subseteq Servers
  /\ goneBefore \subseteq dead
  /\ killed = (broken # {})

Init ==
  /\ oram = LoadedBlocks
  /\ bound = << >>
  /\ slots = << >>
  /\ worker = [s \in Servers |-> "none"]
  /\ batches = [s \in Servers |-> << >>]
  /\ offset = [s \in Servers |-> 0]
  /\ written = [s \in Servers |-> 0]
  /\ received = [s \in Servers |-> << >>]
  /\ pipe = [s \in Servers |-> << >>]
  /\ op_results = [s \in Servers |-> << >>]
  /\ reply = [s \in Servers |-> NoReply]
  /\ dead = {}
  /\ killed = FALSE
  /\ broken = {}
  /\ goneBefore = {}
  /\ ran = << >>

------------------------------------------------------------------------------
(* buildBatchesFromOramOps. *)

\* What travels to a child: the operation, and the slot its result goes to.
Entry(slot, op) ==
  [slot |-> slot, type |-> op.type, key |-> op.key[2], val |-> op.val]
\* A padding operation reads block 0.
DummyEntry == [slot |-> SlotDummy, type |-> "READ", key |-> 0, val |-> None]

\* The operations of some slots as they travel, in the order of the plan.
EntriesAt(ops, chosen) ==
  LET upTo[n \in 0 .. Len(ops)] ==
        IF n = 0 THEN << >>
        ELSE IF n \in chosen THEN Append(upTo[n - 1], Entry(n, ops[n])) ELSE upTo[n - 1]
  IN  upTo[Len(ops)]

\* Reads first, each group in the order of the plan.
\* Mutant: a server's operations keep the order of the plan.
AsPlanned(ops, mine) == EntriesAt(ops, mine)
ReadsFirst(ops, mine) ==
  EntriesAt(ops, {slot \in mine : IsRead(ops[slot])})
    \o EntriesAt(ops, {slot \in mine : IsWrite(ops[slot])})

EntriesOf(s, ops) == ReadsFirst(ops, {slot \in DOMAIN ops : ops[slot].key[1] = s})

\* The pieces of at most n of a sequence, and the i-th of them.
NumPieces(seq, n) == (Len(seq) + n - 1) \div n
Piece(seq, n, i) ==
  SubSeq(seq, (i - 1) * n + 1, IF i * n < Len(seq) THEN i * n ELSE Len(seq))

Padded(batch, pad) ==
  IF pad THEN batch \o [i \in 1 .. BatchSize - Len(batch) |-> DummyEntry] ELSE batch

BatchesOf(s, ops, pad) ==
  LET entries == EntriesOf(s, ops) IN
  [i \in 1 .. NumPieces(entries, BatchSize) |-> Padded(Piece(entries, BatchSize, i), pad)]

\* lookupBlockId: a padding operation keeps its block, and an operation on a record
\* without a block keeps its primary key and is only marked as a dummy.
Translate(s, e) ==
  IF e.slot # SlotDummy /\ <<s, e.key>> \in DOMAIN pk_to_blockid
  THEN [e EXCEPT !.key = pk_to_blockid[<<s, e.key>>]]
  ELSE e

------------------------------------------------------------------------------
(* executeOramOps: the main thread. *)

Contacted(ops) == {ops[slot].key[1] : slot \in DOMAIN ops}
Returned == \A s \in Servers : worker[s] # "run"
Success == \A s \in Servers : worker[s] # "failed"

ExecuteOramOps(ops, pad) ==
  /\ ~killed /\ Returned
  /\ bound' = ops
  /\ slots' = [slot \in DOMAIN ops |-> None]
  /\ worker' = [s \in Servers |-> IF s \in Contacted(ops) THEN "run" ELSE "none"]
  /\ batches' = [s \in Servers |-> BatchesOf(s, ops, pad)]
  /\ ran' = << >>
  /\ goneBefore' = dead
  /\ UNCHANGED <<offset, written, received, oram, op_results, dead, channels, signal>>

------------------------------------------------------------------------------
(* sendBatchToServer: a worker. *)

\* The round in progress.
Round(s) ==
  LET batch == Head(batches[s]) IN
  SubSeq(batch, offset[s] + 1,
         IF offset[s] + FixedBatch < Len(batch) THEN offset[s] + FixedBatch ELSE Len(batch))

Writing(s) == worker[s] = "run" /\ written[s] < Len(Round(s))
Awaiting(s) == worker[s] = "run" /\ written[s] = Len(Round(s))

WriteOp(s) ==
  /\ ~killed /\ Writing(s) /\ s \notin dead
  /\ Len(pipe[s]) < PipeSize
  /\ pipe' = [pipe EXCEPT ![s] = Append(@, Translate(s, Round(s)[written[s] + 1]))]
  /\ written' = [written EXCEPT ![s] = @ + 1]
  /\ UNCHANGED <<bound, slots, worker, batches, offset, received, child, reply, signal, goneBefore>>

\* Nobody reads the pipe any more.
SigPipe(s) ==
  /\ ~killed /\ Writing(s) /\ s \in dead
  /\ killed' = TRUE
  /\ broken' = {s}
  /\ UNCHANGED <<proxy, child, channels, goneBefore>>

\* The results of a batch go to the slots of its operations.
\* Mutant: they go to the slots in order.
InOrder(s, results) ==
  [slot \in Slots |-> IF slot \in DOMAIN results THEN results[slot] ELSE slots[slot]]
Placed(s, results) ==
  LET batch == Head(batches[s]) IN
  [slot \in Slots |->
     IF \E i \in DOMAIN batch : batch[i].slot = slot
     THEN results[CHOOSE i \in DOMAIN batch : batch[i].slot = slot]
     ELSE slots[slot]]

\* The answer of a round; after the last round of a batch, the next batch.
ReadReply(s) ==
  /\ ~killed /\ Awaiting(s) /\ reply[s] # NoReply
  /\ LET results == received[s] \o reply[s]
         over == offset[s] + written[s] = Len(Head(batches[s]))
     IN
     /\ \/ /\ over
           /\ slots' = Placed(s, results)
           /\ received' = [received EXCEPT ![s] = << >>]
           /\ offset' = [offset EXCEPT ![s] = 0]
           /\ batches' = [batches EXCEPT ![s] = Tail(@)]
        \/ /\ ~over
           /\ received' = [received EXCEPT ![s] = results]
           /\ offset' = [offset EXCEPT ![s] = @ + written[s]]
           /\ UNCHANGED <<slots, batches>>
     /\ worker' = [worker EXCEPT ![s] = IF batches'[s] = << >> THEN "ok" ELSE "run"]
  /\ written' = [written EXCEPT ![s] = 0]
  /\ reply' = [reply EXCEPT ![s] = NoReply]
  /\ UNCHANGED <<bound, child, pipe, signal, goneBefore>>

\* The child exited before it answered: the worker gives up on its server.
ReadEnd(s) ==
  /\ ~killed /\ Awaiting(s) /\ s \in dead /\ reply[s] = NoReply
  /\ worker' = [worker EXCEPT ![s] = "failed"]
  /\ batches' = [batches EXCEPT ![s] = << >>]
  /\ offset' = [offset EXCEPT ![s] = 0]
  /\ written' = [written EXCEPT ![s] = 0]
  /\ received' = [received EXCEPT ![s] = << >>]
  /\ UNCHANGED <<bound, slots, child, channels, signal, goneBefore>>

------------------------------------------------------------------------------
(* child_event_loop: the process of a server. *)

\* access on the child's ORAM: an unknown block is not updated.
NewContent(s, e) ==
  IF e.type = "INSERT" \/ (e.type = "UPDATE" /\ oram[s][e.key] # None)
  THEN e.val ELSE oram[s][e.key]

\* The round announced by the header is complete.
\* Mutant: the child waits for a padded round.
FullRound(s, results) == Len(results) = FixedBatch
RoundOver(s, results) == Len(results) = Len(Round(s))

\* The child executes the next operation and answers when the round is complete.
ChildAccess(s) ==
  LET e == Head(pipe[s])
      result == IF IsRead(e) THEN oram[s][e.key] ELSE None
      results == Append(op_results[s], result)
  IN
  /\ ~killed /\ s \notin dead
  /\ pipe[s] # << >>
  /\ pipe' = [pipe EXCEPT ![s] = Tail(@)]
  /\ oram' = [oram EXCEPT ![s][e.key] = NewContent(s, e)]
  /\ ran' = [slot \in DOMAIN ran \cup {e.slot} |->
               IF slot = e.slot THEN result ELSE ran[slot]]
  /\ \/ /\ RoundOver(s, results)
        /\ reply' = [reply EXCEPT ![s] = results]
        /\ op_results' = [op_results EXCEPT ![s] = << >>]
     \/ /\ ~RoundOver(s, results)
        /\ op_results' = [op_results EXCEPT ![s] = results]
        /\ UNCHANGED reply
  /\ UNCHANGED <<proxy, dead, signal, goneBefore>>

\* The ORAM gives up in the middle of an operation and the process exits.
ChildExits(s) ==
  /\ ~killed /\ s \notin dead
  /\ pipe[s] # << >>
  /\ dead' = dead \cup {s}
  /\ pipe' = [pipe EXCEPT ![s] = << >>]
  /\ UNCHANGED <<proxy, oram, op_results, reply, ran, signal, goneBefore>>

Thread(s) == WriteOp(s) \/ SigPipe(s) \/ ReadReply(s) \/ ReadEnd(s)

Next ==
  \/ \E ops \in Calls, pad \in BOOLEAN : ExecuteOramOps(ops, pad)
  \/ \E s \in Servers : Thread(s) \/ ChildAccess(s) \/ ChildExits(s)

Spec == Init /\ [][Next]_vars

\* Worker threads and children that have something to do are scheduled.
FairSpec ==
  /\ Spec
  /\ \A s \in Servers : WF_vars(Thread(s)) /\ WF_vars(ChildAccess(s))

------------------------------------------------------------------------------
(* Properties. *)

\* A call that succeeded has put each operation's own result in its slot, over batches,
\* rounds and paddings and with a thread for each server.
ResultsMatch ==
  Returned /\ Success => \A slot \in Slots : slot \in DOMAIN ran /\ slots[slot] = ran[slot]

\* A call ends, although both ends of a pipe may block, unless the proxy is killed.
CallReturns == ~Returned ~> Returned \/ killed

\* An operation of the plan as the epochs know it.
Op(slot) ==
  [type |-> bound[slot].type, key |-> bound[slot].key, val |-> bound[slot].val,
   goid |-> slot]
\* A child's exit is seen when its worker reads the end of the pipe or writes to it.
Abandoned(s) == worker[s] = "failed" \/ (s \in dead /\ Awaiting(s))
Service == INSTANCE Executor WITH
  db <- [k \in Keys |-> oram[k[1]][pk_to_blockid[k]]],
  todo <- {Op(slot) : slot \in {i \in Slots : i \notin DOMAIN ran /\ ~Abandoned(bound[i].key[1])}},
  busy <- {s \in Servers : worker[s] = "run" /\ ~Abandoned(s)},
  slots <- [slot \in Slots |-> IF slot \in DOMAIN ran THEN ran[slot] ELSE None],
  failed <- {s \in Servers : Abandoned(s)},
  dead <- goneBefore \cup broken \cup {s \in Servers : Abandoned(s)},
  killed <- killed

\* The grouping, cutting, padding, translating and piping of operations, with a child
\* that may exit at any point, is the executor that the epochs are checked over: reads
\* before writes on each server, each operation at most once, a failure reported.
ImplementsExecutor == Service!ExecutorSpec
==============================================================================

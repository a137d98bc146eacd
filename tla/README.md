# A TLA+ verification of DePart

DePart is a transactional store over several Ring ORAMs. A proxy collects client
transactions in epochs, orders them with version chains, executes what is left of
them on the partitions, and answers the clients. Each partition has a child process
of the proxy with one Ring ORAM client; the tree of that ORAM lives on a storage
server reached by TCP.

This directory holds models of the parts of DePart that decide something, TLC
configurations that check them on small instances, and proofs about most of them that
the TLA+ proof system checks for every value of the constants. File names below are
relative to the repository.

## 1. The system

| Component | Files | State | Operations |
|---|---|---|---|
| Ring ORAM client | `src/RingORAM.cpp`, `include/RingORAM.h` | position map, stash, bucket metadata, `round`, `G` | `access` (INSERT, READ, UPDATE), `ReadPath`, `EarlyReshuffle`, `EvictPath`, `bulk_load_stash`, `flush_stash_if_needed` |
| Intake | `Queries_Receiving.cpp`: `push_txn`, `collect_epoch`, `start_epoch`, `collect_sub_epoch`, `end_intake` | `accepting_`, `incoming_queue_`, next timestamp and id | a push by a client thread; open, drain, close by the main thread |
| Version chains, abort rule, deduplication | `Queries_Receiving.cpp`: `AssignAbort`, `VC*`, `Dedup`, `assembleResults` | none beyond a call | commit or abort each transaction; decide how each operation gets its result; answer |
| Read-batch/write-batch epoch | `Queries_Receiving.cpp`: `runEpoch_RBR_W` and what it calls | version cache, decisions, per-sub-epoch results | R sub-epochs of reads, one batch of writes, answers |
| Batch building and dispatch | `MultiRingORAM_Servers.cpp`: `executeOramOps`, `buildBatchesFromOramOps`, `sendBatchToServer`, `child_event_loop` | pipes to the children, a thread per server, one shared vector of results | group, sort, cut, pad, translate, send in rounds, place the results |
| Start-up and shutdown | `MultiRingORAM_Servers.cpp`: `ServerInitialization*`, `waitForAllServersReady`, `shutdownAllServers` | the children, their pipes, `pk_to_blockid` | fork, load, flush, ready signals, stop and reap |
| Partitioning | `Repartition.cpp` | a noisy histogram | pack bins into partitions, capacity of a partition |
| Storage connection | `NetIOConnector.cpp` | a socket, `silent_` | `insert_slot`, `find_slot`, `clear`, `setTupleLength`, `bulk_init_tree_stream` with its barrier |
| Storage server | `Testing/Unit Tests/Servers_MultiRingORAM.cpp` | a map from addresses to slots, over connections | one connection after another, one message at a time |
| TPC-C driver | `TPC-C/TPCC_Main.cpp` | eight tables with their children, a map from keys to blocks, a queue and client threads | benchmarks; a sweep of configurations, each partitioned, loaded, run for an epoch and shut down |
| Helpers | `Util.cpp`, `csv_reader.cpp`, `Tpcc*.cpp`, `generate_data.cpp`, `CsvWriter.cpp`, `RingORAM_helper.cpp` | none | encryption, configuration, data |
| Experiments and tests | the rest of `Testing/` | none | they call the parts above and measure |
| First proxy | `src/proxy.cpp` | none | the file is commented out as a whole |

**How they interact.** Client threads call `push_txn`, which shares `incoming_queue_`
with the main thread under `queue_mu_` but reads `accepting_` outside of it. The main
thread calls the deduplication, then `executeOramOps`, which starts one `std::thread`
per contacted server. A worker writes rounds of operations into its child's pipe and
blocks until the answer is in the other pipe. The child runs `RingORAM::access` for
each operation, one at a time; each path access is a series of synchronous requests to
the storage server, and writes that are not answered at all. The workers place results
in one vector, at disjoint slots. The TPC-C driver has a `MultiRingORAM_Servers` for each
table and starts all children anew for every configuration, on the ports, and on the
storage servers, of the last one.

**What is hard.**

- A copy of a block may survive in the tree next to a newer one in the stash: path
  reads, reshuffles, evictions and overwrites all move copies.
- A bucket bears only S path reads; overlapping paths, early reshuffles and evictions
  together have to keep a dummy slot for each read still to come, or the process exits.
- The fence of `push_txn` is passed before the mutex is taken.
- Reads are answered from buffered writes, from a leader's read or from an ORAM; all
  writes but the last are dropped; the ORAMs run a server's reads before its writes.
  Together this has to look like a serial execution.
- In the read-batch/write-batch epoch, writes enter the version cache before anyone
  knows whether their transaction commits.
- One child may exit while the others go on; nothing is rolled back. A child that
  exited is never restarted, and a write to its pipe raises a SIGPIPE that the proxy
  does not handle.
- Both ends of a pipe block, and the two sides have to agree on the length of a round.
- Writes to the storage server are not answered, its stream has no frames, and it keeps
  its slots from one connection to the next, whatever ended the last one.
- A child inherits every pipe its parent has open and closes those of its own table; who
  waits for the end of a pipe depends on who else holds it.
- The first column of a TPC-C table, by which clients name rows, is shared by rows of
  different districts in four of the eight tables (with several warehouses, in six), and
  the map has one block for it.
- A slot's address on the storage server is a 32-bit product, and nothing limits the tree.
- A configuration that fails half way leaves children, loading or ready, on ports that the
  next configuration needs.

**What makes each component correct.** The ORAM: it is a map from blocks to contents,
loses nothing, never runs out of dummies, and answers. The intake: an accepted
transaction is taken once, in order, and in the end executed. The epochs: committed
answers are those of a serial execution, nothing is committed by halves, every epoch is
answered. The dispatch: each operation is executed once, reads first, its result
reaches its slot, and the call returns. The partitioning: no more partitions than
servers, none larger than it has to be, the capacity is what is loaded, and the proxy's
map leads to each record's block. The connection: a child that is ready has its tree and
nothing else on the server, and is answered with what it last wrote. The children: ports
are free when they are needed, work goes to children that are ready, and neither the
sweep nor a child lives on for ever. The TPC-C epoch: operations are on blocks that
exist, the epoch is serial, and aborts are justified.

## 2. Modules

```
            BlockStore          what an ORAM promises
                ^ implemented by
            RingORAM <-- MCRingORAM, RingORAMProofs

            Transactions        ids, version chains, abort rule, decisions (operators)
              ^        ^
        Executor      Dispatch <-- MCDispatch, DispatchProofs
        ^      ^ ^       | implements Executor
        |      | ExecutorProofs
        |      |
        |  RBRWEpoch <-- MCRBRWEpoch; RBRWEpochProofs (with ExecutorProofs)
        |
 SingleBatchEpoch <-- MCSingleBatchEpoch; SingleBatchEpochProofs (with ExecutorProofs)

            Intake <-- SingleBatchEpochProofs          how transactions enter an epoch of either kind

            Repartition <-- MCRepartition, RepartitionProofs   from a table to loaded ORAMs

            Connection <-- RingORAMProofs    a child and its storage server, over one stream

            Children <-- Sweep <-- MCSweep, SweepProofs   the processes of the TPC-C driver

            Transactions <-- TpccEpoch <-- MCTpccEpoch   its epochs
                                ^ TpccEpochProofs (with ExecutorProofs)
```

### RingORAM and BlockStore

One ORAM and one request at a time, as in the child process. `pos`, `stash`, `round`
and `G` are the code's members. A bucket is `live` (the blocks in its valid real
slots), `count` (path reads since it was written) and `dummies` (valid dummy slots).
The steps of a request are the code's: `Access` is the position update, the path read
of the *old* path and the list of buckets to reshuffle; `RewriteBucket` is one turn of
the loops of `EarlyReshuffle` and `EvictPath` (`ReadBucket`, then `WriteBucket`, deepest
bucket first, the stash overwritten by what a bucket held); `FinishRead` and
`FinishUpdate` end the request; `PutInStash` is the common tail of INSERT and UPDATE
with the eviction every A-th write. `StartFlush`, `FlushTurn` and `BulkLoad` are the two
ways from loading to serving, with the flush's cap of 2 * NumLeaves + 1 evictions.
`WriteBucket` takes the stashed blocks in the order of a hash map: any choice of at most
Z blocks that cannot be extended. `GetBlockOffset`'s `exit(1)` is `pc = "halted"`.

Abstracted: slots and their permutation, addresses, encryption, and the chunks of a
block (the code's own warning says a block has to fit one chunk). Left out:
`stash_limit`, which is over 50 entries.

`BlockStore` is the promise: a write changes one block, a read returns a block's
content. `Plain` maps an ORAM state to a store state by taking each block's content
from wherever it is.

### Transactions, Executor, SingleBatchEpoch

`Transactions` has the pure part: `AssignIds`, `VCAbort` (Rule A, for UPDATEs),
`Survivors` (`VCDedup`), `Decision` (`Dedup`), `Resolve`, and, as the reference for the
properties, what a serial execution reads and leaves (`ValueBefore`, `FinalValue`). A
record is known by server and primary key, as in the code.

`Executor` is `executeOramOps` as the epochs see it: a set of operations per server,
executed one by one with the reads first; a worker that ends, or gives up because its
child exited; or the proxy killed by SIGPIPE. A child that exited stays dead for the
later epochs, as in the code.

`SingleBatchEpoch` is the epoch of `collect_epoch`, `AssignAbort`, `Dedup`,
`executeOramOps` and `assembleResults`, one action each, over the actions of `Executor`,
epoch after epoch.

### RBRWEpoch

`runEpoch_RBR_W`: `CollectSubEpoch`, `DedupReads`, `Absorb` R times, then `AssignAbort`,
`DedupWrites`, `AssembleResults`. `vcache` is the version cache, filled by writes when
their sub-epoch's reads are deduplicated and by `absorb` when the reads come back. As
in the code, reads and cached writes of unfinished and of aborted transactions take part
in the sub-epochs, and the write batch is sent whatever became of the read batches.

### Intake

`push_txn` in two steps (`PushFence`, `PushQueue`: the flag, then the mutex) against
both drivers of the queue: `ClearQueue`, `OpenIntake`, then `CloseIntake` and
`TakeQueue`, or `CollectSubEpoch` R times and `EndIntake`. `Finish` stands for the rest
of the epoch. What is inside the mutex is one step.

### Dispatch

The detailed executor. `ExecuteOramOps` groups, sorts, cuts and pads; `WriteOp`,
`SigPipe`, `ReadReply` and `ReadEnd` are a worker thread; `ChildAccess` and `ChildExits`
are a child. Pipes are bounded. `PipeSize` operations fit in the pipe; the header of a
round travels with its first operation. A child learns the length of a round from that
header, so `RoundOver` compares with the worker's round. Padding reads block 0 of the
child and has no slot. `ImplementsExecutor` maps a dispatch state to an executor state:
an operation is done once the child has executed it, and a server has failed once its
child is dead and its worker has nothing left to do but find the end of the pipe. Two
history variables serve that mapping only: the children gone before the call
(`goneBefore`), and the server on whose pipe SIGPIPE hit (`broken`).

### Repartition

`Repartition_Main` counts and noises the bins of a table, then packs them: `PackBin` is
one bin of a pass, `NextPass` the retry of Algorithm 3 with a threshold a tenth larger,
`LastPass` the end of either algorithm, with the bins that are left as one more
partition. Packing adds counts clamped bin by bin, while a partition's size is its signed
sum clamped once, as in the code. `SetCapacities` sets padding and stash reserve.
`DistributeDataToPartitions` fills `pk_to_blockid` and `Load` is the loading loop of one
server's child, which counts the blocks by itself. When all are loaded, the next table
may come. The TPC-C driver raises small trees to a minimum after `Repartition_Main`
(`WithMinimum`); the other callers do not, and a table takes either way.

A partition has its first and last bin (the code's index set is always such an interval),
and the sums, the records of a bin and the walk over the bins are recursive functions, so
that the provers can unfold them.

Abstracted: bins are numbers in the order of `make_sorted_bins`, a record is its place in
the table (the default `pk_mapper_`), and the noise is any number of a small set. The
rows with too few fields and the empty table, for which the code returns no partition,
are left out. `Grown` is `ceil(1.1 * T)` over the integers; the code computes it in
floating point, which gives the same numbers below 50 and one more at some larger ones.

### Connection

The calls of `NetIOConnector` that a child makes, the stream, and the server that takes it
apart. A run of the child connects, clears the server's storage, announces the block length,
builds its tree slot by slot or, in silent mode, streams it in chunks with a barrier after
each, and then reads and writes slots in any order. `silent`, the chunk `buf` and the
server's `storage` are the code's; `mem` is a history of what the ORAM last put at each
address. An address has `Width` bits (32 in the code) and wraps around in a tree that is
larger, as the products in `RingORAM.cpp` do; nothing in the code refuses such a tree, so
the model has them too. The properties say two things: of every address, in any tree, that
the server has and returns what was last put there; and of every slot, in a tree that fits
(`Fits`, `Kept`), that this is the slot's own content. Every handler of the server is one
step, taken when its fields have arrived. The child may end at any unit of the stream
(`Exit`) or close (`Close`); the server then ends the session when the stream ends between
two messages (`SessionEnds`), and ends as a whole when it ends inside one (`ServerEnds`:
only the receipt of an opcode is in a `try`). Where the child is in its program is `at`. A
server that took data for a number would go on with any number, so a loss of framing shows
as such (`InStep`) and not as a stop.

Left out: the `insert`, `find`, `update` operations of `ServerConnector` on tables and
the older `Server.cpp`, which no ORAM uses, and the logs.

### Children and Sweep

`Children` is a library of actions on processes: which ends of which pipes each process
holds (`fds`), what `fork` hands down, what is closed (`ParentEnds`, `CloseInherited`),
`PR_SET_PDEATHSIG` (`Arm`), connecting, loading, the ready signal or the failure signal,
batches, the ways the event loop is left, and the three ways a process dies: by exit, by
a signal, by SIGPIPE. A batch is one message and so is its result; `Dispatch` has what is
inside. `closed` are the ports whose storage server was lost with a child in the middle of a
message, as in `Connection`.

`Sweep` is the driver on top. The first configurations are the benchmarks of phase 1, one
child on a port of its own, a few pairs of batches, and a shutdown also when an exception
destroys the object (`Throw`). `FindThreshold` reads the first result although there may
be none. The others are those of phase 3: table by table, `StopChild` and `Reap` (the
destructor of the last configuration's object), `StartServer`, `AwaitReady`, then the read
batches and the update batches, each joined per table, then `StopChild` and `Reap` again.
Anything thrown while a table starts ends the configuration and leaves its children to the
next one. A result that is not a success is an `assert`, which is active: the build files
set no build type. A write to a pipe without a reader is SIGPIPE and ends the program.

### TpccEpoch

The transactions of the TPC-C driver. A row is a data line, and clients name it by its first
column (`PkVal`). That is no key in CUSTOMER, ORDER, NEW_ORDER and ORDER_LINE: customer and
order numbers come once per district, and an order line has its order's number. (With
several warehouses it is none in DISTRICT and STOCK either; `PkVal` may be anything.)
`PkToOram` is filled in a walk over the partitions in which a later row takes over the entry
of its key (`Entries`), so the other rows with that key are loaded and never touched: they
are in no pool either, and transactions meant for them go to the last one's block. An
operation carries the table and the block packed in one number (`PackKey`). The five
builders are sets of operation sequences, one for each outcome of the random numbers:
`queue_pk_read` and `queue_pk_write` for known rows, `queue_dummy_reads` and
`queue_simulated_insert` for rows that are not known or not there yet, which pick a block
from a pool cached per thread (`PoolOf`). `OpenWindow` to `DrainQueue` are `collect_epoch`
and the client threads; `BuildBatches` joins the clients and runs `AssignAbort` with the
operators of `Transactions` and puts the survivors in one batch for each type, table and
server; `SendBatchToServer` and `JoinWorkers` execute the reads and then the updates. A
batch is a set: within it the order is that of the version chains, by server, key and id, so
the last operation on a block is the one whose content stays (`LastIn`). `LookUp` reads a
customer by id or looks for one by name, in which case the dummy reads stand for the search.

Abstracted: which rows a synopsis finds is reduced to how many (`Counts`), the pools of the
two functions, filled alike, are one, and the children are those of a sweep that succeeds.
No partition is empty, since each is made of bins with rows, so the skip of empty
partitions and the pools' last resort, block 0, do not apply.

The properties are therefore about blocks. An epoch is serial over blocks, and an abort has
a conflict over a block; that the block is that of the row a transaction means is *not* so
(section 3).

## 3. What the runs show

| Run | Instance | States | What it checks |
|---|---|---|---|
| `oram_all` | 3 blocks, height 2, Z 1, S 2 | 105,623 | all operations: `TypeOK`, `Available` (nothing lost), `NeverHalts`, `EvictionSpread` |
| `oram_write_once` | 5 blocks, height 2, Z 1, S 1 | 353,255 | insert once, then read, with evictions and the flush up to its cap: `SingleCopy`, `ReadLatest`, `ImplementsBlockStore`, `RequestsEnd` |
| `oram_update` | 1 block, 2 values | violation | `ReadLatest` under UPDATE |
| `single_batch` | up to 3 transactions of 7 kinds, 2 servers | 131,730 | `Serializable`, `CommitsAreWhole`, `OldOrFinal`, `EpochEnds` |
| `rbrw` | up to 3 transactions of 6 kinds, 2 sub-epochs, 2 servers | 216,860 | `CleanReads`, `WritesSerialize`, `NoEmptyRead`, `EpochEnds` |
| `rbrw_dirty_read` | up to 2 transactions of 3 kinds | violation | `NoDirtyRead` |
| `intake` | 3 clients, R 2, both drivers | 4,042 | `TimestampsFollowArrival`, `TakenOnce`, `InTimeIsExecuted` |
| `dispatch` | 3 plans of 4 or 5 operations, batches of 3, rounds of 2, a pipe of 1 | 7,705 | `ResultsMatch`, `ImplementsExecutor`, `CallReturns` |
| `repartition` | 2 tables of 4 records in 3 and 4 bins, noise -2, 0, 2, 3 partitions, 0 or 2 servers, threshold 2, minimum 2 | 45,306 | `RoutedToItsRecord`, `CountWithinCap`, `ClosedAtThreshold`, `CapacityIsLoaded` |
| `connection` | 2 connections, trees of 1, 2 or 3 buckets of 2 slots, blocks of 2 units, chunks of 20, addresses of 3 bits, 2 accesses | 68,195 | `AnswersAreLatest`, `InStep`, `ReadyMeansStored`, `TreeOnly`, `AlwaysGoesOn` |
| `sweep` | a benchmark of 2 batch pairs, configurations of 2 tables with 2 and 1, then 1 and 1 children, all mortal | 43,771 | `PortFree`, `WorkForTheReady`, `ReadsBeforeUpdates`, `OnlyThisConfig`, `NoOrphans`, `SweepEnds` |
| `tpcc` | 2 configurations, 2 clients, all five transactions, 1 to 3 rows per table on 1 or 2 servers, with repeated keys | 237,977 | `OpsHitRecords`, `EpochIsSerial`, `AbortsOnlyOnConflict` |

**Why the bounds suffice.** The ORAM instances are the smallest trees with more than one
path, and a bucket overflows (Z = 1, more blocks than fit). With height 2 a bucket is read S
times from two paths, and A, which is the height, is 2: every second write evicts, one path
and then the other, and the counter of evictions starts again after two. Larger trees, in
which the order of evictions is more than taking turns, are left to `EvictionsSpread`. In
`oram_write_once` five blocks are two evictions, along both paths, and one more write;
loaded at once they make the flush take several turns, and when all five are mapped to one
leaf, whose path takes two of them, three stay in the stash, more than its target of 2, so
that the flush ends only at its cap of 2 * NumLeaves + 1 evictions. One value suffices
there: a block is written once, and its content is kept under its name. For the epochs,
three transactions are a writer, a reader between and a later writer; a transaction writes
at most twice around its own read. One primary key on two servers is what mixes chains keyed
by primary key alone. Two sub-epochs suffice for "before" and "after" a drain. For the
dispatch, five operations are two batches, the first of two rounds, with a batch and a round
that end exactly at a boundary and one that does not; a pipe of one operation is the hardest
for deadlock. `MaxTxns` bounds the transactions of an epoch; the number of epochs is
unbounded everywhere but in the intake, where each client pushes once. For the partitioning,
a table with a bin of two records that lie apart and one with four bins of one record, under
all noise of the set, have bins with positive, zero and negative counts in every order:
partitions that end with the table or before it, sizes raised to 1, padding, reserve, and
repeated passes. `MaxIter` has the code's value, 500.

For the connection, two runs are one that leaves something behind and one that starts on it,
and the trees differ so that something would be left. A slot has six units and the small
tree two slots: with chunks of 20 it ends in a partial chunk, and the large tree has a full
chunk, which ends inside its fourth slot's units, before one. Three bits of address hold the
tree of two buckets exactly (8 units), where the mutant of the address makes slots collide,
and in the tree of three the last bucket's addresses are the first one's. Two accesses are a
write and a read of the same slot, or of two. For the sweep, a table with two children has
siblings, the next table's child inherits the pipes of both, and the third configuration
needs the ports again, of which one is left unused. A benchmark with two pairs of batches
has a read after an update. For `tpcc`, two clients are a pair of transactions in either
order, of any kinds; rows of different tables share block numbers, rows of one table share
them on two servers, and the second configuration may place each row elsewhere. Customer 1
is a row in each of two districts, and both orders, new orders and order lines have the
number 1; which row of a number is the last one loaded differs between the two
partitionings. `LineCounts` is 2, `ReadCap` 1: more lines repeat the same operations on the
same rows.

**Symmetry** (blocks, values) is used in `oram_all` only, which checks no liveness.
**Deadlock** is checked except where the system may stop: the proxy of the epochs and the
dispatch is killed by SIGPIPE, the connections and configurations of `connection`, `sweep`
and `tpcc` come to an end, and a client of `tpcc` that never sees the window open waits
for ever, and the join of the clients with it.

**Fairness.** `RingORAM` (`FairWriteOnceSpec`): a request that began goes on (one process,
no locks). Nothing obliges a client to ask. The epochs: the main thread runs on, and each
server's worker and child together take steps; `EpochEnds` and `CallReturns` allow for
`killed`. A child that exits does so by choice, never by fairness. `Dispatch`: worker
threads and children are scheduled when they have something to do, which is what an
operating system gives. `Intake`: the main thread goes on, and a client that has passed the
fence gets the mutex; no client has to push. `Connection`: the child's program between its
calls and the server go on; whether the ORAM accesses a slot, closes or exits is open, so
`AlwaysGoesOn` speaks of a child that does not exit. `Sweep`: the driver goes on and each
child does what a working process does, one weak fairness per process; failing, dying, and
killing the driver are never fair. `NoOrphans` and `SweepEnds` allow for a child whose
storage server was lost, which the code lets wait for ever. `TpccEpoch` states no fairness,
as it has no liveness property. No model uses strong fairness.

### Where the code and its comments differ

1. *An UPDATE may be lost to an older copy* (`oram_update`). `access(UPDATE)` stashes the
   new content after the early reshuffle may have written the old one back to the tree; a
   READ that then finds the old copy returns it and overwrites the stash.
2. *A committed transaction may have read an aborted write* (`rbrw_dirty_read`), although
   the header says Rule A aborts the reader.

Both are entries of `findings` in PROJECT.json with the lines they quote. Other places
where what the models do, following the code, is not what a comment beside it says:

- `Queries_Receiving.cpp:269-281` calls the race of `push_txn` benign, without data loss,
  and says a late push is picked up in the next epoch; but the next `start_epoch` or
  `collect_epoch` clears the queue first (`ClearQueue`), and a push that was accepted is
  never answered.
- `Queries_Receiving.h:427-430` calls the write phase of an epoch whose reads failed a
  no-op; `runEpoch_RBR_W` executes the writes and tells their clients ABORT
  (`RBRWEpoch!DedupWrites` does not look at the reads' success).
- `MultiRingORAM_Servers.cpp:1290` says an operation on an unknown key is bypassed; it is
  executed with the key as block id (`Dispatch!Translate`).
- `TPCC_Main.cpp:1841` asks for a server on port 8799 for phase 1, which uses the ports from
  8700 on; a benchmark whose server is missing tries to connect for ever.
- `TPCC_Main.cpp` catches what a configuration throws and goes on, but a child that failed
  to start has usually exited when the next configuration retires it, and the write of its
  stop ends the whole program by SIGPIPE (`StopChild`). The sweep goes on only if the child
  is slower than its parent.
- `find_empirical_threshold` reads `benchmarks.front()`, also when every benchmark failed.
- `TPCC_Main.cpp:394` gives NEW_ORDER a compound key, `d_id|o_id`, "for per-district min
  scan". The scan is per district; the order it finds is then looked up by its number alone
  (l.1007-1010), districts all count their orders from 1, and `pk_to_oram` has the last one
  loaded (l.597). A Delivery writes the same blocks once for each district, an OrderStatus
  may read another customer's order, and a Payment may change another customer
  (`TpccEpoch!PkToOram`).
- `NetIOConnector.cpp:487-489` tells of an ORDER_LINE-sized tree of 16 GB and more, and
  `TPCC_Main.cpp:1285` of a server's tree of 33 GB, while a slot's address is a 32-bit
  product (`RingORAM.cpp:147`, l.444, l.866): beyond 4 GB the last buckets overwrite the
  first ones, and the child gets ready all the same (`Connection!Address`). How large the
  tree of one partition is depends on the sizes of the configuration; nothing checks it.
- `Servers_MultiRingORAM.cpp` accepts a new connection after one that broke, but not after
  one that broke inside a message (`ServerEnds`).

`EpochIsSerial` is the property of an epoch in which a transaction does not read its own
writes: the driver executes all reads first.

## 4. What is proved

For every value of the constants, under the assumptions that the modules state about them:

| Module | Theorem | States |
|---|---|---|
| `RingORAMProofs` | `TypeCorrect`, `NoBlockLost` | `Spec => []TypeOK`, `Spec => []Available` |
| | `DummiesSuffice` | `S # 0` implies `Spec => []NeverHalts` |
| | `EvictionsSpread` | `Spec => []EvictionSpread` |
| | `ReadsAreCurrent`, `OneCopyOnly` | `WriteOnceSpec => []ReadLatest`, `[]SingleCopy` |
| | `ImplementsStore` | `WriteOnceSpec => ImplementsBlockStore` |
| | `ConnectionInStep` | `ConnectionSpec => []InStep` |
| | `ConnectionAnswers` | `ConnectionSpec => []AnswersAreLatest`, for trees of any size, as the next two |
| | `ConnectionReady`, `ConnectionTreeOnly` | `ConnectionSpec => []ReadyMeansStored`, `[]TreeOnly` |
| `SingleBatchEpochProofs` | `EpochSerializable` | `Spec => []Serializable` |
| | `EpochCommitsAreWhole` | `Spec => []CommitsAreWhole` |
| | `EpochOldOrFinal` | `Spec => []OldOrFinal` |
| | `IntakeTimestamps`, `IntakeTakenOnce` | `IntakeSpec => []TimestampsFollowArrival`, `[]TakenOnce` |
| `RBRWEpochProofs` | `EpochCleanReads` | `Spec => []CleanReads` |
| | `EpochWritesSerialize` | `Spec => []WritesSerialize` |
| | `EpochNoEmptyRead` | `Spec => []NoEmptyRead` |
| `DispatchProofs` | `DispatchResults` | `Spec => []ResultsMatch` |
| | `DispatchImplementsExecutor` | `DOMAIN pk_to_blockid = Keys` implies `Spec => ImplementsExecutor` |
| `SweepProofs` | `SweepPortFree`, `SweepWorkForTheReady` | `Spec => []PortFree`, `[]WorkForTheReady` |
| | `SweepReadsBeforeUpdates`, `SweepOnlyThisConfig` | `Spec => []ReadsBeforeUpdates`, `[]OnlyThisConfig` |
| `RepartitionProofs` | `RepartitionThreshold` | `Spec => []ClosedAtThreshold` |
| | `RepartitionRouting` | `Spec => []RoutedToItsRecord` |
| | `RepartitionCapacity` | `Spec => []CapacityIsLoaded` |
| | `RepartitionCount` | `Spec => []CountWithinCap`, if MAX_ITER passes suffice (below) |
| `TpccEpochProofs` | `DriverHitsRecords` | `Spec => []OpsHitRecords` |
| | `DriverAbortsOnlyOnConflict` | `Spec => []AbortsOnlyOnConflict` |
| | `DriverEpochIsSerial` | `Spec => []EpochIsSerial` |

Each of these modules also proves type correctness (`TypeCorrect`, `IntakeTypeCorrect`,
`ConnectionTypeCorrect`; for the driver it is part of the invariant) and the inductive
invariant the others follow from (`EpochInvariant`, `IntakeInvariant`, `DriverInvariant`,
...). `ExecutorProofs` has the lemmas that both kinds of epoch rest on. Together,
`DispatchImplementsExecutor` and the epochs' theorems say that the epochs are right over the
worker threads, pipes and children, and not only over the executor that stands for them.

**The ORAM.** That no bucket is without a dummy is not inductive by itself. `DummyBudget`
says why it stays so. The dummies left and the reads made are at least S; a bucket read S
times occurs only while the reshuffle that resets it is under way. An ORAM that is idle has
no reshuffle under way, so every bucket was read less than S times and has a dummy left. The
theorem needs `S # 0`, which the constructor does not check: with S = 0 the first path read
halts. For `ReadsAreCurrent`: a READ moves copies and changes none, so if every copy of a
block, in the stash or in any bucket, holds what was last written (`CopiesCurrent`), any
copy will do; and by `Available` the path read finds one. `CopiesCurrent` fails with the
first UPDATE, which is finding 1, so the theorem is about the workload that writes each
block once. The loading and the READ-only experiments are that workload; so is the
insert-only one as long as every record is new. `ImplementsStore` needs the answer of a
finished request to be reset (the last conjunct of `Faithful`), and `Available` for a mapped
block to have a content. `EvictionsSpread` is arithmetic: `ReverseBits` is a sum over the
bits (`ReversalIsSum`) in which the lowest bit decides the half of the leaves
(`ReversalBounds`); the counter's lowest bit alternates, also where it starts again, since
there is an even number of leaves; and the paths to leaves of different halves part at the
root (`HalvesShareRoot`).

**The executor and the epochs.** `Working(bound, base)` is the executor's invariant: what is
left of a call, together with what was executed, is the call; a server with a read left has
executed no write of it; a record holds its old content or that of the one write sent for it;
and an executed operation has its result. On top, the invariant of `SingleBatchEpoch` says
what the plan is in each phase: `DedupPlan` of the survivors, which sends at most one write
for a record. `OldOrFinal` follows in any state, `Serializable` and `CommitsAreWhole` once
no worker is left and none has failed. The reference of these properties (`ValueBefore`,
`FinalValue`) picks the last write before an operation, and the proofs need that timestamps
and ids order the operations alike. That is `AssignIdsNumbers`, an induction over the
transactions of an epoch. In `RBRWEpoch` the reads run before it is known who commits, so the
invariant speaks of contents and not of commits: what the version cache, the results and the
plan of a batch hold is the content from before the epoch, or was written by an earlier
operation; and for a *clean* read, before which nobody writes, it is the serial one
(`Meant`). This is where the epoch's flaw shows (finding 2): nothing more than `CleanReads`
is invariant.

**The intake.** The order of pushes is a history. `InOrder` puts the queue after the epoch
and both in that order, `PushedOnce` keeps a transaction from being in two places, and
`Counted` gives the timestamps. A client between the fence and the mutex is in `fenced`
and in nothing else; that is all the race of `push_txn` touches. `TakenOnce` is "at most
once": a push that was accepted after the drain may be dropped by the next clear (section 3).

**The dispatch.** `Link(s)` says for each server: its batches hold operations of that server,
each once, no read after a write, and paddings; an operation of the plan is in a batch or its
result is in its slot; and in a round, the first batch is cut by four numbers into what has
been answered, executed, written to the pipe and not yet written, with the pipe and the two
vectors of results holding just these pieces. A child's death may come between any two of
them. For the refinement, every step is matched with a step of `Executor` or none:
`ChildAccess` of an operation that is no padding executes it, and the worker's end of a pipe
is the failure. The hypothesis is `Executor`'s abstraction, in which a server's keys are its
records: an operation on a key that is not loaded goes to the block of that number
(section 5), which `Executor` does not have. `ResultsMatch` needs no such hypothesis.

**The sweep.** `Ledger` says that every living child is in its table's map and that a map
holds children of one configuration, with those that are not forked yet in their first state;
`PortFree` follows, since a table's map is emptied before it is filled. `Mail` relates the
driver's `task` of a child, the two pipes and the child's state. It has a weaker part for a
driver that is gone, when the pipes keep what was in them.

**The connection.** The stream is `Framed` (where a message begins, and after each one, is
an opcode) in every state, also when a child that ended has cut it; it is `Whole` while the
child lives. `Settles` says what the storage will be when the stream has been taken: the
last `insert_slot` for an address has what the child last put there, an address without one
holds it already, unless a CLEAR is first, and the addresses of no slot will be empty.
`Flow` adds that only the last message may be one that wants an answer. `Stage` relates the
child's place to the rest. In the bulk upload, what counts as sent includes the chunk in the
buffer (`Pending`). All of that is about addresses, and holds in a tree that wraps around
too. What is at an address was put there for a slot with that address (`OwnAddresses`), and
that two slots of a tree that fits never share one is arithmetic (`AddressesDiffer`);
together they give `Kept`, the part of the properties that is about slots. Without the
condition on the tree it is false.

**The partitioning.** `Packed` says that the partitions made so far, and the open one, tile
the bins: the first begins at bin 1, each begins after the last bin of the one before, and
all of them have reached the threshold with their last bin. So every bin is in one partition.
A record is in the list of its bin, once (`Records`), and the walk over the bins of a partition
has the lists one after another, so a record has one place in one walk. `Mapped` says that the
proxy's map is that place, `Filled` that a child has loaded the walk and then the padding.
Routing follows, although the two loops count blocks on their own. `Sized` is the arithmetic of
`WithCapacity` and `WithMinimum`.

`CountWithinCap` does not hold for all values of the constants, since the code gives up after
MAX_ITER passes, whatever the number of partitions. `RepartitionCount` says when it does. Each
pass of Algorithm 3 has a threshold of at least G[iter], with G[1] = 1 and each next one a
tenth more, rounded up. Each closed partition takes a threshold of clamped counts; if
G[MAX_ITER] is more than the counts can sum up to, the last pass closes none, and the bins that
are left are one partition. With noise of at most B, the counts sum up to at most the number of
bins times the records and B. For the code's MAX_ITER of 500, G[500] is above 10^21, which
the 64-bit counts of the code do not reach.

**The TPC-C epoch.** Three things are put together. *Placement*: whatever rows share a key,
an entry of the map is a block of its table (`MapIs`), the last one with the key
(`KeyHasLast`); and the packed key holds table and block (`Unpacked`), so blocks and the
keys of the version chains correspond one to one (`KeyIsBlock`). Each of the five builders,
whatever it draws, makes operations whose key is that of their block (`BuiltOps`), from
pools that hold only blocks of the loaded tables; `InitTables` gives the threads new pools,
without which the next configuration's clients would pick old blocks. *Conflicts*: two
operations have one key when they have one block, so Rule A aborts for a conflict over a
block and nothing else. *Execution*: a batch is all there or executed (`Executing`); a block
whose updates are executed has the content of the last committed write to it, the others are
as loaded; and `InPhase` says which batches are done when the driver is at a table of a
phase. All reads come first, so every read returns what was loaded, and that is the serial
answer: had a committed read an earlier write to its block, Rule A would have aborted the
writer. The chain keeps one write of a block, the last committed one, and
`DriverEpochIsSerial` needs that `LastIn` of a block is it, for which ids and timestamps
have to order the operations alike, as above. Nothing is proved of rows: which row a
transaction means is lost where its key is looked up.

**Assumptions.** Besides types and sizes: `PowersAssumption` is the one fact about powers of
two that the proofs start from, 2 ^ (n + 1) = 2 * 2 ^ n up to the height of the tree, as the
provers know nothing of powers. `ConnectionAssumption` states that 2 ^ Width is a number and
that there is a largest tree; whether it fits in the addresses is left open.
`MapAssumption`, `LoadAssumption` and `CallsAssumption` say that two records of a server are
not in one block, that a loaded block has a content, and that a plan is made of operations
on the servers there are, with the contents there are. `PartitioningsAssumption` says of the
TPC-C driver's partitions that there is a server for each, that none is empty, and that a
partition is no larger than a packed key can number (2^24 blocks in the code). It assumes
nothing of the rows and their keys: neither that keys are unique, which they are not, nor
that a row is in one partition only, which `Repartition` shows of records and no proof here
needs. `SweepAssumption` says that there is a configuration to run, whose last one has a
table. TLC evaluates all of them on the runs.

**Induction.** The provers cannot use an induction theorem whose hypothesis is an operator.
Where a proof is by induction over a sequence or a number, it is led by the least element of
the set of counterexamples (`LeastNatural`, from the well-foundedness of `<`), and recursive
functions are unfolded once a function with their equations is shown to exist
(`OpsBeforeStep`, `ReversalIsSum`).

**Only model-checked**: everything temporal under fairness (`RequestsEnd`, `EpochEnds`,
`CallReturns`, `InTimeIsExecuted`, `AlwaysGoesOn`, `NoOrphans`, `SweepEnds`), which is out
of the prover's reach. Every invariant and every other action or refinement property that a
run checks is a theorem (`NeverHalts`, `CountWithinCap` and `ImplementsExecutor` under the
hypotheses above). `DummyBudget` is proved, as part of `DummiesSuffice`, and no longer a
property of a run of its own.

## 5. What is not modelled

- **The privacy of the noise**: Laplace noise is a distribution and its privacy a statement
  about probabilities, which a model checker does not reach.
- **The cap on servers under Algorithm 4**: it does not look at `num_servers`, so
  `CountWithinCap` speaks of Algorithm 3.
- **Eviction under READs**: a READ returns before the eviction counter; a read workload
  evicts nothing. The return is in the model, and no property is about it.
- **The bytes of a bucket**: `RingORAM` treats a bucket read as what was last written there,
  and `Connection` shows that of every slot of a tree that fits in its addresses; that the
  slots of a bucket make up the abstract bucket is planned.
- **The generic operations of `ServerConnector`** and the older storage server `Server.cpp`:
  no ORAM calls them.
- **What the TPC-C driver measures**: times, the per-type statistics (which count a
  transaction's type by its place in the queue and may attribute it wrongly), medians and
  CSV files.
- **`stash_limit`, multi-chunk blocks**: see RingORAM above.
- **`No process found for server`**: every server of a plan has a process in the models.
- **The epochs of the end-to-end tests and experiments**: like the TPC-C driver's, they run
  reads and updates from the version chains in two phases.
- **`PutOpinBatch`**, an older way to fill a batch, and the display functions.
- **Encryption, CSV, data generation, `RingORAM_helper`**: pure functions or I/O.

Two consequences of the abstractions to keep in mind. The epochs run over an executor
whose ORAMs are plain stores. `ImplementsBlockStore` justifies that for blocks written
once; finding 1 is what an epoch with UPDATEs may see beyond it. And `absorb` may replace
a content that a write of the same sub-epoch put in the version cache by the older one
from an ORAM; `CleanReads` therefore speaks of the reads that no earlier write of the
epoch precedes.

## 6. Plan

In order of importance; 1 to 9 are done.

1. `BlockStore`, `RingORAM`, `RingORAMProofs`.
2. `Intake`; `Transactions`, `Executor`, `SingleBatchEpoch`.
3. `RBRWEpoch`.
4. `Dispatch`, shown to implement `Executor`.
5. `Repartition`, with the distribution and the loading.
6. Start-up and shutdown: `Connection`, `Children`, `Sweep`.
7. The TPC-C driver's epoch: `TpccEpoch`.
8. Proofs about the intake, the executor and the epochs over it, and the dispatch with its
   refinement: done.
9. Proofs about the sweep, the connection, the partitioning and the TPC-C epoch: done.
10. A slot-level bucket that implements the abstract one.

## 7. Running

    tlc -config RingORAM_all.cfg MCRingORAM.tla
    tlapm RingORAMProofs.tla

The longest proof, `DispatchProofs`, takes about five minutes from nothing.

`PROJECT.json` lists the runs with their modules, and for each checked property a mutant:
an operator, defined next to the one it replaces and commented "Mutant", that a plausible
slip in the code would give and under which the property fails. `map` gives the source
lines of every definition, and `hazards` the lines the properties are for.

------------------------------ MODULE TpccEpoch ------------------------------
(***************************************************************************)
(* One epoch of the TPC-C driver for each configuration of its sweep       *)
(* (src/TPC-C/TPCC_Main.cpp): the tables are partitioned and loaded anew,  *)
(* client threads build the five kinds of transactions and push them while *)
(* the window is open, AssignAbort decides, and the operations that are    *)
(* left are executed, all reads and then all updates, table by table.      *)
(*                                                                         *)
(* A table is a file of data lines, here its rows.  Clients name them by   *)
(* the first column, which is the primary key of some tables and repeats   *)
(* in others: an order number, or a customer's, comes once per district.   *)
(* pk_to_oram keeps the last row with a key, and the others are loaded but *)
(* out of reach.                                                           *)
(*                                                                         *)
(* Abstractions.  How a table is partitioned (Repartition) is one of a few *)
(* given ways, and what the children do (Sweep, Dispatch) succeeds.  What  *)
(* a synopsis counts is any number up to the cap.  Every transaction       *)
(* writes a content of its own.  queue_dummy_reads and                     *)
(* queue_simulated_insert have a pool each, filled alike: here one.  It is *)
(* never empty, so their last resort, block 0 of each server, never        *)
(* applies.                                                                *)
(***************************************************************************)
EXTENDS Transactions, FiniteSetsExt

CONSTANTS
  Rows,         \* the data lines of each table
  PkVal,        \* the first column of each row of a table, which clients look up
  Partitionings,\* ways to partition: for each table, the rows of each partition in order
  Shift,        \* 2^TABLE_ID_SHIFT
  Customers, Items, \* the ids clients draw
  NumDistricts, \* districts_per_wh
  CustomerOf,   \* the customer of each row of ORDER
  DistrictOf,   \* the district of each row of NEW_ORDER
  ReadCap,      \* SYNOPSIS_DUMMY_READ_CAP
  LineCounts,   \* bound: the numbers of order lines, 5 to 15 in the source
  Clients,      \* the client threads; each pushes one transaction
  Configs       \* bound: the configurations

T_WAREHOUSE == 0
T_DISTRICT == 1
T_CUSTOMER == 2
T_ITEM == 3
T_STOCK == 4
T_NEWORDER == 5
T_ORDER == 6
T_ORDERLINE == 7
Tables == 0 .. 7
Districts == 1 .. NumDistricts

ASSUME TpccAssumption ==
  /\ Shift \in Nat /\ ReadCap \in Nat /\ Configs \in Nat
  /\ NumDistricts \in Nat /\ LineCounts \subseteq Nat
  /\ DOMAIN CustomerOf = Rows[T_ORDER] /\ DOMAIN DistrictOf = Rows[T_NEWORDER]
  /\ Servers \subseteq Nat /\ 0 .. 8 * Shift - 1 \subseteq PrimaryKeys
  /\ Clients \cup {"loaded"} = Values

\* There is a server for each partition of a table, and none is empty or too large for the
\* packed keys.
ASSUME PartitioningsAssumption ==
  \A p \in Partitionings : \A t \in Tables :
    /\ p[t] \in Seq(Seq(Rows[t]))
    /\ 0 .. Len(p[t]) - 1 \subseteq Servers
    /\ \A s \in DOMAIN p[t] : Len(p[t][s]) \in 1 .. Shift

VARIABLES
  config,     \* the configuration
  phase,      \* what the driver does
  partitions, \* how the tables are partitioned in this configuration
  orams,      \* the content of every block, by table, server and block
  accepting, queue,
  client,     \* what each client thread does
  held,       \* the transaction each client is about to push
  pool,       \* pool_cache of each client thread, by table
  taken,      \* the transactions of the epoch
  table,      \* the table whose batches are executed
  batches,    \* operations still to be executed, by type, table and server
  results     \* the content each read returned, by global id

intake == <<accepting, queue, client, held, pool>>
execution == <<orams, table, batches, results>>
vars == <<config, phase, partitions, intake, taken, execution>>

Init ==
  /\ config = 0 /\ phase = "over" /\ partitions = <<>> /\ orams = <<>>
  /\ accepting = FALSE /\ queue = <<>>
  /\ client = [c \in Clients |-> "over"] /\ held = [c \in Clients |-> <<>>]
  /\ pool = [c \in Clients |-> [t \in Tables |-> {}]]
  /\ taken = <<>> /\ table = 0 /\ batches = <<>> /\ results = <<>>

------------------------------------------------------------------------------
(* Placement. *)

\* The partition and block of every row: its place in the walk over the partitions.
Blocks(t) == {b \in Servers \X (0 .. Shift - 1) :
                b[1] < Len(partitions[t]) /\ b[2] < Len(partitions[t][b[1] + 1])}
RowAt(t, b) == partitions[t][b[1] + 1][b[2] + 1]
PkAt(t, b) == PkVal[t][RowAt(t, b)]
WalkedBefore(b, c) == b[1] < c[1] \/ (b[1] = c[1] /\ b[2] < c[2])

\* A row later in the walk takes over the entry of its key.
Entries(t) == {b \in Blocks(t) : \A c \in Blocks(t) : WalkedBefore(b, c) => PkAt(t, c) # PkAt(t, b)}
PkToOram(t) ==
  [pk \in {PkAt(t, b) : b \in Blocks(t)} |-> CHOOSE b \in Entries(t) : PkAt(t, b) = pk]

\* The table in the top byte, the block in the others.
PackKey(t, oramKey) == t * Shift + oramKey
UnpackTable(packed) == packed \div Shift
UnpackKey(packed) == packed % Shift

\* Every table is partitioned and loaded, and new client threads are started.
Loaded == [r \in UNION {{<<t, b[1], b[2]>> : b \in Blocks(t)} : t \in Tables} |-> "loaded"]

\* Mutant: pools outlive the threads.
PoolsKept == pool
NewPools == [c \in Clients |-> [t \in Tables |-> {}]]

InitTables ==
  /\ phase = "over" /\ config < Configs
  /\ config' = config + 1
  /\ partitions' \in Partitionings
  /\ orams' = Loaded'
  /\ queue' = <<>> /\ accepting' = FALSE
  /\ client' = [c \in Clients |-> "waiting"]
  /\ held' = [c \in Clients |-> <<>>]
  /\ pool' = NewPools
  /\ taken' = <<>> /\ batches' = <<>> /\ results' = <<>>
  /\ phase' = "started"
  /\ UNCHANGED table

------------------------------------------------------------------------------
(* Operations.  Each builder is a set of sequences, the choices of the random numbers. *)

\* block is history: the table, server and block that the packed key stands for.
Op(type, t, b, val) ==
  [type |-> type, key |-> <<b[1], PackKey(t, b[2])>>, val |-> val, block |-> <<t, b[1], b[2]>>]

\* A primary key the table does not have is no operation.
QueuePkRead(t, pk) ==
  IF pk \in DOMAIN PkToOram(t) THEN <<Op("READ", t, PkToOram(t)[pk], None)>> ELSE <<>>
QueuePkWrite(t, pk, val) ==
  IF pk \in DOMAIN PkToOram(t) THEN <<Op("UPDATE", t, PkToOram(t)[pk], val)>> ELSE <<>>

\* What a client's random accesses to a table pick from, from the first one on.
PoolOf(c, t) == IF pool[c][t] = {} THEN Range(PkToOram(t)) ELSE pool[c][t]

Then(A, B) == {a \o b : a \in A, b \in B}
DummyReads(c, t, n) ==
  {[i \in 1 .. n |-> Op("READ", t, pick[i], None)] : pick \in [1 .. n -> PoolOf(c, t)]}
SimulatedInsert(c, t) == {<<Op("UPDATE", t, b, c)>> : b \in PoolOf(c, t)}

\* One sequence of each set, in turn.
InTurn(sets) ==
  LET built[n \in 0 .. Len(sets)] == IF n = 0 THEN {<<>>} ELSE Then(built[n - 1], sets[n])
  IN  built[Len(sets)]
Times(n, S) == InTurn([k \in 1 .. n |-> S])

\* What synopsis_count_attr and synopsis_count_range may return.
Counts == 0 .. ReadCap
SynopsisReads(c, t) == UNION {DummyReads(c, t, n) : n \in Counts}

\* The number of the first or last order the synopsis knows of: every bin with a row counts
\* at least 1.
NewOrders(d) == {PkVal[T_NEWORDER][r] : r \in {r \in Rows[T_NEWORDER] : DistrictOf[r] = d}}
Orders(cu) == {PkVal[T_ORDER][r] : r \in {r \in Rows[T_ORDER] : CustomerOf[r] = cu}}
MinNewOrder(d) == {o \in NewOrders(d) : \A p \in NewOrders(d) : o <= p}
MaxOrder(cu) == {o \in Orders(cu) : \A p \in Orders(cu) : p <= o}

\* A customer by id is read; one by name is looked for with dummy reads.
LookUp(c) ==
  UNION {({cu} \X SynopsisReads(c, T_CUSTOMER))
           \cup {<<cu, QueuePkRead(T_CUSTOMER, cu)>>} : cu \in Customers}

OrderLine(c) ==
  UNION {Then({QueuePkRead(T_ITEM, i) \o QueuePkRead(T_STOCK, i) \o QueuePkWrite(T_STOCK, i, c)},
              SimulatedInsert(c, T_ORDERLINE)) : i \in Items}

NewOrder(c) ==
  UNION {Then({QueuePkRead(T_CUSTOMER, cu) \o QueuePkRead(T_WAREHOUSE, 1)
                 \o QueuePkRead(T_DISTRICT, d) \o QueuePkWrite(T_DISTRICT, d, c)},
              Then(SimulatedInsert(c, T_ORDER),
                   Then(SimulatedInsert(c, T_NEWORDER), Times(n, OrderLine(c))))) :
         cu \in Customers, d \in Districts, n \in LineCounts}

Payment(c) ==
  {QueuePkRead(T_WAREHOUSE, 1) \o QueuePkWrite(T_WAREHOUSE, 1, c)
     \o QueuePkRead(T_DISTRICT, d) \o QueuePkWrite(T_DISTRICT, d, c)
     \o who[2] \o QueuePkWrite(T_CUSTOMER, who[1], c) :
   d \in Districts, who \in LookUp(c)}

OrderStatus(c) ==
  UNION {IF MaxOrder(who[1]) = {} THEN {who[2]}
         ELSE Then({who[2] \o QueuePkRead(T_ORDER, o) : o \in MaxOrder(who[1])},
                   UNION {DummyReads(c, T_ORDERLINE, n) : n \in LineCounts}) :
         who \in LookUp(c)}

\* One district; Delivery goes through all of them.
Deliver(c, d) ==
  IF MinNewOrder(d) = {} THEN {<<>>}
  ELSE UNION {Then({QueuePkWrite(T_NEWORDER, o, c) \o QueuePkRead(T_ORDER, o)
                      \o QueuePkWrite(T_ORDER, o, c)},
                   Then(DummyReads(c, T_ORDERLINE, n),
                        Then(Times(n, SimulatedInsert(c, T_ORDERLINE)),
                             {QueuePkWrite(T_CUSTOMER, cu, c) : cu \in Customers}))) :
              o \in MinNewOrder(d), n \in LineCounts}
Delivery(c) == InTurn([d \in Districts |-> Deliver(c, d)])

StockLevel(c) ==
  UNION {Then({QueuePkRead(T_DISTRICT, d)},
              Then(SynopsisReads(c, T_ORDERLINE), SynopsisReads(c, T_STOCK))) : d \in Districts}

Kinds == {"NewOrder", "Payment", "OrderStatus", "Delivery", "StockLevel"}
BuildRandomTpccTxn(c, kind) ==
  CASE kind = "NewOrder" -> NewOrder(c)
    [] kind = "Payment" -> Payment(c)
    [] kind = "OrderStatus" -> OrderStatus(c)
    [] kind = "Delivery" -> Delivery(c)
    [] kind = "StockLevel" -> StockLevel(c)

\* The tables a transaction of a kind has random accesses to.
Pooled(kind) ==
  CASE kind = "NewOrder" -> {T_ORDER, T_NEWORDER, T_ORDERLINE}
    [] kind = "Payment" -> {T_CUSTOMER}
    [] kind = "OrderStatus" -> {T_CUSTOMER, T_ORDERLINE}
    [] kind = "Delivery" -> {T_ORDERLINE}
    [] kind = "StockLevel" -> {T_ORDERLINE, T_STOCK}

------------------------------------------------------------------------------
(* Intake. *)

\* collect_epoch empties the queue and opens the window.
OpenWindow ==
  /\ phase = "started"
  /\ queue' = <<>> /\ accepting' = TRUE
  /\ phase' = "window"
  /\ UNCHANGED <<config, partitions, client, held, pool, taken, execution>>

\* A client that sees the window open starts; one that never does waits for ever.
SeeWindow(c) ==
  /\ client[c] = "waiting" /\ accepting
  /\ client' = [client EXCEPT ![c] = "building"]
  /\ UNCHANGED <<config, phase, partitions, accepting, queue, held, pool, taken, execution>>

\* The transaction is built; push_txn_to_queue returns at once when the window is closed.
Build(c) ==
  /\ client[c] = "building"
  /\ \E kind \in Kinds :
       /\ \E ops \in BuildRandomTpccTxn(c, kind) :
            held' = [held EXCEPT ![c] = IF accepting THEN <<ops>> ELSE <<>>]
       /\ pool' = [pool EXCEPT ![c] =
                     [t \in Tables |-> IF t \in Pooled(kind) THEN PoolOf(c, t) ELSE @[t]]]
  /\ client' = [client EXCEPT ![c] = IF accepting THEN "pushing" ELSE "over"]
  /\ UNCHANGED <<config, phase, partitions, accepting, queue, taken, execution>>

\* The push itself does not look at the window again.
Push(c) ==
  /\ client[c] = "pushing"
  /\ queue' = Append(queue, [operations |-> held[c][1], last_one |-> held[c][1] # <<>>])
  /\ held' = [held EXCEPT ![c] = <<>>]
  /\ client' = [client EXCEPT ![c] = "over"]
  /\ UNCHANGED <<config, phase, partitions, accepting, pool, taken, execution>>

CloseWindow ==
  /\ phase = "window" /\ accepting
  /\ accepting' = FALSE
  /\ UNCHANGED <<config, phase, partitions, queue, client, held, pool, taken, execution>>

DrainQueue ==
  /\ phase = "window" /\ ~ accepting
  /\ taken' = queue /\ queue' = <<>>
  /\ phase' = "joining"
  /\ UNCHANGED <<config, partitions, accepting, client, held, pool, execution>>

------------------------------------------------------------------------------
(* Execution. *)

Txns == AssignIds(taken, 0, 0)
CommittedHere == Committed(Txns)

\* The version chains, which the batches are filled from: by server and key, the operations
\* of a chain in the order of their ids.
ChainOrder(o, p) ==
  \/ o.key[1] < p.key[1]
  \/ o.key[1] = p.key[1] /\ o.key[2] < p.key[2]
  \/ o.key = p.key /\ o.goid < p.goid

LastIn(ops) == CHOOSE o \in ops : \A p \in ops : p = o \/ ChainOrder(p, o)

BatchOf(ops, type, t, s) ==
  {op \in ops : op.type = type /\ UnpackTable(op.key[2]) = t /\ op.key[1] = s}

\* The clients are joined; AssignAbort; the batches by type, table and server.
BuildBatches ==
  /\ phase = "joining" /\ \A c \in Clients : client[c] = "over"
  /\ LET left == Survivors(Txns)
     IN  batches' = [b \in {"READ", "UPDATE"} \X Tables \X Servers |->
                       BatchOf(left, b[1], b[2], b[3])]
  /\ phase' = "READ" /\ table' = 0
  /\ UNCHANGED <<config, partitions, intake, taken, orams, results>>

\* A child for every partition; none is without records.
Workers == {s \in Servers : s < Len(partitions[table])}

Address(op) == <<UnpackTable(op.key[2]), op.key[1], UnpackKey(op.key[2])>>

\* The child of one server executes the batch of the phase, one operation after another in
\* the order of the chains: the last one of a block leaves its content there.
SendBatchToServer(s) ==
  LET b == <<phase, table, s>>
      batch == batches[b]
      OpsAt(a) == {op \in batch : Address(op) = a}
  IN
  /\ phase \in {"READ", "UPDATE"} /\ s \in Workers /\ batch # {}
  /\ IF phase = "READ"
     THEN /\ results' = [g \in DOMAIN results \cup {op.goid : op \in batch} |->
                           IF g \in DOMAIN results THEN results[g]
                           ELSE orams[Address(CHOOSE op \in batch : op.goid = g)]]
          /\ UNCHANGED orams
     ELSE /\ orams' = [a \in DOMAIN orams |->
                         IF OpsAt(a) = {} THEN orams[a] ELSE LastIn(OpsAt(a)).val]
          /\ UNCHANGED results
  /\ batches' = [batches EXCEPT ![b] = {}]
  /\ UNCHANGED <<config, phase, partitions, intake, taken, table>>

\* Mutant: the updates come first.
FirstUpdates(p) == IF p = "UPDATE" THEN "READ" ELSE "over"
NextPhase(p) == IF p = "READ" THEN "UPDATE" ELSE "over"

\* The threads of a table are joined, then the next table that has a batch; after the
\* last, the next phase.
JoinWorkers ==
  /\ phase \in {"READ", "UPDATE"}
  /\ \A s \in Workers : batches[<<phase, table, s>>] = {}
  /\ LET later == {t \in Tables : t > table /\ \E s \in Servers : batches[<<phase, t, s>>] # {}}
     IN  IF later # {}
         THEN table' = Min(later) /\ UNCHANGED phase
         ELSE table' = 0 /\ phase' = NextPhase(phase)
  /\ UNCHANGED <<config, partitions, intake, taken, orams, batches, results>>

Next ==
  \/ InitTables \/ OpenWindow \/ CloseWindow \/ DrainQueue \/ BuildBatches \/ JoinWorkers
  \/ \E c \in Clients : SeeWindow(c) \/ Build(c) \/ Push(c)
  \/ \E s \in Servers : SendBatchToServer(s)

Spec == Init /\ [][Next]_vars

------------------------------------------------------------------------------
(* Properties. *)

\* The block an operation was queued for.
BlockOf(op) == taken[op.ts + 1].operations[op.goid - OpsBefore(taken, op.ts + 1) + 1].block

\* Every operation a client queues is on a block that is loaded in this configuration, and
\* that some primary key leads to: no client picks from what an earlier configuration had,
\* and the rows whose key a later row took over are never touched.
OpsHitRecords ==
  \A c \in Clients : held[c] # <<>> =>
    \A op \in Range(held[c][1]) :
      /\ op.block[1] \in Tables /\ Tail(op.block) \in Range(PkToOram(op.block[1]))
      /\ Address(op) = op.block /\ op.block \in DOMAIN orams

\* An epoch leaves in every block what the last committed transaction wrote to it, or what
\* was loaded, and every committed read returns what the committed transactions before it
\* wrote to its block: executing all reads before all updates, and only what is left in the
\* version chains, does not show.  A transaction does not read its own writes.
EpochIsSerial ==
  LET committed == CommittedHere
      ops == {op \in Ops(Txns) : op.ts \in committed}
      written(block, ts) == {w \in ops : IsWrite(w) /\ BlockOf(w) = block /\ w.ts < ts}
  IN
  phase = "over" /\ config > 0 =>
    /\ \A block \in DOMAIN orams : orams[block] = LastWritten(written(block, Len(taken)), "loaded")
    /\ \A r \in ops : IsRead(r) => results[r.goid] = LastWritten(written(BlockOf(r), r.ts), "loaded")

\* "Same primary_key on different partitions does NOT mean the same record": a transaction
\* is aborted only if a later one reads a block that it writes, whatever numbers blocks of
\* other tables and servers have.  Rows with one key share the block of the last of them, so
\* two transactions on different rows may be in conflict.
AbortsOnlyOnConflict ==
  LET committed == CommittedHere
      ops == Ops(Txns)
  IN
  phase = "READ" =>
    \A t \in Complete(Txns) : t.ts \notin committed =>
      \E w \in OpsOf(t), r \in ops :
        IsWrite(w) /\ IsRead(r) /\ w.ts < r.ts /\ BlockOf(w) = BlockOf(r)
==============================================================================

---------------------------- MODULE RBRWEpochProofs ----------------------------
(***************************************************************************)
(* The epoch of runEpoch_RBR_W, for every set of servers, keys, contents   *)
(* and transactions, and every number of transactions and sub-epochs: type *)
(* correctness, and the three safety invariants.                           *)
(***************************************************************************)
EXTENDS RBRWEpoch, ExecutorProofs

\* Nobody wrote the record of an operation before its transaction.
Clean(op, ops) == \A w \in WritesOf(op.key, ops) : w.ts >= op.ts

\* A content that a read may be answered with.
Meant(op, ops, v) ==
  v \in Values /\ (Clean(op, ops) => v = ValueBefore(op, ops, base))

\* What the cache holds was read from the ORAMs, or written by one of the operations.
CacheFrom(ops) ==
  \A k \in DOMAIN vcache :
    /\ k \in Keys /\ vcache[k] \in Values
    /\ vcache[k] = base[k] \/ \E w \in WritesOf(k, ops) : vcache[k] = w.val

\* What the ended sub-epochs found.
ResultsMeant ==
  /\ DOMAIN results \subseteq {op.goid : op \in Ops(all_txns)}
  /\ Range(results) \subseteq Results
  /\ ok => \A op \in Ops(all_txns) : IsRead(op) =>
       op.goid \in DOMAIN results /\ Meant(op, Ops(all_txns), results[op.goid])

\* The plan of a batch of reads: the answer to each is known, or it is the result of a read
\* of its record that the batch sends.
Incoming == {op \in Ops(incoming) : IsRead(op)}
Epoch == Ops(all_txns \o incoming)
PlannedAs(d, op, table) ==
  \/ \E v \in Values : d = Buffered(v) /\ Meant(op, Epoch, v)
  \/ /\ Meant(op, Epoch, base[op.key])
     /\ \E leader \in Incoming :
          /\ leader.key = op.key /\ table[leader.goid] = ToOram(leader)
          /\ d = ToOram(leader) \/ d = Coalesced(leader)
ReadsPlanned ==
  /\ DOMAIN plan = {op.goid : op \in Incoming}
  /\ \A op \in Incoming : PlannedAs(plan[op.goid], op, plan)
ReadBatch == BoundOps(Incoming, plan)

\* The plan of the batch of writes.
WritePlan == PlanOf(CommittedWrites,
                    [op \in CommittedWrites |-> WriteDecision(op, CommittedWrites)])
WriteBatch == BoundOps(CommittedWrites, WritePlan)

AllAnswers ==
  [ts \in Timestamps(all_txns) |-> AnswerTo(CHOOSE t \in Range(all_txns) : t.ts = ts)]

\* The inductive invariant.
Inv ==
  /\ phase \in {"collect", "dedup", "read", "assign", "writes", "write", "answered"}
  /\ r \in 0 .. R /\ ok \in BOOLEAN
  /\ all_txns \in Seq(NumberedTxns) /\ incoming \in Seq(NumberedTxns)
  /\ WellNumbered(all_txns \o incoming)
  /\ phase \in {"collect", "dedup", "read"} => r < R
  /\ phase \notin {"dedup", "read"} => incoming = << >>
  /\ phase \in {"collect", "dedup", "read", "assign"} => committed = {}
  /\ phase \in {"writes", "write", "answered"} => committed = Committed(all_txns)
  /\ phase # "answered" => answers = << >>
  /\ IF phase = "read" THEN CacheFrom(Epoch) ELSE CacheFrom(Ops(all_txns))
  /\ ResultsMeant
  /\ phase \in {"collect", "dedup", "assign", "writes"} => plan = << >> /\ Working({}, base)
  /\ phase = "read" => ReadsPlanned /\ Working(ReadBatch, base)
  /\ phase \in {"write", "answered"} => plan = WritePlan /\ Working(WriteBatch, base)
  /\ phase = "answered" => busy = {} /\ results = NewResults /\ answers = AllAnswers

------------------------------------------------------------------------------

\* The operations of the sub-epochs before, and of the one in progress.
LEMMA EpochParts ==
  ASSUME NEW a \in Seq(NumberedTxns), NEW b \in Seq(NumberedTxns), WellNumbered(a \o b)
  PROVE  /\ Ops(a \o b) = Ops(a) \cup Ops(b)
         /\ Numbered(Ops(a \o b)) /\ Numbered(Ops(a)) /\ Numbered(Ops(b))
         /\ \A o \in Ops(a), p \in Ops(b) : o.ts < p.ts /\ o.goid < p.goid
<1> DEFINE c == a \o b
           A == Len(a)
           B == Len(b)
<1>1. /\ A \in Nat /\ B \in Nat /\ DOMAIN a = 1 .. A /\ DOMAIN b = 1 .. B
      /\ c \in Seq(NumberedTxns) /\ DOMAIN c = 1 .. A + B
      /\ \A i \in 1 .. A : c[i] = a[i]
      /\ \A i \in 1 .. B : c[A + i] = b[i]
  BY Concatenation
<1>2. /\ \A t \in Range(a) : \E i \in 1 .. A : t = c[i]
      /\ \A t \in Range(b) : \E i \in 1 .. B : t = c[A + i]
  <2> HIDE DEF c, A, B
  <2> QED BY <1>1 DEF Range
<1>3. Range(c) = Range(a) \cup Range(b)
  <2> HIDE DEF c, A, B
  <2>1. ASSUME NEW i \in 1 .. A + B PROVE c[i] \in Range(a) \cup Range(b)
    <3>1. CASE i \in 1 .. A
      BY <1>1, <3>1 DEF Range
    <3>2. CASE i \notin 1 .. A
      <4>1. i - A \in 1 .. B /\ A + (i - A) = i
        BY <1>1, <3>2
      <4>2. c[i] = b[i - A]
        BY <1>1, <4>1
      <4> QED BY <1>1, <4>1, <4>2 DEF Range
    <3> QED BY <3>1, <3>2
  <2>2. \A i \in 1 .. B : A + i \in 1 .. A + B
    BY <1>1
  <2>3. \A i \in 1 .. A : i \in 1 .. A + B
    BY <1>1
  <2> QED BY <1>1, <1>2, <2>1, <2>2, <2>3 DEF Range
<1>4. Ops(c) = Ops(a) \cup Ops(b)
  BY <1>3 DEF Ops
<1>5. Numbered(Ops(c))
  BY EpochIsNumbered
<1> HIDE DEF c
<1>6. \A i \in 1 .. A + B : c[i].ts = i - 1 /\ \A op \in OpsOf(c[i]) : op.ts = i - 1
  BY <1>1 DEF c, WellNumbered, OpsOf, Range
<1>7. \A o \in Ops(a) : o.ts \in Nat /\ o.ts < A
  <2> HIDE DEF A, B
  <2>1. \A o \in Ops(a) : \E i \in 1 .. A : o \in OpsOf(c[i])
    BY <1>2 DEF Ops
  <2>2. \A i \in 1 .. A : i \in 1 .. A + B
    BY <1>1
  <2> QED BY <1>1, <1>6, <2>1, <2>2
<1>8. \A o \in Ops(b) : o.ts \in Nat /\ A <= o.ts
  <2> HIDE DEF A, B
  <2>1. \A o \in Ops(b) : \E i \in 1 .. B : o \in OpsOf(c[A + i])
    BY <1>2 DEF Ops
  <2>2. \A i \in 1 .. B : A + i \in 1 .. A + B
    BY <1>1
  <2> QED BY <1>1, <1>6, <2>1, <2>2
<1>9. ASSUME NEW o \in Ops(a), NEW p \in Ops(b) PROVE o.ts < p.ts /\ o.goid < p.goid
  <2>1. o.ts < p.ts
    BY <1>1, <1>7, <1>8
  <2> QED BY <1>4, <1>5, <2>1 DEF Numbered
<1> QED BY <1>4, <1>5, <1>9, SubsetIsNumbered DEF c

\* A later sub-epoch changes neither who came before an operation nor whether it is clean.
LEMMA MeantLater ==
  ASSUME NEW a \in Seq(NumberedTxns), NEW b \in Seq(NumberedTxns), WellNumbered(a \o b),
         NEW op \in Ops(a), NEW v, Meant(op, Ops(a), v)
  PROVE  Meant(op, Ops(a \o b), v)
<1>1. /\ Ops(a \o b) = Ops(a) \cup Ops(b) /\ Numbered(Ops(a)) /\ Numbered(Ops(a \o b))
      /\ \A w \in Ops(b) : op.goid < w.goid
  BY EpochParts
<1>2. \A w \in Ops(a \o b) : w.goid \in Nat
  BY <1>1 DEF Numbered, NumberedOps
<1>3. WritesBefore(op, Ops(a \o b)) = WritesBefore(op, Ops(a))
  <2>1. \A w \in Ops(b) : ~ (w.goid < op.goid)
    BY <1>1, <1>2
  <2> QED BY <1>1, <2>1 DEF WritesBefore
<1>4. op \in Ops(a \o b)
  BY <1>1
<1>5. ValueBefore(op, Ops(a \o b), base) = ValueBefore(op, Ops(a), base)
  BY <1>1, <1>3, <1>4, ValueBeforeIs
<1>6. Clean(op, Ops(a \o b)) => Clean(op, Ops(a))
  BY <1>1 DEF Clean, WritesOf
<1> QED BY <1>5, <1>6 DEF Meant

\* When nothing of a sub-epoch writes, the ORAMs are as they were.
LEMMA ReadsChangeNothing ==
  ASSUME NEW bound, Working(bound, base), \A op \in bound : ~ IsWrite(op)
  PROVE  db = base
<1>1. \A k \in Keys : db[k] = base[k]
  BY DEF Working, WritesOf
<1> QED BY <1>1 DEF Working

\* Submitting a batch after one that has been joined.
LEMMA NextBatchWorks ==
  ASSUME NEW bound, IsBound(bound), NEW last, Working(last, base), db = base,
         Submit(bound), base' = base
  PROVE  Working(bound, base)'
<1>1. db \in [Keys -> Values] /\ dead \subseteq Servers /\ killed \in BOOLEAN
  BY DEF Working
<1>2. Working(bound, db)'
  BY <1>1, SubmitWorks
<1>3. db' = base'
  BY DEF Submit
<1> QED BY <1>2, <1>3

\* No operations are a bound set.
LEMMA NothingIsBound == IsBound({})
BY DEF IsBound

\* The decision on a read of the batch is one of the planned ones.
LEMMA ReadDecisionPlanned ==
  ASSUME Inv, phase = "dedup", NEW op \in Incoming,
         NEW table, \A o \in Incoming : table[o.goid] = ReadDecision(o, Ops(incoming))
  PROVE  PlannedAs(ReadDecision(op, Ops(incoming)), op, table)
<1> DEFINE ops == Ops(incoming)
           before == WritesBefore(op, ops)
           reads(o) == {c \in ops : IsRead(c) /\ SameChain(c, o)}
           leader == First(reads(op))
<1>1. /\ Epoch = Ops(all_txns) \cup ops /\ Numbered(Epoch) /\ Numbered(ops)
      /\ \A o \in Ops(all_txns), p \in ops : o.ts < p.ts /\ o.goid < p.goid
  BY EpochParts DEF Inv, Epoch
<1>2. /\ op \in ops /\ IsRead(op) /\ op \in Epoch /\ op.key \in Keys
      /\ \A o \in Epoch : o \in NumberedOps /\ o.ts \in Nat /\ o.goid \in Nat
  BY <1>1, ReadOrWrite DEF Incoming, Numbered
<1>3. base[op.key] \in Values
  BY <1>2 DEF Inv, Working
<1>4. ASSUME Clean(op, Epoch)
      PROVE  /\ WritesBefore(op, Epoch) = before
             /\ WritesOf(op.key, Ops(all_txns)) = {}
  <2>1. \A w \in Ops(all_txns) : ~ (IsWrite(w) /\ w.key = op.key)
    <3>1. \A w \in Ops(all_txns) : w \in Epoch /\ w.ts < op.ts
      BY <1>1, <1>2
    <3> QED BY <1>2, <1>4, <3>1 DEF Clean, WritesOf
  <2> QED BY <1>1, <2>1 DEF WritesBefore, WritesOf, SameChain
<1>5. ValueBefore(op, Epoch, base) = IF WritesBefore(op, Epoch) = {} THEN base[op.key]
                                     ELSE Latest(WritesBefore(op, Epoch)).val
  BY <1>1, <1>2, ValueBeforeIs
<1>6. CASE before # {}
  <2>1. Latest(before) \in before
    BY <1>1, <1>6, SubsetIsNumbered, FirstAndLatest DEF WritesBefore
  <2>2. Latest(before).val \in Values
    <3>1. Latest(before) \in ops /\ IsWrite(Latest(before))
      BY <2>1 DEF WritesBefore
    <3> QED BY <1>1, <1>2, <3>1, ReadOrWrite
  <2>3. Meant(op, Epoch, Latest(before).val)
    BY <1>4, <1>5, <1>6, <2>2 DEF Meant
  <2>4. ReadDecision(op, ops) = Buffered(Latest(before).val)
    BY <1>6 DEF ReadDecision
  <2> QED BY <2>2, <2>3, <2>4 DEF PlannedAs
<1>7. CASE before = {} /\ op.key \in DOMAIN vcache
  <2>1. vcache[op.key] \in Values
        /\ (WritesOf(op.key, Ops(all_txns)) = {} => vcache[op.key] = base[op.key])
    BY <1>7 DEF Inv, CacheFrom
  <2>2. Meant(op, Epoch, vcache[op.key])
    BY <1>4, <1>5, <1>7, <2>1 DEF Meant
  <2>3. ReadDecision(op, ops) = Buffered(vcache[op.key])
    BY <1>7 DEF ReadDecision
  <2> QED BY <2>1, <2>2, <2>3 DEF PlannedAs
<1>8. CASE before = {} /\ op.key \notin DOMAIN vcache
  <2>1. Numbered(reads(op)) /\ op \in reads(op)
    <3>1. reads(op) \in SUBSET ops /\ op \in reads(op)
      BY <1>2 DEF SameChain
    <3> QED BY <1>1, <3>1, SubsetIsNumbered
  <2>2. leader \in reads(op) /\ leader.goid <= op.goid
    <3> HIDE DEF reads
    <3> QED BY <2>1, FirstAndLatest
  <2>3. leader \in ops /\ IsRead(leader) /\ leader.key = op.key
    <3> HIDE DEF leader
    <3> QED BY <2>2 DEF SameChain
  <2>4. reads(leader) = reads(op)
    <3> HIDE DEF leader
    <3> QED BY <2>3 DEF SameChain
  <2>5. WritesBefore(leader, ops) = {}
    <3> HIDE DEF leader
    <3>1. \A w \in ops : w.goid < leader.goid => w.goid < op.goid
      BY <1>1, <1>2, <2>2, <2>3
    <3> QED BY <1>8, <2>3, <3>1 DEF WritesBefore, SameChain
  <2>6. \A o : WritesBefore(o, ops) = {} /\ o.key \notin DOMAIN vcache =>
                 ReadDecision(o, ops) = IF o = First(reads(o)) THEN ToOram(o)
                                        ELSE Coalesced(First(reads(o)))
    BY DEF ReadDecision
  <2>7. ReadDecision(leader, ops) = ToOram(leader)
    <3> HIDE DEF reads
    <3> QED BY <1>8, <2>3, <2>4, <2>5, <2>6
  <2>8. ReadDecision(op, ops) = ToOram(leader) \/ ReadDecision(op, ops) = Coalesced(leader)
    <3> HIDE DEF reads
    <3> QED BY <1>8, <2>6
  <2>9. Meant(op, Epoch, base[op.key])
    BY <1>3, <1>4, <1>5, <1>8 DEF Meant
  <2>10. leader \in Incoming /\ table[leader.goid] = ToOram(leader)
    <3> HIDE DEF leader
    <3> QED BY <2>3, <2>7 DEF Incoming
  <2> HIDE DEF leader
  <2> QED BY <2>3, <2>8, <2>9, <2>10 DEF PlannedAs
<1> QED BY <1>6, <1>7, <1>8

\* dedupReadsForBatch plans the reads, and the cache has the writes.
LEMMA DedupReadsInv == Inv /\ DedupReads => Inv'
<1> SUFFICES ASSUME Inv, DedupReads PROVE Inv'
  OBVIOUS
<1> DEFINE ops == Ops(incoming)
           writes == {op \in ops : IsWrite(op)}
           decide == [op \in Incoming |-> ReadDecision(op, ops)]
           written == {op.key : op \in writes}
<1>1. /\ phase = "dedup" /\ phase' = "read" /\ plan' = PlanOf(Incoming, decide)
      /\ vcache' = [k \in DOMAIN vcache \cup written |->
                      IF k \in written THEN Latest({w \in writes : w.key = k}).val ELSE vcache[k]]
      /\ Submit(BoundOps(Incoming, plan'))
      /\ UNCHANGED <<r, incoming, all_txns, results, ok, committed, answers, base>>
  BY DEF DedupReads, Incoming
<1>2. /\ Epoch = Ops(all_txns) \cup ops /\ Numbered(Epoch) /\ Numbered(ops)
  BY EpochParts DEF Inv, Epoch
<1>3. Incoming \in SUBSET ops /\ Numbered(Incoming) /\ \A op \in Incoming : IsRead(op)
  BY <1>2, SubsetIsNumbered DEF Incoming
<1>4. /\ DOMAIN plan' = {op.goid : op \in Incoming}
      /\ \A op \in Incoming : plan'[op.goid] = ReadDecision(op, ops)
  <2>1. DOMAIN plan' = {op.goid : op \in Incoming}
    BY <1>1 DEF PlanOf
  <2>2. ASSUME NEW op \in Incoming PROVE plan'[op.goid] = ReadDecision(op, ops)
    <3>1. (CHOOSE o \in Incoming : o.goid = op.goid) = op
      BY <1>3 DEF Numbered
    <3> QED BY <1>1, <3>1 DEF PlanOf
  <2> QED BY <2>1, <2>2
<1>5. Incoming' = Incoming /\ Epoch' = Epoch
  BY <1>1 DEF Incoming, Epoch
<1>6. ReadsPlanned'
  <2>1. \A op \in Incoming : PlannedAs(plan'[op.goid], op, plan')
    BY <1>1, <1>4, ReadDecisionPlanned
  <2>2. base' = base
    BY <1>1
  <2> QED BY <1>4, <1>5, <2>1, <2>2 DEF ReadsPlanned, PlannedAs, Meant
<1>7. Working(ReadBatch, base)'
  <2>1. PICK bound : bound = BoundOps(Incoming, plan')
    OBVIOUS
  <2>2. bound \subseteq Incoming
    BY <2>1 DEF BoundOps
  <2>3. IsBound(bound)
    <3>1. \A op \in Incoming : op \in NumberedOps /\ ~ IsWrite(op)
      BY <1>2, <1>3, ReadOrWrite DEF Numbered
    <3> QED BY <1>3, <2>2, <3>1 DEF IsBound, Numbered
  <2>4. Working({}, base) /\ db = base
    BY <1>1, ReadsChangeNothing DEF Inv
  <2>5. Working(bound, base)'
    BY <1>1, <2>1, <2>3, <2>4, NextBatchWorks
  <2>6. ReadBatch' = bound
    BY <1>5, <2>1 DEF ReadBatch
  <2> QED BY <2>5, <2>6
<1>8. CacheFrom(Epoch)'
  <2>1. ASSUME NEW k \in written
        PROVE  /\ k \in Keys /\ vcache'[k] \in Values
               /\ \E w \in WritesOf(k, Epoch) : vcache'[k] = w.val
    <3> DEFINE here == {w \in writes : w.key = k}
    <3>1. here \in SUBSET ops /\ here # {}
      OBVIOUS
    <3>2. Latest(here) \in here
      <4> HIDE DEF here
      <4> QED BY <1>2, <3>1, SubsetIsNumbered, FirstAndLatest
    <3>3. vcache'[k] = Latest(here).val
      BY <1>1
    <3>4. PICK w \in here : w = Latest(here)
      BY <3>2
    <3>5. w \in ops /\ IsWrite(w) /\ w.key = k /\ w \in Epoch
      BY <1>2
    <3>6. w.key \in Keys /\ w.val \in Values
      BY <1>2, <3>5, ReadOrWrite DEF Numbered
    <3> HIDE DEF here
    <3> QED BY <3>3, <3>4, <3>5, <3>6 DEF WritesOf
  <2>2. \A k \in DOMAIN vcache \ written : vcache'[k] = vcache[k]
    BY <1>1
  <2>3. \A k \in DOMAIN vcache \ written :
          /\ k \in Keys /\ vcache'[k] \in Values
          /\ vcache'[k] = base[k] \/ \E w \in WritesOf(k, Epoch) : vcache'[k] = w.val
    BY <1>1, <1>2, <2>2 DEF Inv, CacheFrom, WritesOf
  <2>4. DOMAIN vcache' = DOMAIN vcache \cup written
    BY <1>1
  <2> HIDE DEF written
  <2> QED BY <1>1, <1>5, <2>1, <2>3, <2>4 DEF CacheFrom
<1>9. ResultsMeant'
  BY <1>1 DEF Inv, ResultsMeant, Meant
<1> QED BY <1>1, <1>6, <1>7, <1>8, <1>9 DEF Inv

\* The reads a batch sends are among those of the sub-epoch, and the cache absorbs just them.
LEMMA ReadBatchIs ==
  ASSUME Inv, phase = "read"
  PROVE  /\ Epoch = Ops(all_txns) \cup Ops(incoming)
         /\ Numbered(Epoch) /\ Numbered(Ops(incoming)) /\ IsBound(ReadBatch)
         /\ ReadBatch \subseteq Incoming /\ BoundOps(Ops(incoming), plan) = ReadBatch
         /\ \A op \in Incoming : op \in Ops(incoming) /\ op \in NumberedOps /\ ~ IsWrite(op)
         /\ \A op \in Incoming : plan[op.goid] = ToOram(op) => op \in ReadBatch
<1>1. /\ Epoch = Ops(all_txns) \cup Ops(incoming) /\ Numbered(Epoch) /\ Numbered(Ops(incoming))
  BY EpochParts DEF Inv, Epoch
<1>2. \A op \in Incoming : op \in Ops(incoming) /\ op \in NumberedOps /\ ~ IsWrite(op)
  BY <1>1, ReadOrWrite DEF Incoming, Numbered
<1>3. ReadBatch \subseteq Incoming
  BY DEF ReadBatch, BoundOps
<1>4. IsBound(ReadBatch)
  BY <1>1, <1>2, <1>3 DEF IsBound, Numbered
<1>5. DOMAIN plan = {op.goid : op \in Incoming}
  BY DEF Inv, ReadsPlanned
<1>6. \A op \in Ops(incoming) : op.goid \in DOMAIN plan => op \in Incoming
  <2>1. \A o, p \in Ops(incoming) : o.goid = p.goid => o = p
    BY <1>1 DEF Numbered
  <2> QED BY <1>2, <1>5, <2>1
<1>7. BoundOps(Ops(incoming), plan) = ReadBatch
  BY <1>2, <1>6 DEF BoundOps, ReadBatch
<1>8. \A op \in Incoming : plan[op.goid] = ToOram(op) => op \in ReadBatch
  BY <1>5 DEF ReadBatch, BoundOps, ToOram
<1> QED BY <1>1, <1>2, <1>3, <1>4, <1>7, <1>8

\* What a batch of reads comes back with.
LEMMA ReadBatchResolves ==
  ASSUME Inv, phase = "read", busy = {}, NEW op \in Incoming
  PROVE  /\ Resolve(plan[op.goid], slots) \in Results
         /\ Success => Meant(op, Epoch, Resolve(plan[op.goid], slots))
<1>1. PlannedAs(plan[op.goid], op, plan) /\ Working(ReadBatch, base)
  BY DEF Inv, ReadsPlanned
<1>2. CASE \E v \in Values : plan[op.goid] = Buffered(v) /\ Meant(op, Epoch, v)
  BY <1>2 DEF Resolve, Buffered, Results
<1>3. ASSUME Meant(op, Epoch, base[op.key]),
             NEW leader \in Incoming, leader.key = op.key, plan[leader.goid] = ToOram(leader),
             plan[op.goid] = ToOram(leader) \/ plan[op.goid] = Coalesced(leader)
      PROVE  /\ Resolve(plan[op.goid], slots) \in Results
             /\ Success => Meant(op, Epoch, Resolve(plan[op.goid], slots))
  <2>1. leader \in ReadBatch /\ IsRead(leader)
    BY <1>3, ReadBatchIs DEF Incoming
  <2>2. Resolve(plan[op.goid], slots) = slots[leader.goid]
    BY <1>3 DEF Resolve, ToOram, Coalesced
  <2>3. slots[leader.goid] \in Results
    <3>1. slots \in [{o.goid : o \in ReadBatch} -> Results]
      BY <1>1 DEF Working
    <3> QED BY <2>1, <3>1
  <2>4. Success => slots[leader.goid] = base[op.key]
    BY <1>1, <1>3, <2>1, WorkingDone
  <2> QED BY <1>3, <2>2, <2>3, <2>4
<1> QED BY <1>1, <1>2, <1>3 DEF PlannedAs

\* absorb, and the end of a sub-epoch.
LEMMA AbsorbInv == Inv /\ Absorb => Inv'
<1> SUFFICES ASSUME Inv, Absorb PROVE Inv'
  OBVIOUS
<1>1. /\ phase = "read" /\ busy = {}
      /\ vcache' = [k \in DOMAIN vcache \cup AbsorbedKeys |->
                      IF k \in AbsorbedKeys
                      THEN slots[(CHOOSE op \in BoundOps(Ops(incoming), plan) : op.key = k).goid]
                      ELSE vcache[k]]
      /\ results' = NewResults
      /\ ok' = (ok /\ Success)
      /\ all_txns' = all_txns \o incoming
      /\ incoming' = << >> /\ plan' = << >> /\ r' = r + 1
      /\ phase' = IF r + 1 < R THEN "collect" ELSE "assign"
      /\ Submit({})
      /\ UNCHANGED <<committed, answers, base>>
  BY DEF Absorb, Joined
<1>2. /\ Epoch = Ops(all_txns) \cup Ops(incoming)
      /\ Numbered(Epoch) /\ Numbered(Ops(incoming))
      /\ ReadBatch \subseteq Incoming /\ BoundOps(Ops(incoming), plan) = ReadBatch
      /\ \A op \in Incoming : op \in Ops(incoming) /\ op \in NumberedOps /\ ~ IsWrite(op)
  BY <1>1, ReadBatchIs
<1>3. Working(ReadBatch, base) /\ DOMAIN plan = {op.goid : op \in Incoming}
  BY <1>1 DEF Inv, ReadsPlanned
<1>4. /\ all_txns \in Seq(NumberedTxns) /\ incoming \in Seq(NumberedTxns)
      /\ WellNumbered(all_txns \o incoming)
      /\ r \in 0 .. R /\ r < R /\ ok \in BOOLEAN
  BY <1>1 DEF Inv
<1>5. all_txns' \in Seq(NumberedTxns) /\ all_txns' \o incoming' = all_txns \o incoming
      /\ incoming' \in Seq(NumberedTxns)
  BY <1>1, <1>4
<1>6. Ops(all_txns') = Epoch
  BY <1>1 DEF Epoch
<1>7. r' \in 0 .. R /\ (phase' = "collect" => r' < R) /\ phase' \in {"collect", "assign"}
  BY <1>1, <1>4, EpochAssumption
<1>8. Working({}, base)'
  <2>1. db = base
    BY <1>2, <1>3, ReadsChangeNothing
  <2> QED BY <1>1, <1>3, <2>1, NothingIsBound, NextBatchWorks
<1>9. ASSUME NEW k \in DOMAIN vcache'
      PROVE  /\ k \in Keys /\ vcache'[k] \in Values
             /\ vcache'[k] = base[k] \/ \E w \in WritesOf(k, Epoch) : vcache'[k] = w.val
  <2>1. CASE k \in AbsorbedKeys
    <3>1. Success /\ k \in {op.key : op \in ReadBatch}
      BY <1>2, <2>1 DEF AbsorbedKeys
    <3>2. PICK op : op = CHOOSE o \in ReadBatch : o.key = k
      OBVIOUS
    <3>3. op \in ReadBatch /\ op.key = k
      BY <3>1, <3>2
    <3>4. vcache'[k] = slots[op.goid]
      BY <1>1, <1>2, <2>1, <3>2
    <3>5. IsRead(op) /\ k \in Keys
      BY <1>2, <3>3, ReadOrWrite DEF Incoming
    <3>6. slots[op.goid] = base[k]
      BY <1>1, <1>3, <3>1, <3>3, <3>5, WorkingDone
    <3> QED BY <1>3, <3>4, <3>5, <3>6 DEF Working
  <2>2. CASE k \notin AbsorbedKeys
    <3>1. k \in DOMAIN vcache /\ vcache'[k] = vcache[k]
      BY <1>1, <2>2
    <3> QED BY <1>1, <3>1 DEF Inv, CacheFrom
  <2> QED BY <2>1, <2>2
<1>10. CacheFrom(Ops(all_txns))'
  BY <1>1, <1>6, <1>9 DEF CacheFrom
<1>11. ResultsMeant'
  <2>1. DOMAIN NewResults = DOMAIN results \cup DOMAIN plan
    BY DEF NewResults
  <2>2. DOMAIN results \cup DOMAIN plan \subseteq {op.goid : op \in Epoch}
    BY <1>2, <1>3 DEF Inv, ResultsMeant
  <2>3. \A op \in Incoming : NewResults[op.goid] = Resolve(plan[op.goid], slots)
    BY <1>3 DEF NewResults
  <2>4. \A g \in DOMAIN results \ DOMAIN plan : NewResults[g] = results[g]
    BY DEF NewResults
  <2>5. ASSUME NEW g \in DOMAIN NewResults PROVE NewResults[g] \in Results
    <3>1. CASE g \in DOMAIN plan
      <4>1. PICK op \in Incoming : g = op.goid
        BY <1>3, <3>1
      <4> QED BY <1>1, <2>3, <4>1, ReadBatchResolves
    <3>2. CASE g \notin DOMAIN plan
      BY <2>1, <2>4, <3>2 DEF Inv, ResultsMeant, Range
    <3> QED BY <3>1, <3>2
  <2>6. ASSUME ok, Success, NEW op \in Epoch, IsRead(op)
        PROVE  op.goid \in DOMAIN NewResults /\ Meant(op, Epoch, NewResults[op.goid])
    <3>1. CASE op \in Ops(incoming)
      <4>1. op \in Incoming
        BY <2>6, <3>1 DEF Incoming
      <4>2. Meant(op, Epoch, Resolve(plan[op.goid], slots))
        BY <1>1, <2>6, <4>1, ReadBatchResolves
      <4>3. op.goid \in DOMAIN plan
        BY <1>3, <4>1
      <4> QED BY <2>1, <2>3, <4>1, <4>2, <4>3
    <3>2. CASE op \notin Ops(incoming)
      <4>1. op \in Ops(all_txns) /\ op.goid \in DOMAIN results
            /\ Meant(op, Ops(all_txns), results[op.goid])
        BY <1>2, <2>6, <3>2 DEF Inv, ResultsMeant
      <4>2. op.goid \notin DOMAIN plan
        <5>1. \A o \in Incoming : o \in Epoch /\ o # op
          BY <1>2, <3>2
        <5>2. \A o, p \in Epoch : o.goid = p.goid => o = p
          BY <1>2 DEF Numbered
        <5> QED BY <1>3, <5>1, <5>2
      <4>3. Meant(op, Epoch, results[op.goid])
        BY <1>4, <4>1, MeantLater DEF Epoch
      <4> QED BY <2>1, <2>4, <4>1, <4>2, <4>3
    <3> QED BY <3>1, <3>2
  <2>7. Range(NewResults) \subseteq Results
    BY <2>5 DEF Range
  <2> QED BY <1>1, <1>6, <2>1, <2>2, <2>6, <2>7 DEF ResultsMeant, Meant
<1> QED BY <1>1, <1>4, <1>5, <1>7, <1>8, <1>10, <1>11 DEF Inv

------------------------------------------------------------------------------
(* Phase B. *)

\* The batch of writes has the last committed write of every record, and nothing else.
LEMMA WriteBatchIs ==
  ASSUME Numbered(Ops(all_txns))
  PROVE  /\ Numbered(CommittedWrites)
         /\ \A op \in CommittedWrites : op \in Ops(all_txns) /\ IsWrite(op) /\ op \in NumberedOps
         /\ DOMAIN WritePlan = {op.goid : op \in CommittedWrites}
         /\ \A op \in CommittedWrites :
              WritePlan[op.goid] = IF op = Latest(WritesOf(op.key, CommittedWrites))
                                   THEN ToOram(op) ELSE Dropped
         /\ WriteBatch = {op \in CommittedWrites :
                            op = Latest(WritesOf(op.key, CommittedWrites))}
         /\ IsBound(WriteBatch)
<1>1. CommittedWrites \in SUBSET Ops(all_txns) /\ \A op \in CommittedWrites : IsWrite(op)
  BY DEF CommittedWrites
<1>2. Numbered(CommittedWrites)
  BY <1>1, SubsetIsNumbered
<1>3. DOMAIN WritePlan = {op.goid : op \in CommittedWrites}
  BY DEF WritePlan, PlanOf
<1>4. ASSUME NEW op \in CommittedWrites
      PROVE  WritePlan[op.goid] = IF op = Latest(WritesOf(op.key, CommittedWrites))
                                  THEN ToOram(op) ELSE Dropped
  <2>1. (CHOOSE o \in CommittedWrites : o.goid = op.goid) = op
    BY <1>2 DEF Numbered
  <2>2. WritePlan[op.goid] = WriteDecision(op, CommittedWrites)
    BY <2>1 DEF WritePlan, PlanOf
  <2>3. {w \in CommittedWrites : SameChain(w, op)} = WritesOf(op.key, CommittedWrites)
    BY <1>1 DEF WritesOf, SameChain
  <2> QED BY <2>2, <2>3 DEF WriteDecision
<1>5. Dropped.kind # "TO_ORAM"
  BY DEF Dropped
<1>6. \A op : ToOram(op).kind = "TO_ORAM"
  BY DEF ToOram
<1>7. WriteBatch = {op \in CommittedWrites : op = Latest(WritesOf(op.key, CommittedWrites))}
  BY <1>3, <1>4, <1>5, <1>6 DEF WriteBatch, BoundOps
<1>8. IsBound(WriteBatch)
  BY <1>2, <1>7 DEF IsBound, Numbered
<1>9. \A op \in CommittedWrites : op \in NumberedOps
  BY <1>2 DEF Numbered
<1> QED BY <1>1, <1>2, <1>3, <1>4, <1>7, <1>8, <1>9

\* Between the phases, nothing comes in.
LEMMA AllNumbered ==
  ASSUME Inv, incoming = << >>
  PROVE  /\ all_txns \o incoming = all_txns /\ WellNumbered(all_txns)
         /\ Numbered(Ops(all_txns))
<1>1. all_txns \o incoming = all_txns
  BY DEF Inv
<1>2. WellNumbered(all_txns)
  BY <1>1 DEF Inv
<1> QED BY <1>1, <1>2, EpochIsNumbered

\* dedupWritesAtEnd.
LEMMA DedupWritesInv == Inv /\ DedupWrites => Inv'
<1> SUFFICES ASSUME Inv, DedupWrites PROVE Inv'
  OBVIOUS
<1>1. /\ phase = "writes" /\ phase' = "write" /\ plan' = WritePlan /\ Submit(WriteBatch)
      /\ UNCHANGED <<r, incoming, all_txns, vcache, results, ok, committed, answers, base>>
  BY DEF DedupWrites, WritePlan, WriteBatch
<1>2. Numbered(Ops(all_txns))
  BY <1>1, AllNumbered DEF Inv
<1>3. Working({}, base) /\ db = base
  BY <1>1, ReadsChangeNothing DEF Inv
<1>4. PICK bound : bound = WriteBatch
  OBVIOUS
<1>5. IsBound(bound) /\ Submit(bound)
  BY <1>1, <1>2, <1>4, WriteBatchIs
<1>6. Working(bound, base)'
  BY <1>1, <1>3, <1>5, NextBatchWorks
<1>7. CommittedWrites' = CommittedWrites
  BY <1>1 DEF CommittedWrites
<1>8. WriteBatch' = bound /\ WritePlan' = WritePlan
  BY <1>4, <1>7 DEF WriteBatch, WritePlan
<1>9. Working(WriteBatch, base)'
  BY <1>6, <1>8
<1>10. ResultsMeant' /\ CacheFrom(Ops(all_txns))'
  BY <1>1 DEF Inv, ResultsMeant, Meant, CacheFrom
<1> QED BY <1>1, <1>8, <1>9, <1>10 DEF Inv

\* Once the writes are in, the answers add nothing to the results of the reads.
LEMMA AnswersKeepResults ==
  ASSUME Inv, phase \in {"write", "answered"}, busy = {}
  PROVE  /\ DOMAIN NewResults \subseteq {op.goid : op \in Ops(all_txns)}
         /\ Range(NewResults) \subseteq Results
         /\ \A op \in Ops(all_txns) : IsRead(op) /\ op.goid \in DOMAIN results =>
              op.goid \in DOMAIN NewResults /\ NewResults[op.goid] = results[op.goid]
         /\ Success => \A op \in CommittedWrites :
              op.goid \in DOMAIN NewResults /\ NewResults[op.goid] = None
<1>1. /\ Numbered(Ops(all_txns)) /\ plan = WritePlan /\ Working(WriteBatch, base)
      /\ ResultsMeant
  BY AllNumbered DEF Inv
<1>2. /\ \A op \in CommittedWrites : op \in Ops(all_txns) /\ IsWrite(op) /\ op \in NumberedOps
      /\ DOMAIN plan = {op.goid : op \in CommittedWrites}
      /\ \A op \in CommittedWrites :
              plan[op.goid] = IF op = Latest(WritesOf(op.key, CommittedWrites))
                              THEN ToOram(op) ELSE Dropped
      /\ WriteBatch = {op \in CommittedWrites : op = Latest(WritesOf(op.key, CommittedWrites))}
  BY <1>1, WriteBatchIs
<1>3. /\ DOMAIN NewResults = DOMAIN results \cup DOMAIN plan
      /\ \A g \in DOMAIN plan : NewResults[g] = Resolve(plan[g], slots)
      /\ \A g \in DOMAIN results \ DOMAIN plan : NewResults[g] = results[g]
  BY DEF NewResults
<1>4. ASSUME NEW op \in CommittedWrites
      PROVE  Resolve(plan[op.goid], slots) = None
  <2>1. CASE op \in WriteBatch
    <3>1. plan[op.goid] = ToOram(op)
      BY <1>2, <2>1
    <3>2. slots[op.goid] = None
      BY <1>1, <1>2, <2>1 DEF Working
    <3> QED BY <3>1, <3>2 DEF Resolve, ToOram
  <2>2. CASE op \notin WriteBatch
    <3>1. plan[op.goid] = Dropped
      BY <1>2, <2>2
    <3> QED BY <3>1 DEF Resolve, Dropped
  <2> QED BY <2>1, <2>2
<1>5. \A op \in CommittedWrites : op.goid \in DOMAIN NewResults /\ NewResults[op.goid] = None
  BY <1>2, <1>3, <1>4
<1>6. ASSUME NEW op \in Ops(all_txns), IsRead(op), op.goid \in DOMAIN results
      PROVE  op.goid \in DOMAIN NewResults /\ NewResults[op.goid] = results[op.goid]
  <2>1. \A o \in CommittedWrites : o # op
    BY <1>2, <1>6, ReadOrWrite
  <2>2. op.goid \notin DOMAIN plan
    BY <1>1, <1>2, <2>1 DEF Numbered
  <2> QED BY <1>3, <1>6, <2>2
<1>7. \A g \in DOMAIN NewResults : NewResults[g] \in Results
  <2>1. \A g \in DOMAIN plan : NewResults[g] = None
    BY <1>2, <1>5
  <2>2. \A g \in DOMAIN results : results[g] \in Results
    BY <1>1 DEF ResultsMeant, Range
  <2> QED BY <1>3, <2>1, <2>2 DEF Results
<1>8. DOMAIN NewResults \subseteq {op.goid : op \in Ops(all_txns)}
  BY <1>1, <1>2, <1>3 DEF ResultsMeant
<1>9. Range(NewResults) \subseteq Results
  BY <1>7 DEF Range
<1> QED BY <1>5, <1>6, <1>8, <1>9

\* assembleResultsRBRW.
LEMMA AssembleResultsInv == Inv /\ AssembleResults => Inv'
<1> SUFFICES ASSUME Inv, AssembleResults PROVE Inv'
  OBVIOUS
<1>1. /\ phase = "write" /\ phase' = "answered" /\ busy = {}
      /\ answers' = AllAnswers /\ results' = NewResults
      /\ UNCHANGED <<r, incoming, all_txns, vcache, plan, ok, committed, base>>
      /\ UNCHANGED <<db, todo, busy, slots, failed, dead, killed>>
  BY DEF AssembleResults, Joined, AllAnswers, exec
<1>2. /\ DOMAIN NewResults \subseteq {op.goid : op \in Ops(all_txns)}
      /\ Range(NewResults) \subseteq Results
      /\ \A op \in Ops(all_txns) : IsRead(op) /\ op.goid \in DOMAIN results =>
           op.goid \in DOMAIN NewResults /\ NewResults[op.goid] = results[op.goid]
  BY <1>1, AnswersKeepResults
<1>3. ResultsMeant'
  BY <1>1, <1>2 DEF Inv, ResultsMeant, Meant
<1>4. NewResults' = NewResults
  <2>1. NewResults' = [g \in DOMAIN NewResults \cup DOMAIN plan |->
                         IF g \in DOMAIN plan THEN Resolve(plan[g], slots) ELSE NewResults[g]]
    BY <1>1 DEF NewResults
  <2>2. /\ DOMAIN NewResults = DOMAIN results \cup DOMAIN plan
        /\ \A g \in DOMAIN plan : NewResults[g] = Resolve(plan[g], slots)
        /\ NewResults = [g \in DOMAIN NewResults |-> NewResults[g]]
    BY DEF NewResults
  <2>3. DOMAIN NewResults \cup DOMAIN plan = DOMAIN NewResults
    BY <2>2
  <2> QED BY <2>1, <2>2, <2>3
<1>5. AllAnswers' = AllAnswers
  BY <1>1, <1>4 DEF AllAnswers, AnswerTo, Commits, Success
<1>6. CommittedWrites' = CommittedWrites
  BY <1>1 DEF CommittedWrites
<1>7. WritePlan' = WritePlan /\ WriteBatch' = WriteBatch
  BY <1>6 DEF WriteBatch, WritePlan
<1>8. Working(WriteBatch, base)'
  <2>1. PICK bound : bound = WriteBatch
    OBVIOUS
  <2>2. Working(bound, base)'
    BY <1>1, <2>1 DEF Inv, Working, WritesOf
  <2> QED BY <1>7, <2>1, <2>2
<1>9. CacheFrom(Ops(all_txns))'
  BY <1>1 DEF Inv, CacheFrom
<1> QED BY <1>1, <1>3, <1>4, <1>5, <1>7, <1>8, <1>9 DEF Inv

\* A step of a worker in either phase.
LEMMA DispatchInv ==
  ASSUME Inv, NEW s \in Servers, Dispatch(s)
  PROVE  Inv'
<1>1. /\ phase \in {"read", "write"} /\ Work(s)
      /\ UNCHANGED <<phase, r, incoming, all_txns, vcache, plan, results, ok, committed>>
      /\ UNCHANGED <<answers, base>>
  BY DEF Dispatch, epoch
<1>2. Incoming' = Incoming /\ Epoch' = Epoch /\ CommittedWrites' = CommittedWrites
  BY <1>1 DEF Incoming, Epoch, CommittedWrites
<1>3. ReadBatch' = ReadBatch /\ WritePlan' = WritePlan /\ WriteBatch' = WriteBatch
  BY <1>1, <1>2 DEF ReadBatch, WritePlan, WriteBatch
<1>4. PICK b : b = base
  OBVIOUS
<1>5. phase = "read" => Working(ReadBatch, base)'
  <2> SUFFICES ASSUME phase = "read" PROVE Working(ReadBatch, base)'
    OBVIOUS
  <2>1. PICK bound : bound = ReadBatch
    OBVIOUS
  <2>2. IsBound(bound) /\ Working(bound, b)
    BY <1>4, <2>1, ReadBatchIs DEF Inv
  <2>3. Working(bound, b)'
    BY <1>1, <2>2, WorkWorks
  <2> QED BY <1>1, <1>3, <1>4, <2>1, <2>3
<1>6. phase = "write" => Working(WriteBatch, base)'
  <2> SUFFICES ASSUME phase = "write" PROVE Working(WriteBatch, base)'
    OBVIOUS
  <2>1. PICK bound : bound = WriteBatch
    OBVIOUS
  <2>2. IsBound(bound) /\ Working(bound, b)
    BY <1>4, <2>1, AllNumbered, WriteBatchIs DEF Inv
  <2>3. Working(bound, b)'
    BY <1>1, <2>2, WorkWorks
  <2> QED BY <1>1, <1>3, <1>4, <2>1, <2>3
<1>7. ResultsMeant' /\ (CacheFrom(Epoch) => CacheFrom(Epoch)')
      /\ (CacheFrom(Ops(all_txns)) => CacheFrom(Ops(all_txns))')
  BY <1>1, <1>2 DEF Inv, ResultsMeant, Meant, CacheFrom
<1>8. ReadsPlanned => ReadsPlanned'
  BY <1>1, <1>2 DEF ReadsPlanned, PlannedAs, Meant
<1> QED BY <1>1, <1>3, <1>5, <1>6, <1>7, <1>8 DEF Inv

\* The transactions of a sub-epoch come in.
LEMMA CollectInv == Inv /\ CollectSubEpoch => Inv'
<1> SUFFICES ASSUME Inv, CollectSubEpoch PROVE Inv'
  OBVIOUS
<1>1. /\ phase = "collect" /\ phase' = "dedup" /\ incoming = << >>
      /\ UNCHANGED <<r, all_txns, vcache, plan, results, ok, committed, answers, base>>
      /\ UNCHANGED <<db, todo, busy, slots, failed, dead, killed>>
  BY DEF CollectSubEpoch, Inv, exec
<1>2. all_txns \in Seq(NumberedTxns) /\ Len(all_txns) \in Nat /\ WellNumbered(all_txns)
  BY <1>1, AllNumbered DEF Inv
<1>3. PICK n \in 0 .. MaxTxns - Len(all_txns) : \E batch \in [1 .. n -> Catalogue] :
        incoming' = AssignIds(batch, Len(all_txns), NextGoid(all_txns))
  BY DEF CollectSubEpoch
<1>4. PICK batch \in [1 .. n -> Catalogue] :
        incoming' = AssignIds(batch, Len(all_txns), NextGoid(all_txns))
  BY <1>3
<1>5. batch \in Seq(Catalogue) /\ \A i \in DOMAIN batch : IsSubmission(batch[i])
  BY <1>2, EpochAssumption, CatalogueAssumption
<1>6. PICK A, G : A = Len(all_txns) /\ G = OpsBefore(all_txns, A + 1)
  OBVIOUS
<1>7. incoming' = AssignIds(batch, A, G) /\ A \in Nat /\ G \in Nat
  <2>1. \A i \in DOMAIN all_txns : Len(all_txns[i].operations) \in Nat
    BY <1>2, NumberedLengths
  <2>2. G \in Nat
    BY <1>2, <1>6, <2>1, OpsBeforeStep
  <2> QED BY <1>2, <1>4, <1>6, <2>2 DEF NextGoid
<1>8. incoming' \in Seq(NumberedTxns)
  BY <1>5, <1>7, AssignIdsType DEF IsNumbering
<1>9. WellNumbered(all_txns \o incoming')
  BY <1>2, <1>5, <1>6, <1>7, AssignIdsContinues
<1>10. Working({}, base)' /\ ResultsMeant' /\ CacheFrom(Ops(all_txns))'
  BY <1>1 DEF Inv, Working, WritesOf, ResultsMeant, Meant, CacheFrom
<1> QED BY <1>1, <1>8, <1>9, <1>10 DEF Inv

\* The invariant is preserved by every step.
LEMMA NextInv == Inv /\ [Next]_vars => Inv'
<1> SUFFICES ASSUME Inv, [Next]_vars PROVE Inv'
  OBVIOUS
<1>1. CASE AssignAbort
  <2>1. /\ phase = "assign" /\ phase' = "writes" /\ committed' = Committed(all_txns)
        /\ UNCHANGED <<r, incoming, all_txns, vcache, plan, results, ok, answers, base>>
        /\ UNCHANGED <<db, todo, busy, slots, failed, dead, killed>>
    BY <1>1 DEF AssignAbort, exec
  <2>2. Working({}, base)' /\ ResultsMeant' /\ CacheFrom(Ops(all_txns))'
    BY <2>1 DEF Inv, Working, WritesOf, ResultsMeant, Meant, CacheFrom
  <2> QED BY <2>1, <2>2 DEF Inv
<1>2. CASE NextEpoch
  <2>1. /\ phase = "answered" /\ phase' = "collect" /\ r' = 0 /\ all_txns' = << >>
        /\ vcache' = << >> /\ plan' = << >> /\ results' = << >> /\ ok' = TRUE
        /\ committed' = {} /\ answers' = << >> /\ base' = db /\ db' = db
        /\ Submit({}) /\ UNCHANGED incoming /\ incoming = << >>
    BY <1>2 DEF NextEpoch, Submit, Inv
  <2>2. WellNumbered(<< >>) /\ << >> \o << >> = << >> /\ << >> \in Seq(NumberedTxns)
    BY DEF WellNumbered
  <2>3. db \in [Keys -> Values] /\ dead \subseteq Servers /\ killed \in BOOLEAN
    BY <2>1 DEF Inv, Working
  <2>4. Working({}, db)'
    BY <2>1, <2>3, NothingIsBound, SubmitWorks
  <2>5. Ops(<< >>) = {}
    BY DEF Ops, Range
  <2>6. ResultsMeant' /\ CacheFrom(Ops(all_txns))'
    BY <2>1, <2>5 DEF ResultsMeant, CacheFrom, Range
  <2>7. 0 \in 0 .. R /\ 0 < R
    BY EpochAssumption
  <2> QED BY <2>1, <2>2, <2>4, <2>6, <2>7 DEF Inv
<1>3. CASE UNCHANGED vars
  <2>1. /\ UNCHANGED <<db, todo, busy, slots, failed, dead, killed>>
        /\ UNCHANGED <<phase, r, incoming, all_txns, vcache, plan, results, ok, committed>>
        /\ UNCHANGED <<answers, base>>
    BY <1>3 DEF vars, exec, epoch
  <2>2. /\ Incoming' = Incoming /\ Epoch' = Epoch /\ CommittedWrites' = CommittedWrites
        /\ NewResults' = NewResults
    BY <2>1 DEF Incoming, Epoch, CommittedWrites, NewResults
  <2>3. /\ ReadBatch' = ReadBatch /\ WritePlan' = WritePlan /\ WriteBatch' = WriteBatch
        /\ AllAnswers' = AllAnswers
    BY <2>1, <2>2 DEF ReadBatch, WritePlan, WriteBatch, AllAnswers, AnswerTo, Commits, Success
  <2>4. \A bound : Working(bound, base) => Working(bound, base)'
    BY <2>1 DEF Working, WritesOf
  <2>5. ResultsMeant' /\ (CacheFrom(Epoch) => CacheFrom(Epoch)')
        /\ (CacheFrom(Ops(all_txns)) => CacheFrom(Ops(all_txns))')
    BY <2>1, <2>2 DEF Inv, ResultsMeant, Meant, CacheFrom
  <2>6. ReadsPlanned => ReadsPlanned'
    BY <2>1, <2>2 DEF ReadsPlanned, PlannedAs, Meant
  <2> QED BY <2>1, <2>2, <2>3, <2>4, <2>5, <2>6 DEF Inv
<1>4. CASE \E s \in Servers : Dispatch(s)
  BY <1>4, DispatchInv
<1> QED BY <1>1, <1>2, <1>3, <1>4, CollectInv, DedupReadsInv, AbsorbInv, DedupWritesInv,
           AssembleResultsInv DEF Next, Main

\* The ORAMs are loaded, and no transaction has arrived.
LEMMA InitInv == Init => Inv
<1> SUFFICES ASSUME Init PROVE Inv
  OBVIOUS
<1>1. WellNumbered(<< >>) /\ << >> \o << >> = << >> /\ << >> \in Seq(NumberedTxns)
  BY DEF WellNumbered
<1>2. << >> \in [{op.goid : op \in {}} -> Results]
  <2>1. {op.goid : op \in {}} = {} /\ << >> = [g \in {} |-> None]
    OBVIOUS
  <2> QED BY <2>1
<1>3. Working({}, base)
  BY <1>2, EpochAssumption DEF Init, ExecutorInit, Working
<1>4. Ops(<< >>) = {}
  BY DEF Ops, Range
<1>5. ResultsMeant /\ CacheFrom(Ops(all_txns))
  BY <1>4 DEF Init, ResultsMeant, CacheFrom, Range
<1>6. 0 \in 0 .. R /\ 0 < R
  BY EpochAssumption
<1> QED BY <1>1, <1>3, <1>5, <1>6 DEF Init, Inv

\* In every state of every epoch, for any number of sub-epochs: the version cache and the
\* results hold what was in the ORAMs when the epoch began or what its writes wrote, and the
\* executor has run a part of the batch in progress.
THEOREM EpochInvariant == Spec => []Inv
BY InitInv, NextInv, PTL DEF Spec

------------------------------------------------------------------------------
(* What it is for. *)

\* The state of the epochs keeps its type.
THEOREM TypeCorrect == Spec => []TypeOK
<1>1. Inv => TypeOK
  <2> SUFFICES ASSUME Inv PROVE TypeOK
    OBVIOUS
  <2>1. \E bound : IsBound(bound) /\ Working(bound, base)
    <3>1. CASE phase = "read"
      BY <3>1, ReadBatchIs DEF Inv
    <3>2. CASE phase \in {"write", "answered"}
      BY <3>2, AllNumbered, WriteBatchIs DEF Inv
    <3>3. CASE phase \notin {"read", "write", "answered"}
      BY <3>3, NothingIsBound DEF Inv
    <3> QED BY <3>1, <3>2, <3>3
  <2>2. ExecutorTypeOK /\ base \in [Keys -> Values]
    BY <2>1, WorkingType DEF Working
  <2>3. DOMAIN vcache \subseteq Keys /\ Range(vcache) \subseteq Results
    <3>1. \A k \in DOMAIN vcache : k \in Keys /\ vcache[k] \in Values
      BY DEF Inv, CacheFrom
    <3> QED BY <3>1 DEF Range, Results
  <2>4. Range(results) \subseteq Results
    BY DEF Inv, ResultsMeant
  <2>5. committed \subseteq Timestamps(all_txns) /\ DOMAIN answers \subseteq Timestamps(all_txns)
    BY DEF Inv, AllAnswers, Committed, Complete, Timestamps
  <2> QED BY <2>2, <2>3, <2>4, <2>5 DEF Inv, TypeOK
<1> QED BY <1>1, EpochInvariant, PTL

\* What the clients of an answered epoch are told.
LEMMA AnsweredAre ==
  ASSUME Inv, phase = "answered"
  PROVE  /\ WellNumbered(all_txns) /\ Numbered(Ops(all_txns)) /\ Numbered(CommittedOps)
         /\ Answered # {} => ok /\ Success
         /\ ok /\ Success => Answered = {t \in Range(all_txns) : t.ts \in committed}
         /\ CommittedOps = {op \in Ops(all_txns) : \E t \in Answered : t.ts = op.ts}
         /\ \A t \in Answered : \A j \in DOMAIN t.operations :
              /\ t.operations[j] \in CommittedOps /\ t.operations[j].ts = t.ts
              /\ answers[t.ts].per_op_result[j] =
                   IF t.operations[j].goid \in DOMAIN results
                   THEN results[t.operations[j].goid] ELSE None
<1>1. /\ WellNumbered(all_txns) /\ Numbered(Ops(all_txns)) /\ results = NewResults
      /\ answers = [ts \in Timestamps(all_txns) |->
                      AnswerTo(CHOOSE t \in Range(all_txns) : t.ts = ts)]
  BY AllNumbered DEF Inv, AllAnswers
<1>2. ASSUME NEW t \in Range(all_txns)
      PROVE  t.ts \in DOMAIN answers /\ answers[t.ts] = AnswerTo(t)
  <2>1. (CHOOSE u \in Range(all_txns) : u.ts = t.ts) = t
    BY <1>1, EpochTransactions
  <2> QED BY <1>1, <2>1 DEF Timestamps
<1>3. \A t \in Range(all_txns) : AnswerTo(t).committed <=> t.ts \in committed /\ ok /\ Success
  BY DEF AnswerTo, Commits, Abort
<1>4. Answered = {t \in Range(all_txns) : t.ts \in committed /\ ok /\ Success}
  BY <1>2, <1>3 DEF Answered
<1>5. \A t, u \in Range(all_txns) : t.ts = u.ts => t = u
  BY <1>1, EpochTransactions
<1>6. \A t \in Range(all_txns) : \A op \in OpsOf(t) : op.ts = t.ts
  BY <1>1, EpochTransactions
<1>7. CommittedOps = {op \in Ops(all_txns) : \E t \in Answered : t.ts = op.ts}
  BY <1>4, <1>5, <1>6 DEF CommittedOps, Ops
<1>8. ASSUME NEW t \in Answered, NEW j \in DOMAIN t.operations
      PROVE  /\ t.operations[j] \in CommittedOps /\ t.operations[j].ts = t.ts
             /\ answers[t.ts].per_op_result[j] =
                  IF t.operations[j].goid \in DOMAIN results
                  THEN results[t.operations[j].goid] ELSE None
  <2>1. t.operations[j] \in OpsOf(t) /\ t \in Range(all_txns) /\ Commits(t)
    BY <1>4 DEF OpsOf, Range, Commits
  <2>2. AnswerTo(t).per_op_result =
          [i \in DOMAIN t.operations |->
             LET g == t.operations[i].goid IN
             IF g \in DOMAIN NewResults THEN NewResults[g] ELSE None]
    BY <2>1 DEF AnswerTo
  <2>3. answers[t.ts].per_op_result[j] =
          IF t.operations[j].goid \in DOMAIN results
          THEN results[t.operations[j].goid] ELSE None
    BY <1>1, <1>2, <2>1, <2>2
  <2> QED BY <1>6, <2>1, <2>3 DEF CommittedOps
<1>9. CommittedOps \in SUBSET Ops(all_txns)
  BY <1>7
<1> QED BY <1>1, <1>4, <1>7, <1>8, <1>9, SubsetIsNumbered

\* A committed read whose record no earlier transaction wrote is answered as in a serial
\* execution.
THEOREM EpochCleanReads == Spec => []CleanReads
<1>1. Inv => CleanReads
  <2> SUFFICES ASSUME Inv, phase = "answered", NEW t \in Answered, NEW j \in DOMAIN t.operations,
                      NEW op, op = t.operations[j], IsRead(op),
                      \A w \in Ops(all_txns) : IsWrite(w) /\ w.key = op.key => w.ts >= op.ts
               PROVE  answers[t.ts].per_op_result[j] = ValueBefore(op, CommittedOps, base)
    BY DEF CleanReads
  <2> DEFINE ops == Ops(all_txns)
  <2>1. /\ Numbered(ops) /\ Numbered(CommittedOps) /\ ok /\ Success
        /\ CommittedOps = {o \in ops : \E u \in Answered : u.ts = o.ts}
        /\ op \in CommittedOps /\ op.ts = t.ts
        /\ answers[t.ts].per_op_result[j] =
             IF op.goid \in DOMAIN results THEN results[op.goid] ELSE None
    BY AnsweredAre
  <2>2. op \in ops
    BY <2>1
  <2>3. op.goid \in DOMAIN results /\ Meant(op, ops, results[op.goid])
    BY <2>1, <2>2 DEF Inv, ResultsMeant
  <2>4. Clean(op, ops)
    BY DEF Clean, WritesOf
  <2>5. results[op.goid] = ValueBefore(op, ops, base)
    BY <2>3, <2>4 DEF Meant
  <2>6. WritesBefore(op, ops) = WritesBefore(op, CommittedOps)
    <3>1. ASSUME NEW w \in WritesBefore(op, ops) PROVE w \in CommittedOps
      <4>1. w \in ops /\ IsWrite(w) /\ w.key = op.key /\ w.goid < op.goid
        BY DEF WritesBefore, SameChain
      <4>2. w.ts >= op.ts
        BY <4>1
      <4>3. /\ w.ts \in Nat /\ op.ts \in Nat /\ w.goid \in Nat /\ op.goid \in Nat
            /\ (op.ts < w.ts => op.goid < w.goid)
        BY <2>1, <2>2, <4>1 DEF Numbered, NumberedOps
      <4>4. w.ts = op.ts
        BY <4>1, <4>2, <4>3
      <4> QED BY <2>1, <4>1, <4>4
    <3>2. CommittedOps \subseteq ops
      BY <2>1
    <3> QED BY <3>1, <3>2 DEF WritesBefore
  <2>7. ValueBefore(op, ops, base) = ValueBefore(op, CommittedOps, base)
    BY <2>1, <2>2, <2>6, ValueBeforeIs
  <2> QED BY <2>1, <2>3, <2>5, <2>7
<1> QED BY <1>1, EpochInvariant, PTL

\* After an epoch that succeeded the ORAMs hold what the committed transactions leave in
\* timestamp order.
THEOREM EpochWritesSerialize == Spec => []WritesSerialize
<1>1. Inv => WritesSerialize
  <2> SUFFICES ASSUME Inv, phase = "answered", ok, Success, NEW k \in Keys
               PROVE  db[k] = FinalValue(k, CommittedOps, base)
    BY DEF WritesSerialize
  <2>1. /\ Numbered(Ops(all_txns)) /\ Numbered(CommittedOps)
        /\ CommittedOps = {op \in Ops(all_txns) : \E t \in Answered : t.ts = op.ts}
        /\ Answered = {t \in Range(all_txns) : t.ts \in committed}
    BY AnsweredAre
  <2>2. \A op \in Ops(all_txns) : op.ts \in committed => \E t \in Answered : t.ts = op.ts
    <3>1. \A op \in Ops(all_txns) : \E t \in Range(all_txns) : op.ts = t.ts
      BY AnsweredAre, EpochTransactions DEF Ops
    <3> QED BY <2>1, <3>1
  <2>3. WritesOf(k, CommittedOps) = WritesOf(k, CommittedWrites)
    BY <2>1, <2>2 DEF WritesOf, CommittedWrites
  <2>4. /\ Working(WriteBatch, base) /\ busy = {}
        /\ WriteBatch = {op \in CommittedWrites : op = Latest(WritesOf(op.key, CommittedWrites))}
        /\ Numbered(CommittedWrites)
    BY <2>1, WriteBatchIs DEF Inv
  <2>5. FinalValue(k, CommittedOps, base) =
          IF WritesOf(k, CommittedWrites) = {} THEN base[k]
          ELSE Latest(WritesOf(k, CommittedWrites)).val
    BY <2>1, <2>3, FinalValueIs
  <2>6. CASE WritesOf(k, CommittedWrites) = {}
    <3>1. WritesOf(k, WriteBatch) = {}
      BY <2>4, <2>6 DEF WritesOf
    <3>2. db[k] = base[k]
      BY <2>4, <3>1 DEF Working
    <3> QED BY <2>5, <2>6, <3>2
  <2>7. CASE WritesOf(k, CommittedWrites) # {}
    <3>1. PICK last : last = Latest(WritesOf(k, CommittedWrites))
      OBVIOUS
    <3>2. last \in WritesOf(k, CommittedWrites)
      <4>1. Numbered(WritesOf(k, CommittedWrites))
        BY <2>4, SubsetIsNumbered DEF WritesOf
      <4> QED BY <2>7, <3>1, <4>1, FirstAndLatest
    <3>3. last \in CommittedWrites /\ IsWrite(last) /\ last.key = k
      BY <3>2 DEF WritesOf
    <3>4. last \in WriteBatch
      BY <2>4, <3>1, <3>3
    <3>5. db[k] = last.val
      BY <2>4, <3>3, <3>4, WorkingDone
    <3> QED BY <2>5, <2>7, <3>1, <3>5
  <2> QED BY <2>6, <2>7
<1> QED BY <1>1, EpochInvariant, PTL

\* A read of a committed transaction is answered with a content, and a write with none:
\* over all sub-epochs, the version cache and coalescing, no read is left out.
THEOREM EpochNoEmptyRead == Spec => []NoEmptyRead
<1>1. Inv => NoEmptyRead
  <2> SUFFICES ASSUME Inv, phase = "answered", NEW t \in Answered, NEW j \in DOMAIN t.operations
               PROVE  IsRead(t.operations[j]) <=> answers[t.ts].per_op_result[j] # None
    BY DEF NoEmptyRead
  <2>1. PICK op : op = t.operations[j]
    OBVIOUS
  <2>2. /\ Numbered(Ops(all_txns)) /\ ok /\ Success
        /\ op \in CommittedOps /\ op.ts = t.ts /\ t.ts \in committed
        /\ CommittedOps = {o \in Ops(all_txns) : \E u \in Answered : u.ts = o.ts}
        /\ answers[t.ts].per_op_result[j] =
             IF op.goid \in DOMAIN results THEN results[op.goid] ELSE None
    BY <2>1, AnsweredAre
  <2>3. op \in Ops(all_txns) /\ op \in NumberedOps
    BY <2>2 DEF Numbered
  <2>4. CASE IsRead(op)
    <3>1. op.goid \in DOMAIN results /\ results[op.goid] \in Values
      BY <2>2, <2>3, <2>4 DEF Inv, ResultsMeant, Meant
    <3> QED BY <2>1, <2>2, <2>4, <3>1, ResultsAssumption
  <2>5. CASE IsWrite(op)
    <3>1. op \in CommittedWrites
      BY <2>2, <2>3, <2>5 DEF CommittedWrites
    <3>2. results = NewResults /\ busy = {}
      BY DEF Inv
    <3>3. op.goid \in DOMAIN results => results[op.goid] = None
      BY <2>2, <3>1, <3>2, AnswersKeepResults
    <3>4. ~ IsRead(op)
      BY <2>3, <2>5, ReadOrWrite
    <3> QED BY <2>1, <2>2, <3>3, <3>4
  <2> QED BY <2>3, <2>4, <2>5, ReadOrWrite
<1> QED BY <1>1, EpochInvariant, PTL
==============================================================================

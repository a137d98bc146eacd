------------------------- MODULE SingleBatchEpochProofs -------------------------
(***************************************************************************)
(* The single-batch epoch, for every set of servers, keys, contents and    *)
(* transactions, and every number of them: type correctness, and the three *)
(* safety invariants.  Then the intake, for every set of transactions and  *)
(* every number of sub-epochs: type correctness, and the two safety        *)
(* invariants.                                                             *)
(***************************************************************************)
EXTENDS SingleBatchEpoch, Intake, ExecutorProofs

\* The operations of the call in progress.
Bound == BoundOps(Survivors(txns), DedupPlan(Survivors(txns)))

\* What the answers are computed from.
AllAnswers == [ts \in Timestamps(txns) |-> AnswerTo(CHOOSE t \in Range(txns) : t.ts = ts)]

\* The inductive invariant: the transactions are numbered; up to Dedup nothing runs; from
\* then on the plan is Dedup's of the survivors, the executor works on the operations it
\* sends, and the answers are made when no worker is left.
Inv ==
  /\ phase \in {"collect", "assign", "dedup", "execute", "answered"}
  /\ WellNumbered(txns)
  /\ phase = "collect" => txns = << >> /\ committed = {}
  /\ phase = "assign" => committed = Timestamps(txns)
  /\ phase \in {"dedup", "execute", "answered"} => committed = Committed(txns)
  /\ phase \in {"collect", "assign", "dedup"} => plan = << >> /\ Working({}, base)
  /\ phase \in {"execute", "answered"} =>
       plan = DedupPlan(Survivors(txns)) /\ Working(Bound, base)
  /\ phase # "answered" => answers = << >>
  /\ phase = "answered" => busy = {} /\ answers = AllAnswers

------------------------------------------------------------------------------

\* No operations are a bound set.
LEMMA NothingIsBound == IsBound({})
BY DEF IsBound

\* The ORAMs are loaded, and no transaction has arrived.
LEMMA InitInv == Init => Inv
<1> SUFFICES ASSUME Init PROVE Inv
  OBVIOUS
<1>1. WellNumbered(<< >>)
  BY DEF WellNumbered
<1>2. Working({}, base)
  <2>1. << >> \in [{op.goid : op \in {}} -> Results]
    <3>1. {op.goid : op \in {}} = {} /\ << >> = [g \in {} |-> None]
      OBVIOUS
    <3> QED BY <3>1
  <2> QED BY <2>1, LoadedAssumption DEF Init, ExecutorInit, Working
<1> QED BY <1>1, <1>2 DEF Init, Inv

\* A step of an epoch keeps the invariant.
LEMMA NextInv == Inv /\ [Next]_vars => Inv'
<1> SUFFICES ASSUME Inv, [Next]_vars PROVE Inv'
  OBVIOUS
<1> USE DEF Inv
<1>1. CASE CollectEpoch
  <2>0. PICK n \in 0 .. MaxTxns : \E batch \in [1 .. n -> Catalogue] : txns' = AssignIds(batch, 0, 0)
    BY <1>1 DEF CollectEpoch
  <2>1. PICK batch \in [1 .. n -> Catalogue] : txns' = AssignIds(batch, 0, 0)
    BY <2>0
  <2>2. batch \in Seq(Catalogue) /\ \A i \in DOMAIN batch : IsSubmission(batch[i])
    BY MaxTxnsAssumption, CatalogueAssumption
  <2>3. WellNumbered(txns')
    BY <2>1, <2>2, AssignIdsNumbers
  <2>4. Working({}, base)'
    BY <1>1 DEF CollectEpoch, Working, exec, WritesOf
  <2> QED BY <1>1, <2>3, <2>4 DEF CollectEpoch
<1>2. CASE AssignAbort
  <2>1. Working({}, base)'
    BY <1>2 DEF AssignAbort, Working, exec, WritesOf
  <2> QED BY <1>2, <2>1 DEF AssignAbort
<1>3. CASE Dedup
  <2>1. phase = "dedup" /\ phase' = "execute" /\ UNCHANGED <<txns, committed, answers, base>>
        /\ plan' = DedupPlan(Survivors(txns))
    BY <1>3 DEF Dedup, DedupPlan
  <2>2. Submit(Bound)
    BY <1>3, <2>1 DEF Dedup, Bound
  <2>3. Numbered(Survivors(txns))
    BY SurvivorsAreCommitted
  <2>4. IsBound(Bound)
    BY <2>3, DedupIsBound DEF Bound
  <2>5. Working({}, base) /\ db = base
    <3>1. Working({}, base)
      BY <2>1
    <3>2. \A k \in Keys : db[k] = base[k]
      BY <3>1 DEF Working, WritesOf
    <3> QED BY <3>1, <3>2 DEF Working
  <2>6. PICK bound : bound = Bound
    OBVIOUS
  <2>7. Working(bound, db)'
    <3>1. IsBound(bound) /\ Submit(bound)
      BY <2>2, <2>4, <2>6
    <3>2. db \in [Keys -> Values] /\ dead \subseteq Servers /\ killed \in BOOLEAN
      BY <2>5 DEF Working
    <3> QED BY <3>1, <3>2, SubmitWorks
  <2>8. Bound' = bound /\ db' = base'
    BY <2>1, <2>2, <2>5, <2>6 DEF Bound, Submit
  <2>9. Working(Bound, base)'
    BY <2>7, <2>8
  <2> QED BY <2>1, <2>9
<1>4. ASSUME NEW s \in Servers, Dispatch(s) PROVE Inv'
  <2>1. phase = "execute" /\ Work(s) /\ UNCHANGED <<phase, txns, committed, plan, answers, base>>
    BY <1>4 DEF Dispatch
  <2>2. PICK bound, b : bound = Bound /\ b = base
    OBVIOUS
  <2>3. IsBound(bound) /\ Working(bound, b)
    BY <2>1, <2>2, SurvivorsAreCommitted, DedupIsBound DEF Bound
  <2>4. Working(bound, b)'
    BY <2>1, <2>3, WorkWorks
  <2>5. Bound' = bound /\ base' = b
    BY <2>1, <2>2 DEF Bound
  <2>6. Working(Bound, base)'
    BY <2>4, <2>5
  <2> QED BY <2>1, <2>6
<1>5. CASE AssembleResults
  <2>1. /\ phase = "execute" /\ phase' = "answered" /\ busy' = {}
        /\ UNCHANGED <<db, todo, busy, slots, failed, dead, killed, txns, committed, plan, base>>
        /\ answers' = AllAnswers
    BY <1>5 DEF AssembleResults, Joined, AllAnswers, exec
  <2>2. AllAnswers' = AllAnswers
    BY <2>1 DEF AllAnswers, AnswerTo, Commits, Success
  <2>3. Working(Bound, base)'
    BY <2>1 DEF Working, Bound, WritesOf
  <2> QED BY <2>1, <2>2, <2>3
<1>6. CASE Deliver
  <2>1. /\ phase = "answered" /\ phase' = "collect" /\ base' = db /\ db' = db
        /\ txns' = << >> /\ committed' = {} /\ plan' = << >> /\ answers' = << >>
    BY <1>6 DEF Deliver, Submit
  <2>2. WellNumbered(<< >>)
    BY DEF WellNumbered
  <2>3. db \in [Keys -> Values] /\ dead \subseteq Servers /\ killed \in BOOLEAN
    BY <2>1 DEF Working
  <2>4. Working({}, db)'
    BY <1>6, <2>3, NothingIsBound, SubmitWorks DEF Deliver
  <2>5. Working({}, base)'
    BY <2>1, <2>4
  <2> QED BY <2>1, <2>2, <2>5
<1>7. CASE UNCHANGED vars
  <2>1. UNCHANGED <<db, todo, busy, slots, failed, dead, killed>>
        /\ UNCHANGED <<phase, txns, committed, plan, answers, base>>
    BY <1>7 DEF vars, exec
  <2>2. AllAnswers' = AllAnswers
    BY <2>1 DEF AllAnswers, AnswerTo, Commits, Success
  <2>3. (Working(Bound, base) => Working(Bound, base)') /\ (Working({}, base) => Working({}, base)')
    BY <2>1 DEF Working, Bound, WritesOf
  <2> QED BY <2>1, <2>2, <2>3
<1> QED BY <1>1, <1>2, <1>3, <1>4, <1>5, <1>6, <1>7 DEF Next, Main

\* In every state of every epoch, whatever children exit: AssignAbort and Dedup have made
\* of the collected transactions what the plan says, and the executor has run a part of
\* that plan, the reads of a server before its writes.
THEOREM EpochInvariant == Spec => []Inv
<1>1. Init => Inv
  BY InitInv
<1>2. Inv /\ [Next]_vars => Inv'
  BY NextInv
<1> QED BY <1>1, <1>2, PTL DEF Spec

\* The state of the epochs keeps its type.
THEOREM TypeCorrect == Spec => []TypeOK
<1>1. Inv => TypeOK
  <2> SUFFICES ASSUME Inv PROVE TypeOK
    OBVIOUS
  <2>1. WellNumbered(txns) /\ base \in [Keys -> Values]
    BY DEF Inv, Working
  <2>2. Numbered(Survivors(txns))
    BY <2>1, SurvivorsAreCommitted
  <2>3. ExecutorTypeOK
    BY <2>2, NothingIsBound, DedupIsBound, WorkingType DEF Inv, Bound
  <2>4. Range(txns) \subseteq
          [ts : Nat, last_one : BOOLEAN, operations : {t.operations : t \in Range(txns)}]
    BY <2>1, EpochTransactions DEF NumberedTxns
  <2>5. committed \subseteq Timestamps(txns)
    BY DEF Inv, Committed, Complete, Timestamps
  <2>6. Range(plan) \subseteq
          [kind : {"TO_ORAM", "BUFFERED_FROM_WRITE", "COALESCED_READ", "DROPPED"},
           slot : Int, val : Results]
    <3>1. CASE plan = << >>
      BY <3>1 DEF Range
    <3>2. CASE plan = DedupPlan(Survivors(txns))
      <4>1. \A d \in Range(plan) : \E op \in Survivors(txns) : d = Decision(op, Survivors(txns))
        BY <2>2, <3>2, DedupPlanEach DEF Range
      <4> QED BY <2>2, <4>1, DecisionType
    <3> QED BY <3>1, <3>2 DEF Inv
  <2>7. DOMAIN answers \subseteq Timestamps(txns)
    BY DEF Inv, AllAnswers
  <2> QED BY <2>1, <2>3, <2>4, <2>5, <2>6, <2>7 DEF Inv, TypeOK
<1> QED BY <1>1, EpochInvariant, PTL

\* What the clients of an answered epoch are told committed.
LEMMA AnsweredOps ==
  ASSUME Inv, phase = "answered"
  PROVE  /\ \A t \in Range(txns) : t.ts \in DOMAIN answers /\ answers[t.ts] = AnswerTo(t)
         /\ CommittedOps = IF Success THEN Survivors(txns) ELSE {}
<1>1. WellNumbered(txns) /\ committed = Committed(txns)
      /\ answers = [ts \in Timestamps(txns) |-> AnswerTo(CHOOSE t \in Range(txns) : t.ts = ts)]
  BY DEF Inv, AllAnswers
<1>2. ASSUME NEW t \in Range(txns) PROVE t.ts \in DOMAIN answers /\ answers[t.ts] = AnswerTo(t)
  <2>1. (CHOOSE u \in Range(txns) : u.ts = t.ts) = t
    BY <1>1, EpochTransactions
  <2> QED BY <1>1, <2>1 DEF Timestamps
<1>3. \A t \in Range(txns) : AnswerTo(t).committed <=> t.ts \in committed /\ Success
  BY DEF AnswerTo, Commits, Abort
<1>4. \A ts \in DOMAIN answers : \E t \in Range(txns) : ts = t.ts
  BY <1>1 DEF Timestamps
<1>5. \A ts : ts \in DOMAIN answers /\ answers[ts].committed <=> ts \in committed /\ Success
  <2>1. \A ts \in committed : \E t \in Range(txns) : ts = t.ts
    BY <1>1 DEF Committed, Complete
  <2> QED BY <1>2, <1>3, <1>4, <2>1
<1>6. CommittedOps = {op \in Ops(txns) : op.ts \in committed /\ Success}
  BY <1>5 DEF CommittedOps
<1>7. Survivors(txns) = {op \in Ops(txns) : op.ts \in committed}
  BY <1>1, SurvivorsAreCommitted
<1>8. CommittedOps = IF Success THEN Survivors(txns) ELSE {}
  BY <1>6, <1>7
<1> QED BY <1>2, <1>8

\* When every server did its part, what assembleResults answers, and what the ORAMs hold,
\* is what a serial execution of the committed transactions in timestamp order gives:
\* buffered and coalesced reads and the dropped writes included.
THEOREM EpochSerializable == Spec => []Serializable
<1>1. Inv => Serializable
  <2> SUFFICES ASSUME Inv, phase = "answered", Success PROVE Serializable
    BY DEF Serializable
  <2> DEFINE ops == Survivors(txns)
  <2>1. WellNumbered(txns) /\ plan = DedupPlan(ops) /\ Working(Bound, base) /\ busy = {}
        /\ committed = Committed(txns)
    BY DEF Inv
  <2>2. Numbered(ops) /\ ops = {op \in Ops(txns) : op.ts \in Committed(txns)}
    BY <2>1, SurvivorsAreCommitted
  <2>3. /\ \A op \in ops : Resolve(Decision(op, ops), slots) =
                             IF IsRead(op) THEN ValueBefore(op, ops, base) ELSE None
        /\ \A k \in Keys : db[k] = FinalValue(k, ops, base)
    BY <2>1, <2>2, DedupIsSerial DEF Bound
  <2>4. /\ \A t \in Range(txns) : answers[t.ts] = AnswerTo(t)
        /\ CommittedOps = ops
    BY AnsweredOps
  <2>5. ASSUME NEW t \in Range(txns), answers[t.ts].committed, NEW j \in DOMAIN t.operations
        PROVE  answers[t.ts].per_op_result[j] =
                 IF IsRead(t.operations[j]) THEN ValueBefore(t.operations[j], ops, base) ELSE None
    <3> PICK op : op = t.operations[j]
      OBVIOUS
    <3>0. Commits(t)
      <4>1. AnswerTo(t).committed <=> Commits(t)
        BY DEF AnswerTo, Abort
      <4> QED BY <2>4, <2>5, <4>1
    <3>1. t.ts \in committed
      BY <3>0 DEF Commits
    <3>2. op \in OpsOf(t) /\ op.ts = t.ts
      <4>1. op \in OpsOf(t)
        BY DEF OpsOf, Range
      <4> QED BY <2>1, <4>1, EpochTransactions
    <3>3. op \in ops
      BY <2>1, <2>2, <3>1, <3>2 DEF Ops
    <3>4. op.goid \in DOMAIN plan /\ plan[op.goid] = Decision(op, ops)
      <4> HIDE DEF ops
      <4>1. /\ DOMAIN DedupPlan(ops) = {o.goid : o \in ops}
            /\ \A o \in ops : DedupPlan(ops)[o.goid] = Decision(o, ops)
        BY <2>2, DedupPlanEach
      <4> QED BY <2>1, <3>3, <4>1
    <3>5. answers[t.ts].per_op_result[j] = Resolve(plan[op.goid], slots)
      <4>1. AnswerTo(t).per_op_result =
              [i \in DOMAIN t.operations |->
                 IF t.operations[i].goid \notin DOMAIN plan THEN None
                 ELSE Resolve(plan[t.operations[i].goid], slots)]
        BY <3>0 DEF AnswerTo
      <4> QED BY <2>4, <3>4, <4>1
    <3> QED BY <2>3, <3>3, <3>4, <3>5
  <2> QED BY <2>3, <2>4, <2>5 DEF Serializable
<1> QED BY <1>1, EpochInvariant, PTL

\* When every server did its part, a write of a transaction whose client is told COMMIT is
\* in the ORAM, or a later committed write of the same record is: Dedup drops no other.
THEOREM EpochCommitsAreWhole == Spec => []CommitsAreWhole
<1>1. Inv => CommitsAreWhole
  <2> SUFFICES ASSUME Inv, phase = "answered", NEW op \in CommittedOps, IsWrite(op)
               PROVE  \E w \in CommittedOps :
                        w.key = op.key /\ w.goid >= op.goid /\ db[op.key] = w.val
    BY DEF CommitsAreWhole
  <2> DEFINE ops == Survivors(txns)
  <2>1. Success /\ CommittedOps = ops
    BY AnsweredOps
  <2>2. Numbered(ops) /\ Working(Bound, base) /\ busy = {}
    BY SurvivorsAreCommitted DEF Inv
  <2>3. op \in NumberedOps /\ op \in WritesOf(op.key, ops) /\ Numbered(WritesOf(op.key, ops))
    <3>1. op \in WritesOf(op.key, ops)
      BY <2>1 DEF WritesOf
    <3>2. WritesOf(op.key, ops) \in SUBSET ops
      BY DEF WritesOf
    <3> QED BY <2>1, <2>2, <3>1, <3>2, SubsetIsNumbered DEF Numbered
  <2>4. PICK w : w = Latest(WritesOf(op.key, ops))
    OBVIOUS
  <2>5. w \in WritesOf(op.key, ops) /\ op.goid <= w.goid
    BY <2>3, <2>4, FirstAndLatest
  <2>6. w \in ops /\ w.key = op.key /\ w.goid \in Nat /\ op.goid \in Nat
    BY <2>2, <2>3, <2>5, ReadOrWrite DEF WritesOf, Numbered
  <2>7. db[op.key] = w.val
    <3>1. op.key \in Keys
      BY <2>3, ReadOrWrite
    <3>2. db[op.key] = FinalValue(op.key, ops, base)
      BY <2>1, <2>2, <3>1, DedupIsSerial DEF Bound
    <3> QED BY <2>2, <2>3, <2>4, <3>2, FinalValueIs
  <2>8. w.goid >= op.goid
    BY <2>5, <2>6
  <2> QED BY <2>1, <2>6, <2>7, <2>8
<1> QED BY <1>1, EpochInvariant, PTL

\* Whenever a child exits or the proxy is killed, a record has the content it had before the
\* epoch or the one that the whole epoch leaves, never that of a write that Dedup dropped.
THEOREM EpochOldOrFinal == Spec => []OldOrFinal
<1>1. Inv => OldOrFinal
  <2> SUFFICES ASSUME Inv, phase \in {"execute", "answered"}
               PROVE  \A k \in Keys : db[k] \in
                        {base[k], FinalValue(k, {op \in Ops(txns) : op.ts \in committed}, base)}
    BY DEF OldOrFinal
  <2>1. /\ Survivors(txns) = {op \in Ops(txns) : op.ts \in committed}
        /\ Numbered(Survivors(txns)) /\ Working(Bound, base)
    BY SurvivorsAreCommitted DEF Inv
  <2> QED BY <2>1, DedupOldOrFinal DEF Bound
<1> QED BY <1>1, EpochInvariant, PTL

------------------------------------------------------------------------------
(* The intake: how the transactions that an epoch collects were pushed. *)

\* In the order s, t comes before u.
Earlier(s, t, u) == \A a, b \in DOMAIN s : s[a] = t /\ s[b] = u => a < b

\* A transaction with its timestamp.
Entries == [txn : Txns, ts : Nat]

\* The transactions of the epoch, and after them those of the queue, are in the order in
\* which they were pushed; the epoch counts them; and an earlier epoch has none of them.
InOrder ==
  /\ \A i, j \in DOMAIN queue : i < j => Earlier(pushed, queue[i], queue[j])
  /\ \A i, j \in DOMAIN all_txns : i < j => Earlier(pushed, all_txns[i].txn, all_txns[j].txn)
  /\ \A i \in DOMAIN all_txns, j \in DOMAIN queue : Earlier(pushed, all_txns[i].txn, queue[j])

Counted ==
  /\ next_ts = Len(all_txns)
  /\ \A i \in DOMAIN all_txns : all_txns[i].ts = i - 1
  /\ pc \in {"idle", "cleared"} => all_txns = << >>

PushedOnce ==
  /\ \A a, b \in DOMAIN pushed : pushed[a] = pushed[b] => a = b
  /\ fenced \cap Range(pushed) = {}
  /\ Range(queue) \cup Taken \cup done \subseteq Range(pushed)
  /\ done \cap (Range(queue) \cup Taken) = {}

\* The inductive invariant.
IntakeInv == IntakeTypeOK /\ InOrder /\ Counted /\ PushedOnce

------------------------------------------------------------------------------

\* The elements of a sequence with one more.
LEMMA Appended ==
  ASSUME NEW X, NEW s \in Seq(X), NEW x \in X
  PROVE  /\ Append(s, x) \in Seq(X) /\ Len(s) \in Nat /\ DOMAIN s = 1 .. Len(s)
         /\ DOMAIN Append(s, x) = 1 .. Len(s) + 1
         /\ \A i \in 1 .. Len(s) : Append(s, x)[i] = s[i]
         /\ Append(s, x)[Len(s) + 1] = x
         /\ Range(Append(s, x)) = Range(s) \cup {x}
<1>1. /\ Append(s, x) \in Seq(X) /\ Len(s) \in Nat /\ DOMAIN s = 1 .. Len(s)
      /\ DOMAIN Append(s, x) = 1 .. Len(s) + 1
      /\ \A i \in 1 .. Len(s) : Append(s, x)[i] = s[i]
      /\ Append(s, x)[Len(s) + 1] = x
  OBVIOUS
<1>2. 1 .. Len(s) + 1 = 1 .. Len(s) \cup {Len(s) + 1}
  BY <1>1
<1>3. Range(Append(s, x)) = Range(s) \cup {x}
  BY <1>1, <1>2 DEF Range
<1> QED BY <1>1, <1>3

\* Nothing comes before itself.
LEMMA NotEarlier ==
  ASSUME NEW X, NEW s \in Seq(X), NEW t \in Range(s)
  PROVE  ~ Earlier(s, t, t)
<1>1. PICK a \in DOMAIN s : s[a] = t
  BY DEF Range
<1>2. a \in Nat
  OBVIOUS
<1> QED BY <1>1, <1>2 DEF Earlier

\* What is put at the end comes after what was there, and changes nothing among that.
LEMMA EarlierAppended ==
  ASSUME NEW X, NEW s \in Seq(X), NEW x \in X, x \notin Range(s), NEW u \in Range(s)
  PROVE  /\ Earlier(Append(s, x), u, x)
         /\ \A v \in Range(s) : Earlier(s, u, v) => Earlier(Append(s, x), u, v)
<1> DEFINE s1 == Append(s, x)
           n == Len(s)
<1>1. /\ n \in Nat /\ DOMAIN s = 1 .. n /\ DOMAIN s1 = 1 .. n + 1
      /\ \A i \in 1 .. n : s1[i] = s[i]
      /\ s1[n + 1] = x
  BY Appended
<1>2. \A i \in 1 .. n : s[i] # x
  BY <1>1 DEF Range
<1> HIDE DEF s1, n
<1>3. \A i \in 1 .. n + 1 : i \in 1 .. n \/ i = n + 1
  BY <1>1
<1>4. Earlier(s1, u, x)
  <2> SUFFICES ASSUME NEW a \in 1 .. n + 1, NEW b \in 1 .. n + 1, s1[a] = u, s1[b] = x
               PROVE  a < b
    BY <1>1 DEF Earlier
  <2>1. a # n + 1
    BY <1>1
  <2>2. b = n + 1
    BY <1>1, <1>2, <1>3
  <2> QED BY <1>1, <2>1, <2>2
<1>5. ASSUME NEW v \in Range(s), Earlier(s, u, v) PROVE Earlier(s1, u, v)
  <2> SUFFICES ASSUME NEW a \in 1 .. n + 1, NEW b \in 1 .. n + 1, s1[a] = u, s1[b] = v
               PROVE  a < b
    BY <1>1 DEF Earlier
  <2>1. a \in 1 .. n /\ b \in 1 .. n
    BY <1>1, <1>3
  <2> QED BY <1>1, <1>5, <2>1 DEF Earlier
<1> QED BY <1>4, <1>5 DEF s1

\* Nobody has pushed, and there is no epoch.
LEMMA IntakeInitInv == IntakeInit => IntakeInv
<1> SUFFICES ASSUME IntakeInit PROVE IntakeInv
  OBVIOUS
<1>1. IntakeTypeOK
  <2>1. 0 \in 0 .. R
    BY SubEpochsAssumption
  <2>2. << >> \in Seq(Txns) /\ << >> \in Seq(Entries)
    OBVIOUS
  <2> QED BY <2>1, <2>2 DEF IntakeInit, IntakeTypeOK, Entries
<1>2. Range(<< >>) = {} /\ DOMAIN << >> = {} /\ Len(<< >>) = 0
  BY DEF Range
<1> QED BY <1>1, <1>2 DEF IntakeInit, IntakeInv, InOrder, Counted, PushedOnce, Taken

\* What is in the queue, and in the epoch, was pushed.
LEMMA AllPushed ==
  ASSUME IntakeInv
  PROVE  /\ pushed \in Seq(Txns)
         /\ \A i \in DOMAIN queue : queue[i] \in Range(pushed) /\ i \in Nat
         /\ \A i \in DOMAIN all_txns : all_txns[i].txn \in Range(pushed) /\ i \in Nat
<1>1. pushed \in Seq(Txns) /\ queue \in Seq(Txns) /\ all_txns \in Seq(Entries)
  BY DEF IntakeInv, IntakeTypeOK, Entries
<1>2. \A i \in DOMAIN queue : queue[i] \in Range(queue) /\ i \in Nat
  BY <1>1 DEF Range
<1>3. \A i \in DOMAIN all_txns : all_txns[i].txn \in Taken /\ i \in Nat
  BY <1>1 DEF Taken, Range
<1> QED BY <1>1, <1>2, <1>3 DEF IntakeInv, PushedOnce

\* A push puts a transaction at the end of the queue, after all that were pushed before.
LEMMA PushQueueInv ==
  ASSUME IntakeInv, NEW t \in Txns, PushQueue(t)
  PROVE  IntakeInv'
<1>1. /\ t \in fenced /\ fenced' = fenced \ {t}
      /\ queue' = Append(queue, t) /\ pushed' = Append(pushed, t)
      /\ inTime' \in {inTime, inTime \cup {t}}
      /\ UNCHANGED <<accepting, pc, driver, drains, next_ts, all_txns, done>>
  BY DEF PushQueue
<1>2. queue \in Seq(Txns) /\ pushed \in Seq(Txns) /\ t \notin Range(pushed)
  BY <1>1 DEF IntakeInv, IntakeTypeOK, PushedOnce
<1> DEFINE P == Len(pushed)
           Q == Len(queue)
<1>3. /\ queue' \in Seq(Txns) /\ Q \in Nat /\ DOMAIN queue = 1 .. Q
      /\ DOMAIN queue' = 1 .. Q + 1 /\ \A i \in 1 .. Q : queue'[i] = queue[i]
      /\ queue'[Q + 1] = t /\ Range(queue') = Range(queue) \cup {t}
  BY <1>1, <1>2, Appended
<1>4. /\ pushed' \in Seq(Txns) /\ P \in Nat /\ DOMAIN pushed = 1 .. P
      /\ DOMAIN pushed' = 1 .. P + 1 /\ \A i \in 1 .. P : pushed'[i] = pushed[i]
      /\ pushed'[P + 1] = t /\ Range(pushed') = Range(pushed) \cup {t}
  BY <1>1, <1>2, Appended
<1>5. \A a \in 1 .. P : pushed[a] # t
  BY <1>2, <1>4 DEF Range
<1> HIDE DEF P, Q
<1>6. IntakeTypeOK'
  BY <1>1, <1>3, <1>4 DEF IntakeInv, IntakeTypeOK
<1>7. /\ \A u \in Range(pushed) : Earlier(pushed', u, t)
      /\ \A u, v \in Range(pushed) : Earlier(pushed, u, v) => Earlier(pushed', u, v)
  BY <1>1, <1>2, EarlierAppended
<1>8. /\ \A i \in 1 .. Q : queue[i] \in Range(pushed)
      /\ \A i \in DOMAIN all_txns : all_txns[i].txn \in Range(pushed)
  BY <1>3, AllPushed
<1>9. \A i \in 1 .. Q + 1 : i \in 1 .. Q \/ i = Q + 1
  BY <1>3
<1>10. InOrder'
  <2>1. ASSUME NEW i \in 1 .. Q + 1, NEW j \in 1 .. Q + 1, i < j
        PROVE  Earlier(pushed', queue'[i], queue'[j])
    <3>1. i \in 1 .. Q /\ queue'[i] = queue[i]
      BY <1>3, <2>1
    <3>2. CASE j \in 1 .. Q
      <4>1. Earlier(pushed, queue[i], queue[j]) /\ queue'[j] = queue[j]
        BY <1>3, <2>1, <3>1, <3>2 DEF IntakeInv, InOrder
      <4> QED BY <1>7, <1>8, <3>1, <3>2, <4>1
    <3>3. CASE j = Q + 1
      BY <1>3, <1>7, <1>8, <3>1, <3>3
    <3> QED BY <1>9, <3>2, <3>3
  <2>2. ASSUME NEW i \in DOMAIN all_txns, NEW j \in DOMAIN all_txns, i < j
        PROVE  Earlier(pushed', all_txns[i].txn, all_txns[j].txn)
    BY <1>7, <1>8, <2>2 DEF IntakeInv, InOrder
  <2>3. ASSUME NEW i \in DOMAIN all_txns, NEW j \in 1 .. Q + 1
        PROVE  Earlier(pushed', all_txns[i].txn, queue'[j])
    <3>1. CASE j \in 1 .. Q
      <4>1. Earlier(pushed, all_txns[i].txn, queue[j]) /\ queue'[j] = queue[j]
        BY <1>3, <3>1 DEF IntakeInv, InOrder
      <4> QED BY <1>7, <1>8, <3>1, <4>1
    <3>2. CASE j = Q + 1
      BY <1>3, <1>7, <1>8, <3>2
    <3> QED BY <1>9, <3>1, <3>2
  <2> QED BY <1>1, <1>3, <2>1, <2>2, <2>3 DEF InOrder
<1>11. Counted'
  BY <1>1 DEF IntakeInv, Counted
<1>12. PushedOnce'
  <2>1. Taken' = Taken
    BY <1>1 DEF Taken
  <2>2. \A a, b \in 1 .. P + 1 : pushed'[a] = pushed'[b] => a = b
    <3>1. \A a \in 1 .. P + 1 : a \in 1 .. P \/ a = P + 1
      BY <1>4
    <3> QED BY <1>4, <1>5, <3>1 DEF IntakeInv, PushedOnce
  <2>3. t \notin done
    BY <1>2 DEF IntakeInv, PushedOnce
  <2> QED BY <1>1, <1>3, <1>4, <2>1, <2>2, <2>3 DEF IntakeInv, PushedOnce
<1> QED BY <1>6, <1>10, <1>11, <1>12 DEF IntakeInv

\* Draining the queue puts its transactions after those of the epoch.
LEMMA DrainInv ==
  ASSUME IntakeInv, Drain, pc' \notin {"idle", "cleared"},
         UNCHANGED <<fenced, pushed, done>>
  PROVE  InOrder' /\ Counted' /\ PushedOnce'
         /\ queue' \in Seq(Txns) /\ all_txns' \in Seq(Entries) /\ next_ts' \in Nat
<1> DEFINE more == [i \in DOMAIN queue |-> [txn |-> queue[i], ts |-> TimestampOf(i)]]
           A == Len(all_txns)
           Q == Len(queue)
<1>1. /\ all_txns \in Seq(Entries) /\ queue \in Seq(Txns)
      /\ A \in Nat /\ Q \in Nat /\ DOMAIN queue = 1 .. Q /\ DOMAIN all_txns = 1 .. A
      /\ next_ts = A
  BY DEF IntakeInv, IntakeTypeOK, Counted, Entries
<1>2. all_txns' = all_txns \o more /\ next_ts' = next_ts + Q /\ queue' = << >>
  BY DEF Drain, EmptyQueue
<1>3. \A i \in 1 .. Q : more[i] = [txn |-> queue[i], ts |-> A + i - 1] /\ A + i - 1 \in Nat
                        /\ queue[i] \in Txns
                        /\ more[i] \in Entries
  BY <1>1 DEF TimestampOf, Entries
<1>4. more \in Seq(Entries) /\ Len(more) = Q
  <2>1. more \in [1 .. Q -> Entries]
    <3>1. DOMAIN more = 1 .. Q /\ more = [i \in 1 .. Q |-> more[i]]
      BY <1>1
    <3> HIDE DEF more
    <3> QED BY <1>3, <3>1
  <2> HIDE DEF more, Q
  <2> QED BY <1>1, <2>1
<1> HIDE DEF more, Q
<1>5. /\ all_txns' \in Seq(Entries)
      /\ Len(all_txns') = A + Q /\ DOMAIN all_txns' = 1 .. A + Q
      /\ \A i \in 1 .. A : all_txns'[i] = all_txns[i]
      /\ \A i \in 1 .. Q : all_txns'[A + i] = more[i]
  BY <1>1, <1>2, <1>4, Concatenation
<1> HIDE DEF A
<1>6. ASSUME NEW k \in 1 .. Q
       PROVE  all_txns'[A + k].txn = queue[k] /\ all_txns'[A + k].ts = A + k - 1
  <2>1. all_txns'[A + k] = more[k]
    BY <1>5
  <2>2. more[k] = [txn |-> queue[k], ts |-> A + k - 1]
    BY <1>3
  <2> QED BY <2>1, <2>2
<1>7. \A i \in 1 .. A + Q : i \in 1 .. A \/ \E k \in 1 .. Q : i = A + k
  <2> SUFFICES ASSUME NEW i \in 1 .. A + Q, i \notin 1 .. A PROVE \E k \in 1 .. Q : i = A + k
    OBVIOUS
  <2>1. i - A \in 1 .. Q /\ i = A + (i - A)
    BY <1>1
  <2> QED BY <2>1
<1>8. pushed' = pushed
  OBVIOUS
<1>9. ASSUME NEW i \in 1 .. A + Q, NEW j \in 1 .. A + Q, i < j
      PROVE  Earlier(pushed, all_txns'[i].txn, all_txns'[j].txn)
  <2>1. CASE i \in 1 .. A /\ j \in 1 .. A
    BY <1>1, <1>5, <1>9, <2>1 DEF IntakeInv, InOrder
  <2>2. ASSUME i \in 1 .. A, NEW k \in 1 .. Q, j = A + k
        PROVE  Earlier(pushed, all_txns'[i].txn, all_txns'[j].txn)
    <3>1. all_txns'[i] = all_txns[i] /\ all_txns'[j].txn = queue[k]
      BY <1>5, <1>6, <2>2
    <3> QED BY <1>1, <2>2, <3>1 DEF IntakeInv, InOrder
  <2>3. ASSUME NEW l \in 1 .. Q, i = A + l, NEW k \in 1 .. Q, j = A + k
        PROVE  Earlier(pushed, all_txns'[i].txn, all_txns'[j].txn)
    <3>1. all_txns'[i].txn = queue[l] /\ all_txns'[j].txn = queue[k]
      BY <1>6, <2>3
    <3>2. l < k
      BY <1>1, <1>9, <2>3
    <3> QED BY <1>1, <3>1, <3>2 DEF IntakeInv, InOrder
  <2>4. j \in 1 .. A => i \in 1 .. A
    BY <1>1, <1>9
  <2> QED BY <1>7, <2>1, <2>2, <2>3, <2>4
<1>10. InOrder'
  <2>1. \A i, j \in DOMAIN all_txns' : i < j => Earlier(pushed, all_txns'[i].txn, all_txns'[j].txn)
    BY <1>5, <1>8, <1>9
  <2>2. DOMAIN queue' = {}
    BY <1>2
  <2> QED BY <2>1, <2>2 DEF InOrder
<1>11. Counted'
  <2>1. ASSUME NEW i \in 1 .. A + Q PROVE all_txns'[i].ts = i - 1
    <3>1. CASE i \in 1 .. A
      BY <1>1, <1>5, <3>1 DEF IntakeInv, Counted
    <3>2. ASSUME NEW k \in 1 .. Q, i = A + k PROVE all_txns'[i].ts = i - 1
      <4>1. all_txns'[i].ts = A + k - 1
        BY <1>6, <3>2
      <4> QED BY <1>1, <3>2, <4>1
    <3> QED BY <1>7, <3>1, <3>2
  <2> QED BY <1>1, <1>2, <1>5, <2>1 DEF Counted
<1>12. PushedOnce'
  <2>1. Taken' \subseteq Taken \cup Range(queue)
    <3> SUFFICES ASSUME NEW i \in 1 .. A + Q PROVE all_txns'[i].txn \in Taken \cup Range(queue)
      BY <1>5 DEF Taken, Range
    <3>1. CASE i \in 1 .. A
      BY <1>1, <1>5, <3>1 DEF Taken, Range
    <3>2. ASSUME NEW k \in 1 .. Q, i = A + k PROVE all_txns'[i].txn \in Range(queue)
      BY <1>1, <1>6, <3>2 DEF Range
    <3> QED BY <1>7, <3>1, <3>2
  <2>2. Range(queue') = {}
    BY <1>2 DEF Range
  <2> QED BY <2>1, <2>2 DEF IntakeInv, PushedOnce
<1>13. next_ts' \in Nat /\ queue' \in Seq(Txns)
  BY <1>1, <1>2
<1> QED BY <1>5, <1>10, <1>11, <1>12, <1>13

\* The invariant is preserved by every step.
LEMMA IntakeNextInv == IntakeInv /\ [IntakeNext]_intake => IntakeInv'
<1> SUFFICES ASSUME IntakeInv, [IntakeNext]_intake PROVE IntakeInv'
  OBVIOUS
<1>1. ASSUME NEW t \in Txns, PushFence(t) PROVE IntakeInv'
  BY <1>1 DEF PushFence, IntakeInv, IntakeTypeOK, InOrder, Counted, PushedOnce, Taken, Earlier
<1>2. ASSUME NEW t \in Txns, PushQueue(t) PROVE IntakeInv'
  BY <1>2, PushQueueInv
<1>3. CASE ClearQueue
  <2>1. Range(<< >>) = {}
    BY DEF Range
  <2> QED BY <1>3, <2>1 DEF ClearQueue, client, IntakeInv, IntakeTypeOK, InOrder, Counted, PushedOnce, Taken, Earlier
<1>4. CASE OpenIntake
  BY <1>4 DEF OpenIntake, client, IntakeInv, IntakeTypeOK, InOrder, Counted, PushedOnce, Taken, Earlier
<1>5. CASE CollectSubEpoch
  <2>1. /\ Drain /\ drains' = drains + 1 /\ drains < R /\ pc = "open"
        /\ UNCHANGED <<accepting, fenced, pushed, pc, driver, done, inTime>>
    BY <1>5 DEF CollectSubEpoch, SubEpochsLeft, client
  <2>2. /\ InOrder' /\ Counted' /\ PushedOnce'
        /\ queue' \in Seq(Txns) /\ all_txns' \in Seq(Entries) /\ next_ts' \in Nat
    BY <2>1, DrainInv
  <2>3. drains' \in 0 .. R
    BY <2>1, SubEpochsAssumption DEF IntakeInv, IntakeTypeOK
  <2> QED BY <2>1, <2>2, <2>3 DEF IntakeInv, IntakeTypeOK, Entries
<1>6. CASE EndIntake
  <2>1. /\ accepting' = FALSE /\ pc' = "closed"
        /\ UNCHANGED <<queue, fenced, pushed, driver, drains, next_ts, all_txns, done, inTime>>
    BY <1>6 DEF EndIntake, client
  <2>2. IntakeTypeOK'
    BY <2>1 DEF IntakeInv, IntakeTypeOK
  <2>3. InOrder' /\ Counted' /\ PushedOnce'
    BY <2>1 DEF IntakeInv, InOrder, Counted, PushedOnce, Taken, Earlier
  <2> QED BY <2>2, <2>3 DEF IntakeInv
<1>7. CASE CloseIntake
  <2>1. /\ accepting' = FALSE /\ pc' = "closing"
        /\ UNCHANGED <<queue, fenced, pushed, driver, drains, next_ts, all_txns, done, inTime>>
    BY <1>7 DEF CloseIntake, client
  <2>2. IntakeTypeOK'
    BY <2>1 DEF IntakeInv, IntakeTypeOK
  <2>3. InOrder' /\ Counted' /\ PushedOnce'
    BY <2>1 DEF IntakeInv, InOrder, Counted, PushedOnce, Taken, Earlier
  <2> QED BY <2>2, <2>3 DEF IntakeInv
<1>8. CASE TakeQueue
  <2>1. /\ Drain /\ pc' = "closed"
        /\ UNCHANGED <<accepting, fenced, pushed, driver, drains, done, inTime>>
    BY <1>8 DEF TakeQueue, client
  <2>2. /\ InOrder' /\ Counted' /\ PushedOnce'
        /\ queue' \in Seq(Txns) /\ all_txns' \in Seq(Entries) /\ next_ts' \in Nat
    BY <2>1, DrainInv
  <2> QED BY <2>1, <2>2 DEF IntakeInv, IntakeTypeOK, Entries
<1>9. CASE Finish
  <2>1. /\ done' = done \cup Taken /\ all_txns' = << >> /\ inTime' = {} /\ drains' = 0
        /\ next_ts' = 0 /\ pc' = "idle" /\ UNCHANGED <<accepting, queue, fenced, pushed, driver>>
    BY <1>9 DEF Finish, client
  <2>2. Taken' = {} /\ Taken \subseteq Txns
    <3>1. Range(all_txns') = {}
      BY <2>1 DEF Range
    <3>2. all_txns \in Seq(Entries)
      BY DEF IntakeInv, IntakeTypeOK, Entries
    <3>3. \A i \in DOMAIN all_txns : all_txns[i].txn \in Txns
      <4> SUFFICES ASSUME NEW i \in DOMAIN all_txns PROVE all_txns[i].txn \in Txns
        OBVIOUS
      <4>1. all_txns[i] \in Entries
        BY <3>2
      <4> QED BY <4>1 DEF Entries
    <3> QED BY <3>1, <3>3 DEF Taken, Range
  <2>3. Taken \cap Range(queue) = {}
    <3> SUFFICES ASSUME NEW i \in DOMAIN all_txns, NEW j \in DOMAIN queue,
                        all_txns[i].txn = queue[j]
                 PROVE  FALSE
      BY DEF Taken, Range
    <3>1. Earlier(pushed, queue[j], queue[j])
      BY DEF IntakeInv, InOrder
    <3>2. queue[j] \in Range(pushed)
      BY AllPushed
    <3> QED BY <3>1, <3>2, NotEarlier DEF IntakeInv, IntakeTypeOK
  <2>4. PushedOnce'
    BY <2>1, <2>2, <2>3 DEF IntakeInv, PushedOnce
  <2>5. InOrder' /\ Counted'
    BY <2>1 DEF IntakeInv, InOrder, Counted, Earlier
  <2>6. IntakeTypeOK'
    BY <2>1, <2>2, SubEpochsAssumption DEF IntakeInv, IntakeTypeOK
  <2> QED BY <2>4, <2>5, <2>6 DEF IntakeInv
<1>10. CASE UNCHANGED intake
  BY <1>10 DEF intake, client, IntakeInv, IntakeTypeOK, InOrder, Counted, PushedOnce, Taken, Earlier
<1> QED BY <1>1, <1>2, <1>3, <1>4, <1>5, <1>6, <1>7, <1>8, <1>9, <1>10 DEF IntakeNext, MainThread

\* However the pushes interleave with the driver: queue and epoch are in the order of the
\* pushes, the epoch counts its transactions, and nothing is in two places.
THEOREM IntakeInvariant == IntakeSpec => []IntakeInv
BY IntakeInitInv, IntakeNextInv, PTL DEF IntakeSpec

\* The state of the intake keeps its type.
THEOREM IntakeTypeCorrect == IntakeSpec => []IntakeTypeOK
<1>1. IntakeInv => IntakeTypeOK
  BY DEF IntakeInv
<1> QED BY <1>1, IntakeInvariant, PTL

\* collect_epoch and collect_sub_epoch give the transactions of an epoch the timestamps from
\* 0 on, in the order in which push_txn put them in the queue.
THEOREM IntakeTimestamps == IntakeSpec => []TimestampsFollowArrival
<1>1. IntakeInv => TimestampsFollowArrival
  <2> SUFFICES ASSUME IntakeInv, NEW i \in DOMAIN all_txns, NEW j \in DOMAIN all_txns, i < j
               PROVE  /\ all_txns[i].ts < all_txns[j].ts
                      /\ Position(all_txns[i].txn) < Position(all_txns[j].txn)
    BY DEF TimestampsFollowArrival
  <2>1. i \in Nat /\ j \in Nat /\ all_txns[i].ts = i - 1 /\ all_txns[j].ts = j - 1
    BY DEF IntakeInv, IntakeTypeOK, Counted
  <2>2. Earlier(pushed, all_txns[i].txn, all_txns[j].txn)
    BY DEF IntakeInv, InOrder
  <2>3. ASSUME NEW k \in DOMAIN all_txns
        PROVE  Position(all_txns[k].txn) \in DOMAIN pushed
               /\ pushed[Position(all_txns[k].txn)] = all_txns[k].txn
    <3>1. all_txns[k].txn \in Range(pushed)
      BY AllPushed
    <3>2. \E a \in DOMAIN pushed : pushed[a] = all_txns[k].txn
      BY <3>1 DEF Range
    <3> QED BY <3>2 DEF Position
  <2>4. Position(all_txns[i].txn) < Position(all_txns[j].txn)
    BY <2>2, <2>3 DEF Earlier
  <2> QED BY <2>1, <2>4
<1> QED BY <1>1, IntakeInvariant, PTL

\* An accepted transaction is at most once in the queue, the epoch and the earlier epochs
\* together: no drain of the queue races with a push to take it twice.  It may be in none of
\* them, when the push was late and the next clear dropped it.
THEOREM IntakeTakenOnce == IntakeSpec => []TakenOnce
<1>1. IntakeInv => TakenOnce
  <2> SUFFICES ASSUME IntakeInv PROVE TakenOnce
    OBVIOUS
  <2>1. /\ pushed \in Seq(Txns)
        /\ \A i \in DOMAIN queue : queue[i] \in Range(pushed) /\ i \in Nat
        /\ \A i \in DOMAIN all_txns : all_txns[i].txn \in Range(pushed) /\ i \in Nat
    BY AllPushed
  <2>2. \A t \in Range(pushed) : ~ Earlier(pushed, t, t)
    BY <2>1, NotEarlier
  <2>3. ASSUME NEW i \in DOMAIN queue, NEW j \in DOMAIN queue, queue[i] = queue[j] PROVE i = j
    BY <2>1, <2>2, <2>3 DEF IntakeInv, InOrder
  <2>4. ASSUME NEW i \in DOMAIN all_txns, NEW j \in DOMAIN all_txns,
               all_txns[i].txn = all_txns[j].txn
        PROVE  i = j
    BY <2>1, <2>2, <2>4 DEF IntakeInv, InOrder
  <2>5. Taken \cap Range(queue) = {}
    BY <2>1, <2>2 DEF IntakeInv, InOrder, Taken, Range
  <2>6. done \cap (Taken \cup Range(queue)) = {}
    BY DEF IntakeInv, PushedOnce
  <2> QED BY <2>3, <2>4, <2>5, <2>6 DEF TakenOnce, IsInjective
<1> QED BY <1>1, IntakeInvariant, PTL
==============================================================================

------------------------------ MODULE RBRWEpoch ------------------------------
(***************************************************************************)
(* The epoch of runEpoch_RBR_W (src/src/Queries_Receiving.cpp): R          *)
(* sub-epochs that collect transactions and execute their reads, with a    *)
(* version cache that serves reads from writes and reads seen before; then *)
(* AssignAbort over all of them, one batch with the last write of each     *)
(* record, and the answers.                                                *)
(***************************************************************************)
EXTENDS Executor

CONSTANTS
  Catalogue,  \* the transactions clients push
  MaxTxns,    \* bound on the transactions of an epoch
  R,          \* sub-epochs
  Loaded      \* what the ORAMs were loaded with

ASSUME CatalogueAssumption == \A t \in Catalogue : IsSubmission(t)
ASSUME EpochAssumption ==
  R \in Nat \ {0} /\ MaxTxns \in Nat /\ Loaded \in [Keys -> Values]

VARIABLES
  phase,      \* the next step of the epoch
  r,          \* sub-epochs that have ended
  incoming,   \* the transactions of the sub-epoch in progress
  all_txns,   \* those of the sub-epochs that have ended
  vcache,     \* VersionCache: a content for each record it contains
  plan,       \* per_op_decision of the batch in progress
  results,    \* what the decisions of the ended batches stand for, by global id
  ok,         \* every ended batch succeeded
  committed,  \* timestamps whose is_committed AssignAbort left true
  answers,    \* AssembledTxnResult, by timestamp
  base        \* history: what the ORAMs held when the epoch began

epoch == <<phase, r, incoming, all_txns, vcache, plan, results, ok, committed, answers, base>>
vars == <<exec, epoch>>

Abort == [committed |-> FALSE, per_op_result |-> << >>]

TypeOK ==
  /\ ExecutorTypeOK
  /\ phase \in {"collect", "dedup", "read", "assign", "writes", "write", "answered"}
  /\ r \in 0 .. R
  /\ DOMAIN vcache \subseteq Keys /\ Range(vcache) \subseteq Results
  /\ Range(results) \subseteq Results
  /\ ok \in BOOLEAN
  /\ committed \subseteq Timestamps(all_txns)
  /\ DOMAIN answers \subseteq Timestamps(all_txns)
  /\ base \in [Keys -> Values]

Init ==
  /\ ExecutorInit(Loaded)
  /\ phase = "collect"
  /\ r = 0
  /\ incoming = << >>
  /\ all_txns = << >>
  /\ vcache = << >>
  /\ plan = << >>
  /\ results = << >>
  /\ ok = TRUE
  /\ committed = {}
  /\ answers = << >>
  /\ base = Loaded

------------------------------------------------------------------------------
(* Phase A. *)

\* epoch_next_goid_: the ids go on from the sub-epochs before.
NextGoid(txns) == OpsBefore(txns, Len(txns) + 1)

CollectSubEpoch ==
  /\ phase = "collect"
  /\ \E n \in 0 .. MaxTxns - Len(all_txns) : \E batch \in [1 .. n -> Catalogue] :
       incoming' = AssignIds(batch, Len(all_txns), NextGoid(all_txns))
  /\ phase' = "dedup"
  /\ UNCHANGED <<exec, r, all_txns, vcache, plan, results, ok, committed, answers, base>>

\* A read takes the content that the writes before it in the batch, or the cache, give
\* it; the first read of a record not found there goes to the ORAM.
ReadDecision(op, ops) ==
  LET before == WritesBefore(op, ops)
      leader == First({o \in ops : IsRead(o) /\ SameChain(o, op)})
  IN
  IF before # {} THEN Buffered(Latest(before).val)
  ELSE IF op.key \in DOMAIN vcache THEN Buffered(vcache[op.key])
  ELSE IF op = leader THEN ToOram(op) ELSE Coalesced(leader)

\* dedupReadsForBatch: the reads get their decisions, every write is put in the cache,
\* whether or not its transaction will commit; and the call of executeOramOps.
DedupReads ==
  LET ops == Ops(incoming)
      reads == {op \in ops : IsRead(op)}
      writes == {op \in ops : IsWrite(op)}
      written == {op.key : op \in writes}
  IN
  /\ phase = "dedup"
  /\ plan' = PlanOf(reads, [op \in reads |-> ReadDecision(op, ops)])
  /\ vcache' = [k \in DOMAIN vcache \cup written |->
                  IF k \in written THEN Latest({w \in writes : w.key = k}).val
                  ELSE vcache[k]]
  /\ Submit(BoundOps(reads, plan'))
  /\ phase' = "read"
  /\ UNCHANGED <<r, incoming, all_txns, results, ok, committed, answers, base>>

\* The decisions of a batch that has come back, added to the earlier ones.
NewResults ==
  [g \in DOMAIN results \cup DOMAIN plan |->
     IF g \in DOMAIN plan THEN Resolve(plan[g], slots) ELSE results[g]]

\* VersionCache::absorb: the records read from an ORAM, over what the cache holds.
AbsorbedKeys == IF Success THEN {op.key : op \in BoundOps(Ops(incoming), plan)} ELSE {}
Absorb ==
  /\ phase = "read" /\ Joined
  /\ vcache' = [k \in DOMAIN vcache \cup AbsorbedKeys |->
                  IF k \in AbsorbedKeys
                  THEN slots[(CHOOSE op \in BoundOps(Ops(incoming), plan) : op.key = k).goid]
                  ELSE vcache[k]]
  /\ results' = NewResults
  /\ ok' = (ok /\ Success)
  /\ all_txns' = all_txns \o incoming
  /\ incoming' = << >>
  /\ plan' = << >>
  /\ r' = r + 1
  /\ phase' = IF r + 1 < R THEN "collect" ELSE "assign"
  /\ Submit({})
  /\ UNCHANGED <<committed, answers, base>>

------------------------------------------------------------------------------
(* Phase B. *)

\* end_intake closes the intake; AssignAbort looks at the whole epoch.
AssignAbort ==
  /\ phase = "assign"
  /\ committed' = Committed(all_txns)
  /\ phase' = "writes"
  /\ UNCHANGED <<exec, r, incoming, all_txns, vcache, plan, results, ok, answers, base>>

\* Mutant: aborted transactions are not skipped.
EveryWrite == {op \in Ops(all_txns) : IsWrite(op)}
CommittedWrites == {op \in Ops(all_txns) : IsWrite(op) /\ op.ts \in committed}

\* dedupWritesAtEnd keeps the last write of a record.
WriteDecision(op, writes) ==
  IF op = Latest({w \in writes : SameChain(w, op)}) THEN ToOram(op) ELSE Dropped

\* The batch of writes is sent whether or not the reads succeeded.
DedupWrites ==
  /\ phase = "writes"
  /\ plan' = PlanOf(CommittedWrites,
                    [op \in CommittedWrites |-> WriteDecision(op, CommittedWrites)])
  /\ Submit(BoundOps(CommittedWrites, plan'))
  /\ phase' = "write"
  /\ UNCHANGED <<r, incoming, all_txns, vcache, results, ok, committed, answers, base>>

\* assembleResultsRBRW.
\* Mutant: only the batch of writes decides about a failure.
WritesSucceeded(t) == t.ts \in committed /\ Success
Commits(t) == t.ts \in committed /\ ok /\ Success

AnswerTo(t) ==
  IF ~Commits(t) THEN Abort
  ELSE [committed |-> TRUE,
        per_op_result |->
          [j \in DOMAIN t.operations |->
             LET g == t.operations[j].goid IN
             IF g \in DOMAIN NewResults THEN NewResults[g] ELSE None]]

AssembleResults ==
  /\ phase = "write" /\ Joined
  /\ answers' = [ts \in Timestamps(all_txns) |->
                   AnswerTo(CHOOSE t \in Range(all_txns) : t.ts = ts)]
  /\ results' = NewResults
  /\ phase' = "answered"
  /\ UNCHANGED <<exec, r, incoming, all_txns, vcache, plan, ok, committed, base>>

\* runEpoch_RBR_W returns the answers; the next epoch starts.
NextEpoch ==
  /\ phase = "answered"
  /\ phase' = "collect"
  /\ r' = 0
  /\ all_txns' = << >>
  /\ vcache' = << >>
  /\ plan' = << >>
  /\ results' = << >>
  /\ ok' = TRUE
  /\ committed' = {}
  /\ answers' = << >>
  /\ base' = db
  /\ Submit({})
  /\ UNCHANGED incoming

Dispatch(s) ==
  /\ phase \in {"read", "write"}
  /\ Work(s)
  /\ UNCHANGED epoch

Main ==
  \/ CollectSubEpoch \/ DedupReads \/ Absorb
  \/ AssignAbort \/ DedupWrites \/ AssembleResults

Next == Main \/ NextEpoch \/ \E s \in Servers : Dispatch(s)

Spec == Init /\ [][Next]_vars

\* The main thread runs on, and every worker thread is scheduled.
FairSpec == Spec /\ WF_vars(Main) /\ \A s \in Servers : WF_vars(Dispatch(s))

------------------------------------------------------------------------------
(* Properties. *)

Answered == {t \in Range(all_txns) : t.ts \in DOMAIN answers /\ answers[t.ts].committed}
CommittedOps == UNION {OpsOf(t) : t \in Answered}

\* A committed transaction's read, whichever sub-epoch it came in, returns the content
\* it would see in a serial execution, provided no earlier transaction of the epoch
\* wrote the record: its own last write before, or what the ORAM held.
CleanReads ==
  phase = "answered" =>
    \A t \in Answered : \A j \in DOMAIN t.operations :
      LET op == t.operations[j] IN
      IsRead(op) /\ (\A w \in Ops(all_txns) : IsWrite(w) /\ w.key = op.key => w.ts >= op.ts) =>
        answers[t.ts].per_op_result[j] = ValueBefore(op, CommittedOps, base)

\* What the ORAMs hold after an epoch that succeeded is what the committed transactions
\* leave when they run one after another.
WritesSerialize ==
  phase = "answered" /\ ok /\ Success =>
    \A k \in Keys : db[k] = FinalValue(k, CommittedOps, base)

\* No transaction is told it committed when a batch of any of its epoch's sub-epochs
\* came back incomplete: each of its reads is answered with a content.
NoEmptyRead ==
  phase = "answered" =>
    \A t \in Answered : \A j \in DOMAIN t.operations :
      IsRead(t.operations[j]) <=> answers[t.ts].per_op_result[j] # None

\* Every epoch is answered, unless the proxy is killed.
EpochEnds == phase = "dedup" ~> phase = "answered" \/ killed

\* "If the writer aborts, ... the dependent reader is aborted too": a committed read
\* never returns what only an aborted transaction wrote.
NoDirtyRead ==
  phase = "answered" =>
    \A t \in Answered : \A j \in DOMAIN t.operations :
      LET op == t.operations[j] IN
      IsRead(op) =>
        answers[t.ts].per_op_result[j] \in
          {base[op.key]} \cup {w.val : w \in {o \in CommittedOps : IsWrite(o) /\ o.key = op.key}}
==============================================================================

--------------------------- MODULE SingleBatchEpoch ---------------------------
(***************************************************************************)
(* The single-batch epoch of the proxy: the transactions that arrived are  *)
(* given ids, AssignAbort chooses the ones that commit, Dedup decides how  *)
(* each of their operations is answered, executeOramOps runs the           *)
(* operations that reach an ORAM, and assembleResults answers every        *)
(* client.  How the transactions arrive is module Intake.                  *)
(***************************************************************************)
EXTENDS Executor

CONSTANTS
  Catalogue,  \* the transactions clients push
  MaxTxns,    \* bound on the transactions of an epoch
  Loaded      \* what the ORAMs were loaded with

ASSUME CatalogueAssumption == \A t \in Catalogue : IsSubmission(t)
ASSUME LoadedAssumption == Loaded \in [Keys -> Values]
ASSUME MaxTxnsAssumption == MaxTxns \in Nat

VARIABLES
  phase,      \* the next step of the epoch
  txns,       \* the epoch's transactions, with their ids
  committed,  \* timestamps whose is_committed is true
  plan,       \* per_op_decision, by global id
  answers,    \* AssembledTxnResult, by timestamp
  base        \* history: what the ORAMs held when the epoch began

vars == <<exec, phase, txns, committed, plan, answers, base>>

Abort == [committed |-> FALSE, per_op_result |-> << >>]

TypeOK ==
  /\ ExecutorTypeOK
  /\ phase \in {"collect", "assign", "dedup", "execute", "answered"}
  /\ Range(txns) \subseteq
       [ts : Nat, last_one : BOOLEAN, operations : {t.operations : t \in Range(txns)}]
  /\ committed \subseteq Timestamps(txns)
  /\ Range(plan) \subseteq
       [kind : {"TO_ORAM", "BUFFERED_FROM_WRITE", "COALESCED_READ", "DROPPED"},
        slot : Int, val : Results]
  /\ DOMAIN answers \subseteq Timestamps(txns)
  /\ base \in [Keys -> Values]

Init ==
  /\ ExecutorInit(Loaded)
  /\ phase = "collect"
  /\ txns = << >>
  /\ committed = {}
  /\ plan = << >>
  /\ answers = << >>
  /\ base = Loaded

\* collect_epoch gives the transactions it took their ids, from 0.
CollectEpoch ==
  /\ phase = "collect"
  /\ \E n \in 0 .. MaxTxns : \E batch \in [1 .. n -> Catalogue] :
       txns' = AssignIds(batch, 0, 0)
  /\ committed' = Timestamps(txns')
  /\ phase' = "assign"
  /\ UNCHANGED <<exec, plan, answers, base>>

AssignAbort ==
  /\ phase = "assign"
  /\ committed' = Committed(txns)
  /\ phase' = "dedup"
  /\ UNCHANGED <<exec, txns, plan, answers, base>>

\* Dedup, and the call of executeOramOps.
Dedup ==
  /\ phase = "dedup"
  /\ plan' = PlanOf(Survivors(txns),
                    [op \in Survivors(txns) |-> Decision(op, Survivors(txns))])
  /\ Submit(BoundOps(Survivors(txns), plan'))
  /\ phase' = "execute"
  /\ UNCHANGED <<txns, committed, answers, base>>

Dispatch(s) ==
  /\ phase = "execute"
  /\ Work(s)
  /\ UNCHANGED <<phase, txns, committed, plan, answers, base>>

\* Mutant: the outcome of the call is not looked at.
CommitAnyway(t) == t.ts \in committed
Commits(t) == t.ts \in committed /\ Success

\* What a client is told; an operation without a decision gets an empty result.
AnswerTo(t) ==
  IF ~Commits(t) THEN Abort
  ELSE [committed |-> TRUE,
        per_op_result |->
          [j \in DOMAIN t.operations |->
             IF t.operations[j].goid \notin DOMAIN plan THEN None
             ELSE Resolve(plan[t.operations[j].goid], slots)]]

AssembleResults ==
  /\ phase = "execute" /\ Joined
  /\ answers' = [ts \in Timestamps(txns) |->
                   AnswerTo(CHOOSE t \in Range(txns) : t.ts = ts)]
  /\ phase' = "answered"
  /\ UNCHANGED <<exec, txns, committed, plan, base>>

\* The answers go to the clients, and the caller starts over.
Deliver ==
  /\ phase = "answered"
  /\ txns' = << >>
  /\ committed' = {}
  /\ plan' = << >>
  /\ answers' = << >>
  /\ base' = db
  /\ Submit({})
  /\ phase' = "collect"

Main == AssignAbort \/ Dedup \/ AssembleResults

Next == CollectEpoch \/ Main \/ Deliver \/ \E s \in Servers : Dispatch(s)

Spec == Init /\ [][Next]_vars

\* The main thread runs on, and every worker thread is scheduled.
FairSpec ==
  /\ Spec
  /\ WF_vars(Main)
  /\ \A s \in Servers : WF_vars(Dispatch(s))

------------------------------------------------------------------------------
(* Properties. *)

CommittedOps == {op \in Ops(txns) : op.ts \in {ts \in DOMAIN answers : answers[ts].committed}}

\* What the answers of an epoch say, and what the ORAMs hold at its end, is what the
\* committed transactions would have read and left if they had run one after another
\* in timestamp order: dropping, buffering, coalescing and reordering operations, and
\* the threads of the servers, do not show.
Serializable ==
  phase = "answered" /\ Success =>
    /\ \A t \in Range(txns) : answers[t.ts].committed =>
         \A j \in DOMAIN t.operations :
           LET op == t.operations[j] IN
           answers[t.ts].per_op_result[j] =
             IF IsRead(op) THEN ValueBefore(op, CommittedOps, base) ELSE None
    /\ \A k \in Keys : db[k] = FinalValue(k, CommittedOps, base)

\* A client is told that its transaction committed only if all of it is applied, or
\* superseded by a write that is: no failed server is behind a committed answer.
CommitsAreWhole ==
  phase = "answered" =>
    \A op \in CommittedOps : IsWrite(op) =>
      \E w \in CommittedOps : w.key = op.key /\ w.goid >= op.goid /\ db[op.key] = w.val

\* An epoch that fails leaves each record with its old content or with the one content
\* the epoch was to leave: no intermediate write and no write of an aborted
\* transaction reaches an ORAM, whichever worker stopped first.
OldOrFinal ==
  phase \in {"execute", "answered"} =>
    \A k \in Keys :
      db[k] \in {base[k], FinalValue(k, {op \in Ops(txns) : op.ts \in committed}, base)}

\* Every epoch is answered, unless the proxy is killed.
EpochEnds == phase = "assign" ~> phase = "answered" \/ killed
==============================================================================

----------------------------- MODULE Transactions -----------------------------
(***************************************************************************)
(* The transactions of an epoch and what the proxy decides about them      *)
(* (src/include/Queries_Receiving.h, src/src/Queries_Receiving.cpp): ids,  *)
(* the version chains, the abort rule, and the deduplication of the        *)
(* surviving operations.  These are functions of the epoch's transactions; *)
(* the modules that extend this one run them.                              *)
(*                                                                         *)
(* A version chain lists the operations on one record in the order they    *)
(* were pushed, which is the order of their global ids: here a chain is a  *)
(* set of operations and "earlier" compares the ids.                       *)
(***************************************************************************)
EXTENDS Integers, Sequences, FiniteSets, Functions

CONSTANTS
  Servers,      \* server_ids, one ORAM each
  PrimaryKeys,  \* data_primary_key
  Values,       \* contents of a record
  None          \* the empty string: the result of a write, or of no slot

\* A primary key is unique within a server only: a record is known by both.
Keys == Servers \X PrimaryKeys
Results == Values \cup {None}

Operations ==
  [type : {"READ"}, key : Keys, val : {None}]
    \cup [type : {"UPDATE", "INSERT"}, key : Keys, val : Values]

ASSUME ResultsAssumption == None \notin Values

\* A transaction as a client pushes it.  last_one is the flag of its last operation:
\* false when the client stopped before the end.
IsSubmission(t) ==
  /\ t.operations \in Seq(Operations)
  /\ t.last_one \in BOOLEAN
  /\ t.operations = << >> => ~t.last_one

------------------------------------------------------------------------------
(* Ids. *)

\* The operations of the transactions before the i-th.
OpsBefore(batch, i) ==
  LET before[n \in 0 .. Len(batch)] ==
        IF n = 0 THEN 0 ELSE before[n - 1] + Len(batch[n].operations)
  IN  before[i - 1]

\* Timestamps and global operation ids, counted on from ts and goid.
AssignIds(batch, ts, goid) ==
  [i \in DOMAIN batch |->
     [ts |-> ts + i - 1,
      last_one |-> batch[i].last_one,
      operations |->
        [j \in DOMAIN batch[i].operations |->
           LET op == batch[i].operations[j] IN
           [type |-> op.type, key |-> op.key, val |-> op.val,
            ts |-> ts + i - 1, goid |-> goid + OpsBefore(batch, i) + j - 1]]]]

OpsOf(t) == Range(t.operations)
Ops(txns) == UNION {OpsOf(t) : t \in Range(txns)}
Timestamps(txns) == {t.ts : t \in Range(txns)}

------------------------------------------------------------------------------
(* AssignAbort. *)

IsRead(op) == op.type = "READ"
IsWrite(op) == op.type \in {"UPDATE", "INSERT"}

\* Two operations are in one version chain: the server counts as well as the key.
\* Mutant: it does not.
SamePrimaryKey(o, p) == o.key[2] = p.key[2]
SameChain(o, p) == o.key = p.key

\* The transactions that enter the version chains.
Complete(txns) == {t \in Range(txns) : t.operations # << >> /\ t.last_one}
ChainedOps(txns) == UNION {OpsOf(t) : t \in Complete(txns)}

\* MVSTO Rule A: an UPDATE comes too late when a later transaction reads its record.
VCAbort(ops) ==
  {op.ts : op \in {o \in ops : o.type = "UPDATE" /\ \E r \in ops :
                                 IsRead(r) /\ SameChain(o, r) /\ o.ts < r.ts}}

\* The transactions AssignAbort leaves committed.
Committed(txns) == {t.ts : t \in Complete(txns)} \ VCAbort(ChainedOps(txns))

\* VCDedup: what is left in the version chains.
\* Mutant: it is ChainedOps, nothing is removed.
Survivors(txns) == {op \in ChainedOps(txns) : op.ts \notin VCAbort(ChainedOps(txns))}

------------------------------------------------------------------------------
(* Decisions: how the result of each operation will be found.  slot is the id of
   the operation whose ORAM result it takes. *)

ToOram(op) == [kind |-> "TO_ORAM", slot |-> op.goid, val |-> None]
Buffered(v) == [kind |-> "BUFFERED_FROM_WRITE", slot |-> -1, val |-> v]
Coalesced(leader) == [kind |-> "COALESCED_READ", slot |-> leader.goid, val |-> None]
Dropped == [kind |-> "DROPPED", slot |-> -1, val |-> None]

First(ops) == CHOOSE o \in ops : \A p \in ops : o.goid <= p.goid
Latest(ops) == CHOOSE o \in ops : \A p \in ops : p.goid <= o.goid

\* The writes of a record that come before a read of it.
\* Mutant: all of them.
WritesOfChain(op, ops) == {w \in ops : IsWrite(w) /\ SameChain(w, op)}
WritesBefore(op, ops) ==
  {w \in ops : IsWrite(w) /\ SameChain(w, op) /\ w.goid < op.goid}

\* Dedup on one operation of the chains ops.
Decision(op, ops) ==
  LET chain == {o \in ops : SameChain(o, op)}
      before == WritesBefore(op, ops)
      leader == First({r \in chain : IsRead(r)})
      last == Latest({w \in chain : IsWrite(w)})
  IN
  IF IsRead(op)
  THEN IF before # {} THEN Buffered(Latest(before).val)
       ELSE IF op = leader THEN ToOram(op) ELSE Coalesced(leader)
  ELSE IF op = last THEN ToOram(op) ELSE Dropped

\* per_op_decision and oram_bound_ops.  Ids that two operations share name one entry.
PlanOf(ops, decide) ==
  [g \in {op.goid : op \in ops} |-> decide[CHOOSE op \in ops : op.goid = g]]
BoundOps(ops, plan) ==
  {op \in ops : op.goid \in DOMAIN plan /\ plan[op.goid].kind = "TO_ORAM"}

\* The value a decision stands for, given the results of the ORAM slots.
Resolve(d, slots) ==
  CASE d.kind = "BUFFERED_FROM_WRITE" -> d.val
    [] d.kind = "DROPPED" -> None
    [] OTHER -> slots[d.slot]

------------------------------------------------------------------------------
(* What a serial execution would do: the transactions of the set committed run one
   after another in timestamp order, from the database base. *)

Precedes(o, p) == o.ts < p.ts \/ (o.ts = p.ts /\ o.goid < p.goid)
LastWritten(writes, otherwise) ==
  IF writes = {} THEN otherwise
  ELSE (CHOOSE w \in writes : \A o \in writes : o = w \/ Precedes(o, w)).val

ValueBefore(op, ops, base) ==
  LastWritten({w \in ops : IsWrite(w) /\ w.key = op.key /\ Precedes(w, op)}, base[op.key])
FinalValue(key, ops, base) ==
  LastWritten({w \in ops : IsWrite(w) /\ w.key = key}, base[key])
==============================================================================

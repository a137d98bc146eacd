-------------------------- MODULE MCSingleBatchEpoch --------------------------
(***************************************************************************)
(* Small instances of SingleBatchEpoch for TLC: two servers that both have *)
(* the primary key p, and transactions of up to three operations.          *)
(***************************************************************************)
EXTENDS SingleBatchEpoch

CONSTANTS s1, s2, p, v0, v1, v2

Read(s) == [type |-> "READ", key |-> <<s, p>>, val |-> None]
Update(s, v) == [type |-> "UPDATE", key |-> <<s, p>>, val |-> v]
Insert(s, v) == [type |-> "INSERT", key |-> <<s, p>>, val |-> v]
Whole(ops) == [operations |-> ops, last_one |-> TRUE]

\* Every record holds v0.
MCLoaded == [k \in Keys |-> v0]

\* Single reads and writes, a read between the transaction's own writes, transactions
\* over both servers, and an unfinished one.
MCCatalogue ==
  {Whole(<<Read(s1)>>),
   Whole(<<Update(s1, v1)>>),
   Whole(<<Insert(s1, v2)>>),
   Whole(<<Update(s1, v1), Read(s1), Update(s1, v2)>>),
   Whole(<<Read(s1), Update(s2, v1)>>),
   Whole(<<Read(s2), Update(s1, v1)>>),
   [operations |-> <<Read(s1), Update(s1, v2)>>, last_one |-> FALSE]}
==============================================================================

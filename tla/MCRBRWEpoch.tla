----------------------------- MODULE MCRBRWEpoch -----------------------------
(***************************************************************************)
(* Small instances of RBRWEpoch for TLC.                                   *)
(***************************************************************************)
EXTENDS RBRWEpoch

CONSTANTS s1, s2, p, v0, v1, v2

Read(s) == [type |-> "READ", key |-> <<s, p>>, val |-> None]
Update(s, v) == [type |-> "UPDATE", key |-> <<s, p>>, val |-> v]
Insert(s, v) == [type |-> "INSERT", key |-> <<s, p>>, val |-> v]
Whole(ops) == [operations |-> ops, last_one |-> TRUE]

\* Every record holds v0.
MCLoaded == [k \in Keys |-> v0]

\* Single reads and writes, a read after the transaction's own write, transactions over
\* both servers, and an unfinished one.
MCCatalogue ==
  {Whole(<<Read(s1)>>),
   Whole(<<Insert(s1, v2)>>),
   Whole(<<Update(s1, v1), Read(s1)>>),
   Whole(<<Read(s1), Update(s2, v1)>>),
   Whole(<<Read(s2), Update(s1, v2)>>),
   [operations |-> <<Read(s2), Update(s1, v1)>>, last_one |-> FALSE]}

\* Reads and updates over both servers.
MCUpdates == {Whole(<<Read(s1)>>), Whole(<<Update(s1, v1)>>), Whole(<<Update(s2, v1)>>)}
==============================================================================

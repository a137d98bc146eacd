------------------------------ MODULE MCDispatch ------------------------------
(***************************************************************************)
(* Small instances of Dispatch for TLC: two servers, primary keys 0 to 2   *)
(* in blocks 2 to 0, and plans with up to five operations for a server.    *)
(***************************************************************************)
EXTENDS Dispatch

CONSTANTS s1, s2, v0, v1, v2

Read(s, k) == [type |-> "READ", key |-> <<s, k>>, val |-> None]
Update(s, k, v) == [type |-> "UPDATE", key |-> <<s, k>>, val |-> v]
Insert(s, k, v) == [type |-> "INSERT", key |-> <<s, k>>, val |-> v]

MCMap == [k \in Keys |-> 2 - k[2]]
MCLoaded == [s \in Servers |-> [b \in BlockIds |-> IF b = 2 THEN v2 ELSE v0]]

MCCalls ==
  {<<Read(s1, 0), Update(s1, 0, v1), Read(s1, 1), Update(s1, 2, v0), Read(s1, 2)>>,
   <<Update(s1, 0, v1), Read(s2, 0), Read(s1, 1), Insert(s2, 2, v1)>>,
   <<Update(s1, 2, v0), Update(s1, 1, v2), Read(s1, 0), Read(s2, 2)>>}
==============================================================================

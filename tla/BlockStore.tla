------------------------------ MODULE BlockStore ------------------------------
(***************************************************************************)
(* What an ORAM promises its caller: a map from blocks to contents.        *)
(***************************************************************************)
CONSTANTS Blocks, Values, None

VARIABLES
  store,  \* the content of each block, None before it is written
  out     \* the answer to the READ in progress, None when there is none

TypeOK == store \in [Blocks -> Values \cup {None}] /\ out \in Values \cup {None}

Init == store = [b \in Blocks |-> None] /\ out = None

Write(b, v) ==
  /\ out = None
  /\ store' = [store EXCEPT ![b] = v]
  /\ UNCHANGED out

WriteAll(content) ==
  /\ out = None
  /\ store' = content
  /\ UNCHANGED out

Read(b) ==
  /\ out = None
  /\ store[b] # None
  /\ out' = store[b]
  /\ UNCHANGED store

Answer ==
  /\ out' = None
  /\ UNCHANGED store

Next ==
  \/ \E b \in Blocks, v \in Values : Write(b, v)
  \/ \E content \in [Blocks -> Values \cup {None}] : WriteAll(content)
  \/ \E b \in Blocks : Read(b)
  \/ Answer

Spec == Init /\ [][Next]_<<store, out>>
==============================================================================

---------------------------- MODULE MCRepartition ----------------------------
(***************************************************************************)
(* Small instances of Repartition for TLC.                                 *)
(***************************************************************************)
EXTENDS Repartition

\* Records of a bin side by side and apart, bins of one record and of several.
MCTables == {<<2, 1, 3, 1>>, <<1, 2, 3, 4>>}
MCNoise == {-2, 0, 2}
==============================================================================

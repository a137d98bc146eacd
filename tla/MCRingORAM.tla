------------------------------ MODULE MCRingORAM ------------------------------
(***************************************************************************)
(* Small instances of RingORAM for TLC.                                    *)
(***************************************************************************)
EXTENDS RingORAM, TLC

Symmetry == Permutations(Blocks) \cup Permutations(Values)
==============================================================================

------------------------------- MODULE MCSweep -------------------------------
(***************************************************************************)
(* A small instance of Sweep for TLC.                                      *)
(***************************************************************************)
EXTENDS Sweep

\* A benchmark; a table with siblings, then one with a child that inherits their pipes;
\* and a configuration in which one of the tables has lost a partition.
MCParts == <<<<1>>, <<2, 1>>, <<1, 1>>>>
MCMortal == Children
==============================================================================

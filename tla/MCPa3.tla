------------------------------- MODULE MCPa3 --------------------------------
(***************************************************************************)
(* Instances of Pa3 for TLC.                                               *)
(***************************************************************************)
EXTENDS Pa3, TLC

Symmetry == Permutations(Generators) \cup Permutations(Values) \cup Permutations(Nodes)
=============================================================================

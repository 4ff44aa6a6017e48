---------------------------- MODULE MCPcfLayout -----------------------------
(* A small instance of PcfLayout with the sizes of the file format.        *)
EXTENDS PcfLayout, TLC

Symmetry == Permutations(Uid)
=============================================================================

------------------------------ MODULE MCPReadWrite ------------------------------
(* Instances of PReadWrite for TLC. *)
EXTENDS PReadWrite, TLC

Symmetry == Permutations(Objects)
================================================================================

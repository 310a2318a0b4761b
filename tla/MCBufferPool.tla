------------------------------ MODULE MCBufferPool ------------------------------
(* Instances of BufferPool for TLC. *)
EXTENDS BufferPool, TLC

Symmetry == Permutations(Threads)
================================================================================

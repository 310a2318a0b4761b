------------------------------ MODULE MCThreadPool ------------------------------
(* Instances of ThreadPool for TLC. *)
EXTENDS ThreadPool, TLC

Symmetry == Permutations(Workers) \cup Permutations(Clients)
              \cup Permutations(Closers) \cup Permutations(Tasks)
================================================================================

---------------------------- MODULE MCSearchBatched ----------------------------
(* Instances of SearchBatched for TLC. *)
EXTENDS SearchBatched

CONSTANTS c1, c2, c3, c4, c5

\* Every order of up to five chunks: no batch, batches filled exactly, and one
\* and a bit, with the unreadable chunk anywhere in them.
MCPlans == {p \in UNION {[1 .. n -> Chunks] : n \in 0 .. 5} :
              \A i, j \in DOMAIN p : p[i] = p[j] => i = j}
OneBatch == { <<c1, c2, c3>> }
================================================================================

----------------------------- MODULE SearchService -----------------------------
(***************************************************************************)
(* What basic_search promises the thread that uses it: search(...) hands    *)
(* out a new id and the chunks of its range in order, each chunk handed out *)
(* is scanned at most once, at any time from then on, and wait(id) returns  *)
(* only when every chunk of that search has been scanned.                   *)
(***************************************************************************)
EXTENDS Naturals, Sequences

CONSTANT Plan   \* the chunks of each search, in the order they are handed out

Ids == DOMAIN Plan

VARIABLES handed,   \* how many chunks of each search have been handed out
          scanned,  \* the chunks that have been scanned
          phase     \* how far the caller has got with each search

vars == <<handed, scanned, phase>>

Handed(id) == {Plan[id][i] : i \in 1 .. handed[id]}
Whole(id) == {Plan[id][i] : i \in DOMAIN Plan[id]}

Init == /\ handed = [id \in Ids |-> 0]
        /\ scanned = {}
        /\ phase = [id \in Ids |-> "new"]

Begin(id) == /\ phase[id] = "new"
             /\ \A k \in 1 .. id - 1 : phase[k] \in {"searched", "waited"}
             /\ phase' = [phase EXCEPT ![id] = "searching"]
             /\ UNCHANGED <<handed, scanned>>

Hand(id) == /\ phase[id] = "searching"
            /\ handed[id] < Len(Plan[id])
            /\ handed' = [handed EXCEPT ![id] = @ + 1]
            /\ UNCHANGED <<scanned, phase>>

Return(id) == /\ phase[id] = "searching"
              /\ handed[id] = Len(Plan[id])
              /\ phase' = [phase EXCEPT ![id] = "searched"]
              /\ UNCHANGED <<handed, scanned>>

Scan(id) == /\ \E c \in Handed(id) \ scanned : scanned' = scanned \cup {c}
            /\ UNCHANGED <<handed, phase>>

Wait(id) == /\ phase[id] = "searched"
            /\ Whole(id) \subseteq scanned
            /\ phase' = [phase EXCEPT ![id] = "waited"]
            /\ UNCHANGED <<handed, scanned>>

Next == \E id \in Ids : Begin(id) \/ Hand(id) \/ Return(id) \/ Scan(id) \/ Wait(id)

SafeSpec == Init /\ [][Next]_vars
================================================================================

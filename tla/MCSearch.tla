-------------------------------- MODULE MCSearch --------------------------------
(* Instances of Search for TLC. *)
EXTENDS Search

CONSTANTS c1, c2, c3

\* Two searches, the second while the first may still be running; one alone.
TwoSearches == << <<c1, c2>>, <<c3>> >>
OneSearch == << <<c1, c2, c3>> >>
================================================================================

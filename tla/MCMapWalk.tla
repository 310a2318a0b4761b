------------------------------- MODULE MCMapWalk -------------------------------
(* Instances of MapWalk for TLC. *)
EXTENDS MapWalk

\* Maps of 0 to 5 pages, alone and two in a row: with buffers of two pages that
\* is an empty map, maps the buffers divide evenly and maps they do not.
MCMaps == [start : {0, 4}, end : {0, 4, 12, 16, 20}, type : Types]
MCMapLists == {<<>>} \cup {<<m>> : m \in MCMaps}
                \cup {<<m, n>> : m \in MCMaps, n \in {k \in MCMaps : k.start = 4}}
================================================================================

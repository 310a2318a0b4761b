--------------------------------- MODULE MapWalk ---------------------------------
(***************************************************************************)
(* How search turns memory maps into chunks: for_each_maps keeps the maps   *)
(* whose type the caller asked for (detail/search/basic_search.hpp),        *)
(* forward_bench takes their bounds and memory_splitter cuts [start, end)   *)
(* into pieces of at most one buffer (detail/search/memory_splitter.hpp);   *)
(* each piece becomes one task of Search, whose comp reads it in steps of   *)
(* one word (detail/search/async_search.hpp).                              *)
(***************************************************************************)
EXTENDS Naturals, Sequences

CONSTANTS Types,       \* the kinds of map memory_type_parse tells apart
          MapLists,    \* the lists of maps a search may be given
          BufferSize,  \* buffer_pool_.buffer_size(), the chunk size
          PageSize,    \* page_size()
          WordSize     \* the 4 bytes of the int32 comp steps by

Map == [start : Nat, end : Nat, type : Types]

\* A map is whole pages.  A buffer is too: the constructors of basic_search
\* assert it, and a buffer of no page at all would keep the splitter where it is.
ASSUME WalkAssumption ==
    /\ MapLists \subseteq Seq(Map)
    /\ BufferSize \in Nat \ {0}
    /\ PageSize \in Nat \ {0}
    /\ WordSize \in Nat \ {0}
    /\ BufferSize % PageSize = 0
    /\ PageSize % WordSize = 0
    /\ \A l \in MapLists : \A m \in DOMAIN l :
          l[m].start % PageSize = 0 /\ l[m].end % PageSize = 0

\* memory_type_: EMPTY, UNKNOWN or a mask of type bits.
Filters == {"EMPTY", "UNKNOWN"} \X {{}} \cup {"MASK"} \X SUBSET Types

VARIABLES maps,    \* the maps given to search
          filter,  \* memory_type_, as for_each_maps read it
          phase,   \* "walk" between two maps, "split" inside one, "done"
          index,   \* the map the iterator is at
          cur,     \* the splitter's position in it
          handed   \* the chunks handed to the callback

vars == <<maps, filter, phase, index, cur, handed>>

Init == /\ maps \in MapLists
        /\ filter \in Filters
        /\ phase = "walk"
        /\ index = 1
        /\ cur = 0
        /\ handed = {}

\* Mutant: EMPTY is -1, all bits set; taken for a mask it selects everything.
SelectsIgnoringEmpty(m) == filter[1] # "MASK" \/ maps[m].type \in filter[2]

\* for_each_maps returns at once for EMPTY, keeps everything for UNKNOWN.
Selects(m) == \/ filter[1] = "UNKNOWN"
              \/ filter[1] = "MASK" /\ maps[m].type \in filter[2]

\* A map of another kind, or one with nothing in it (start >= end).
SkipMap == /\ phase = "walk"
           /\ index \in DOMAIN maps
           /\ ~Selects(index) \/ maps[index].start >= maps[index].end
           /\ index' = index + 1
           /\ UNCHANGED <<maps, filter, phase, cur, handed>>

EnterMap == /\ phase = "walk"
            /\ index \in DOMAIN maps
            /\ Selects(index)
            /\ maps[index].start < maps[index].end
            /\ cur' = maps[index].start
            /\ phase' = "split"
            /\ UNCHANGED <<maps, filter, index, handed>>

ChunkAt(size) == [map |-> index, addr |-> cur, size |-> size]

\* Mutant: the next chunk starts at the last byte of this one.
HandOverlapping == /\ phase = "split"
                   /\ cur < maps[index].end
                   /\ LET remain == maps[index].end - cur
                          size == IF remain < BufferSize THEN remain ELSE BufferSize
                      IN  /\ handed' = handed \cup {ChunkAt(size)}
                          /\ cur' = cur + size - 1
                   /\ UNCHANGED <<maps, filter, phase, index>>

\* Mutant: the position advances one too far.
HandAndSkip == /\ phase = "split"
               /\ cur < maps[index].end
               /\ LET remain == maps[index].end - cur
                      size == IF remain < BufferSize THEN remain ELSE BufferSize
                  IN  /\ handed' = handed \cup {ChunkAt(size)}
                      /\ cur' = cur + size + 1
               /\ UNCHANGED <<maps, filter, phase, index>>

\* Mutant: the position does not advance.
HandAndStay == /\ phase = "split"
               /\ cur < maps[index].end
               /\ handed' = handed \cup {ChunkAt(1)}
               /\ UNCHANGED <<maps, filter, phase, index, cur>>

\* The splitter's loop body: the callback gets min(end - cur, chunk_size).
HandChunk == /\ phase = "split"
             /\ cur < maps[index].end
             /\ LET remain == maps[index].end - cur
                    size == IF remain < BufferSize THEN remain ELSE BufferSize
                IN  /\ handed' = handed \cup {ChunkAt(size)}
                    /\ cur' = cur + size
             /\ UNCHANGED <<maps, filter, phase, index>>

LeaveMap == /\ phase = "split"
            /\ cur >= maps[index].end
            /\ phase' = "walk"
            /\ index' = index + 1
            /\ UNCHANGED <<maps, filter, cur, handed>>

Finish == /\ phase = "walk"
          /\ index \notin DOMAIN maps
          /\ phase' = "done"
          /\ UNCHANGED <<maps, filter, index, cur, handed>>

Next == SkipMap \/ EnterMap \/ HandChunk \/ LeaveMap \/ Finish

SafeSpec == Init /\ [][Next]_vars
Spec == SafeSpec /\ WF_vars(Next)

\* Mutant: the loop of comp runs one step too far.
WordsAtToEnd(r) == {r.addr + i : i \in {k \in 0 .. r.size : k % WordSize = 0}}

\* The addresses comp reads a word at in a chunk: i = 0, i < size, i += 4.
WordsAt(r) == {r.addr + i : i \in {k \in 0 .. r.size - 1 : k % WordSize = 0}}

--------------------------------------------------------------------------------
(* Properties *)

Chunk == [map : Nat, addr : Nat, size : Nat]

TypeOK == /\ maps \in MapLists
          /\ filter \in Filters
          /\ phase \in {"walk", "split", "done"}
          /\ index \in 1 .. Len(maps) + 1
          /\ phase = "split" => index \in DOMAIN maps
          /\ cur \in Nat
          /\ handed \subseteq Chunk

Covers(r, a) == r.addr <= a /\ a < r.addr + r.size

\* A chunk lies inside one map the caller asked for, fits a buffer and is not
\* empty; two chunks of a map share no address.
ChunksFit ==
    \A r \in handed :
        /\ r.map \in DOMAIN maps
        /\ filter[1] = "UNKNOWN" \/ (filter[1] = "MASK" /\ maps[r.map].type \in filter[2])
        /\ r.size \in 1 .. BufferSize
        /\ maps[r.map].start <= r.addr
        /\ r.addr + r.size <= maps[r.map].end
ChunksDisjoint ==
    \A r, q \in handed :
        r.map = q.map => r = q \/ r.addr + r.size <= q.addr \/ q.addr + q.size <= r.addr

\* What has been walked has been handed out: every address of the maps behind
\* the iterator, and of the current one up to the splitter's position.
Walked(m, a) == /\ m \in DOMAIN maps
                /\ Selects(m)
                /\ maps[m].start <= a
                /\ a < maps[m].end
                /\ m < index \/ (m = index /\ phase = "split" /\ a < cur)
AllWalkedHanded ==
    \A m \in DOMAIN maps : \A a \in maps[m].start .. maps[m].end - 1 :
        Walked(m, a) => \E r \in handed : r.map = m /\ Covers(r, a)

\* At the end comp has looked at each word of the selected maps exactly once,
\* and never past the bytes that were read: the splitter's cuts and comp's
\* step of one word from each chunk's start agree.
WordsScannedOnce ==
    phase = "done" =>
        /\ \A r \in handed : \A a \in WordsAt(r) : a + WordSize <= r.addr + r.size
        /\ \A m \in DOMAIN maps : Selects(m) =>
              \A a \in maps[m].start .. maps[m].end - 1 :
                  a % WordSize = 0 =>
                      \E r \in handed : r.map = m /\ a \in WordsAt(r)
                          /\ \A q \in handed : q.map = m /\ a \in WordsAt(q) => q = r

\* The walk comes to its end.
WalkEnds == <>(phase = "done")
================================================================================

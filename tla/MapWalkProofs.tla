----------------------------- MODULE MapWalkProofs -----------------------------
(***************************************************************************)
(* Proofs about MapWalk, for any lists of maps and any size of buffer: the  *)
(* chunks handed to the callback partition what has been walked, and comp,   *)
(* which steps by words from the start of each chunk, sees every word once.  *)
(***************************************************************************)
EXTENDS MapWalk, Integers, SequenceTheorems, TLAPS

--------------------------------------------------------------------------------
(* Type correctness *)

\* The current list is a sequence of maps.
LEMMA MapsAreMaps ==
  ASSUME maps \in MapLists
  PROVE  /\ DOMAIN maps = 1 .. Len(maps) /\ Len(maps) \in Nat
         /\ \A m \in DOMAIN maps : maps[m].start \in Nat /\ maps[m].end \in Nat
<1>1. maps \in Seq(Map)
  BY WalkAssumption
<1>2. DOMAIN maps = 1 .. Len(maps) /\ Len(maps) \in Nat
  BY <1>1, LenProperties
<1>3. \A m \in DOMAIN maps : maps[m] \in Map
  BY <1>1, <1>2, ElementOfSeq
<1>. QED
  BY <1>2, <1>3 DEF Map

\* The piece the splitter cuts at cur, and where it goes on.
LEMMA Cut ==
  ASSUME TypeOK, HandChunk
  PROVE  \E size \in 1 .. BufferSize :
            /\ cur + size <= maps[index].end
            /\ handed' = handed \cup {ChunkAt(size)}
            /\ cur' = cur + size
            /\ cur' \in Nat
<1> DEFINE remain == maps[index].end - cur
           size == IF remain < BufferSize THEN remain ELSE BufferSize
<1>1. maps[index].end \in Nat /\ cur \in Nat /\ cur < maps[index].end
  BY MapsAreMaps DEF HandChunk, TypeOK
<1>2. size \in 1 .. BufferSize /\ cur + size <= maps[index].end /\ cur + size \in Nat
  BY <1>1, WalkAssumption
<1>3. handed' = handed \cup {ChunkAt(size)} /\ cur' = cur + size
  BY DEF HandChunk
<1>. QED
  BY <1>2, <1>3

\* Every step keeps the variables in their types.
LEMMA TypeStep == TypeOK /\ [Next]_vars => TypeOK'
<1> SUFFICES ASSUME TypeOK, [Next]_vars PROVE TypeOK'
  OBVIOUS
<1> USE MapsAreMaps DEF TypeOK
<1>1. CASE SkipMap
  BY <1>1 DEF SkipMap
<1>2. CASE EnterMap
  BY <1>2 DEF EnterMap
<1>3. CASE HandChunk
  <2>1. PICK size \in 1 .. BufferSize : /\ handed' = handed \cup {ChunkAt(size)}
                                        /\ cur' \in Nat
    BY <1>3, Cut
  <2>2. ChunkAt(size) \in Chunk
    BY WalkAssumption DEF ChunkAt, Chunk
  <2>. QED
    BY <1>3, <2>1, <2>2 DEF HandChunk
<1>4. CASE LeaveMap
  BY <1>4 DEF LeaveMap
<1>5. CASE Finish
  BY <1>5 DEF Finish
<1>6. CASE UNCHANGED vars
  BY <1>6 DEF vars
<1>. QED
  BY <1>1, <1>2, <1>3, <1>4, <1>5, <1>6 DEF Next

--------------------------------------------------------------------------------
(* The inductive invariant *)

\* The splitter is inside a map that was asked for, and the chunks handed out
\* so far lie behind it.
Behind == /\ phase = "split" => /\ Selects(index)
                                /\ maps[index].start <= cur
                                /\ cur <= maps[index].end
          /\ \A r \in handed : \/ r.map < index
                               \/ /\ r.map = index
                                  /\ phase = "split"
                                  /\ r.addr + r.size <= cur

IInv == TypeOK /\ Behind /\ ChunksFit /\ ChunksDisjoint /\ AllWalkedHanded

\* The constructor of the walk establishes the invariant.
LEMMA InvInit == Init => IInv
<1> SUFFICES ASSUME Init PROVE IInv
  OBVIOUS
<1>1. TypeOK
  BY MapsAreMaps DEF Init, TypeOK
<1>2. Behind /\ ChunksFit /\ ChunksDisjoint
  BY DEF Init, Behind, ChunksFit, ChunksDisjoint
<1>3. AllWalkedHanded
  BY MapsAreMaps DEF Init, AllWalkedHanded, Walked
<1>. QED
  BY <1>1, <1>2, <1>3 DEF IInv

\* A step that hands nothing out and leaves an address behind only if it was
\* behind already, or not to be handed out, keeps what is handed out complete.
LEMMA NothingNewWalked ==
  ASSUME AllWalkedHanded, handed' = handed, maps' = maps,
         \A m \in DOMAIN maps : \A a \in maps[m].start .. maps[m].end - 1 :
            Walked(m, a)' => Walked(m, a)
  PROVE  AllWalkedHanded'
BY DEF AllWalkedHanded, Covers

\* Skipping, entering and leaving a map keep the invariant.
LEMMA MoveStep == IInv /\ (SkipMap \/ EnterMap \/ LeaveMap \/ Finish) => IInv'
<1> SUFFICES ASSUME IInv, SkipMap \/ EnterMap \/ LeaveMap \/ Finish PROVE IInv'
  OBVIOUS
<1> USE MapsAreMaps DEF IInv
<1>1. TypeOK'
  BY TypeStep DEF Next
<1>2. handed' = handed /\ maps' = maps /\ filter' = filter
  BY DEF SkipMap, EnterMap, LeaveMap, Finish
<1>3. \A r \in handed : r.map \in Nat /\ r.addr \in Nat /\ r.size \in Nat
  BY DEF TypeOK, Chunk
<1>4. Behind'
  BY <1>2, <1>3 DEF Behind, TypeOK, SkipMap, EnterMap, LeaveMap, Finish, Selects
<1>5. ChunksFit' /\ ChunksDisjoint'
  BY <1>2 DEF ChunksFit, ChunksDisjoint
<1>6. ASSUME NEW m \in DOMAIN maps, NEW a \in maps[m].start .. maps[m].end - 1,
             Walked(m, a)'
      PROVE  Walked(m, a)
  BY <1>2, <1>6 DEF Walked, Selects, Behind, TypeOK, SkipMap, EnterMap, LeaveMap, Finish
<1>7. AllWalkedHanded'
  BY <1>2, <1>6, NothingNewWalked
<1>. QED
  BY <1>1, <1>4, <1>5, <1>7

\* Handing out the next piece keeps the invariant.
LEMMA HandStep == IInv /\ HandChunk => IInv'
<1> SUFFICES ASSUME IInv, HandChunk PROVE IInv'
  OBVIOUS
<1> USE MapsAreMaps DEF IInv
<1>1. PICK size \in 1 .. BufferSize :
         /\ cur + size <= maps[index].end
         /\ handed' = handed \cup {ChunkAt(size)}
         /\ cur' = cur + size
         /\ cur' \in Nat
  BY Cut
<1>2. UNCHANGED <<maps, filter, phase, index>> /\ phase = "split"
  BY DEF HandChunk
<1> DEFINE new == [map |-> index, addr |-> cur, size |-> size]
<1>3. handed' = handed \cup {new}
  BY <1>1 DEF ChunkAt
<1>4. index \in DOMAIN maps /\ cur \in Nat /\ size \in Nat /\ size > 0
      /\ maps[index].start \in Nat /\ maps[index].end \in Nat
  BY <1>2, WalkAssumption DEF TypeOK
<1>5. \A r \in handed : r.map \in Nat /\ r.addr \in Nat /\ r.size \in Nat
  BY DEF TypeOK, Chunk
<1>6. TypeOK'
  BY TypeStep DEF Next
<1>7. Selects(index) /\ maps[index].start <= cur
  BY <1>2 DEF Behind
<1>8. Behind'
  BY <1>1, <1>2, <1>3, <1>4, <1>5, <1>7 DEF Behind, Selects
<1>9. ChunksFit'
  BY <1>1, <1>2, <1>3, <1>4, <1>7 DEF ChunksFit, Selects
<1>10. \A r \in handed : r.map = index => r.addr + r.size <= cur
  BY <1>4, <1>5 DEF Behind
<1>11. ChunksDisjoint'
  BY <1>2, <1>3, <1>4, <1>5, <1>10 DEF ChunksDisjoint
<1>12. ASSUME NEW m \in DOMAIN maps, NEW a \in maps[m].start .. maps[m].end - 1,
              Walked(m, a)'
       PROVE  \E r \in handed' : r.map = m /\ Covers(r, a)
  <2>1. CASE Walked(m, a)
    BY <1>3, <2>1 DEF AllWalkedHanded
  <2>2. CASE ~Walked(m, a)
    <3>1. m = index /\ cur <= a /\ a < cur + size
      BY <1>1, <1>2, <1>4, <1>12, <2>2 DEF Walked, Selects
    <3>2. new.map = m /\ Covers(new, a)
      BY <3>1 DEF Covers
    <3>. QED
      BY <1>3, <3>2
  <2>. QED
    BY <2>1, <2>2
<1>13. AllWalkedHanded'
  BY <1>2, <1>12 DEF AllWalkedHanded, Covers
<1>. QED
  BY <1>6, <1>8, <1>9, <1>11, <1>13

\* The invariant is inductive.
LEMMA Inductive == SafeSpec => []IInv
<1>1. IInv /\ UNCHANGED vars => IInv'
  BY DEF vars, IInv, TypeOK, Behind, ChunksFit, ChunksDisjoint, AllWalkedHanded, Walked,
         Selects, Covers
<1>2. IInv /\ [Next]_vars => IInv'
  BY <1>1, MoveStep, HandStep DEF Next
<1>. QED
  BY <1>2, InvInit, PTL DEF SafeSpec

--------------------------------------------------------------------------------

\* The walk's variables never leave their types.
THEOREM TypeCorrect == SafeSpec => []TypeOK
<1>1. IInv => TypeOK
  BY DEF IInv
<1>. QED
  BY <1>1, Inductive, PTL

\* Every chunk lies inside a map that was asked for and fits one buffer.
THEOREM EveryChunkFits == SafeSpec => []ChunksFit
<1>1. IInv => ChunksFit
  BY DEF IInv
<1>. QED
  BY <1>1, Inductive, PTL

\* No byte is handed to two tasks.
THEOREM NoByteTwice == SafeSpec => []ChunksDisjoint
<1>1. IInv => ChunksDisjoint
  BY DEF IInv
<1>. QED
  BY <1>1, Inductive, PTL

\* No byte behind the splitter has been left out.
THEOREM NoByteMissed == SafeSpec => []AllWalkedHanded
<1>1. IInv => AllWalkedHanded
  BY DEF IInv
<1>. QED
  BY <1>1, Inductive, PTL

--------------------------------------------------------------------------------
(* Arithmetic of multiples *)

\* The remainder is 0 for multiples alone.
LEMMA UniqueQuotient ==
  ASSUME NEW d \in Nat \ {0}, NEW k \in Nat, NEW q \in Nat, NEW r \in 0 .. d - 1,
         d * k = d * q + r
  PROVE  k = q /\ r = 0
OBVIOUS

LEMMA Multiples ==
  ASSUME NEW d \in Nat \ {0}, NEW a \in Nat
  PROVE  a % d = 0 <=> \E k \in Nat : a = d * k
<1>1. a = d * (a \div d) + (a % d) /\ a % d \in 0 .. d - 1 /\ a \div d \in Nat
  OBVIOUS
<1>2. PICK q \in Nat, r \in 0 .. d - 1 : a = d * q + r /\ r = a % d
  BY <1>1
<1>3. ASSUME NEW k \in Nat, a = d * k PROVE r = 0
  BY <1>2, <1>3, UniqueQuotient
<1>4. ASSUME r = 0 PROVE a = d * q
  BY <1>2, <1>4
<1>. QED
  BY <1>2, <1>3, <1>4

\* Sums, differences and multiples of multiples.
LEMMA MultiplesAdd ==
  ASSUME NEW d \in Nat \ {0}, NEW a \in Nat, NEW b \in Nat, a % d = 0, b % d = 0
  PROVE  (a + b) % d = 0
<1>1. PICK k \in Nat : a = d * k
  BY Multiples
<1>2. PICK m \in Nat : b = d * m
  BY Multiples
<1>3. a + b = d * (k + m) /\ k + m \in Nat /\ a + b \in Nat
  BY <1>1, <1>2
<1>. QED
  BY <1>3, Multiples

LEMMA MultiplesSubtract ==
  ASSUME NEW d \in Nat \ {0}, NEW a \in Nat, NEW b \in Nat, a % d = 0, b % d = 0, b <= a
  PROVE  (a - b) % d = 0
<1>1. PICK k \in Nat : a = d * k
  BY Multiples
<1>2. PICK m \in Nat : b = d * m
  BY Multiples
<1>3. m <= k
  <2>1. ASSUME m >= k + 1 PROVE FALSE
    <3>1. d * m >= d * (k + 1)
      BY <2>1
    <3>2. d * (k + 1) = d * k + d
      OBVIOUS
    <3>. QED
      BY <1>1, <1>2, <3>1, <3>2
  <2>. QED
    BY <2>1
<1>4. a - b = d * (k - m) /\ k - m \in Nat /\ a - b \in Nat
  BY <1>1, <1>2, <1>3
<1>. QED
  BY <1>4, Multiples

LEMMA MultiplesChain ==
  ASSUME NEW d \in Nat \ {0}, NEW p \in Nat \ {0}, NEW a \in Nat, p % d = 0, a % p = 0
  PROVE  a % d = 0
<1>1. PICK k \in Nat : p = d * k
  BY Multiples
<1>2. PICK m \in Nat : a = p * m
  BY Multiples
<1>3. a = d * (k * m) /\ k * m \in Nat
  BY <1>1, <1>2
<1>. QED
  BY <1>3, Multiples

\* Between two multiples there is room for one more d.
LEMMA NextMultiple ==
  ASSUME NEW d \in Nat \ {0}, NEW a \in Nat, NEW b \in Nat, a % d = 0, b % d = 0, a < b
  PROVE  a + d <= b
<1>1. b - a \in Nat /\ a <= b
  OBVIOUS
<1>2. (b - a) % d = 0
  BY <1>1, MultiplesSubtract
<1>3. PICK k \in Nat : b - a = d * k
  BY <1>1, <1>2, Multiples
<1>4. k >= 1
  BY <1>3
<1>5. d * k >= d
  BY <1>4
<1>. QED
  BY <1>3, <1>5

--------------------------------------------------------------------------------
(* Words *)

\* Everything the splitter cuts starts and ends at a word; and the walk is done
\* only when it has left the last map.
Aligned == /\ phase = "split" => cur % WordSize = 0
           /\ phase = "done" => index \notin DOMAIN maps
           /\ \A r \in handed : r.addr % WordSize = 0 /\ r.size % WordSize = 0

\* Pages, and so the bounds of maps and the size of a buffer, are whole words.
LEMMA WholeWords ==
  /\ BufferSize % WordSize = 0
  /\ maps \in MapLists => \A m \in DOMAIN maps : /\ maps[m].start % WordSize = 0
                                               /\ maps[m].end % WordSize = 0
<1>1. BufferSize % WordSize = 0
  BY WalkAssumption, MultiplesChain
<1>2. ASSUME maps \in MapLists, NEW m \in DOMAIN maps
      PROVE  maps[m].start % WordSize = 0 /\ maps[m].end % WordSize = 0
  <2>1. maps[m].start \in Nat /\ maps[m].end \in Nat
    BY <1>2, MapsAreMaps
  <2>2. maps[m].start % PageSize = 0 /\ maps[m].end % PageSize = 0
    BY <1>2, WalkAssumption
  <2>. QED
    BY <2>1, <2>2, WalkAssumption, MultiplesChain
<1>. QED
  BY <1>1, <1>2

LEMMA AlignedStep == IInv /\ Aligned /\ [Next]_vars => Aligned'
<1> SUFFICES ASSUME IInv, Aligned, [Next]_vars PROVE Aligned'
  OBVIOUS
<1> USE DEF IInv, TypeOK
<1>1. CASE HandChunk
  <2> DEFINE remain == maps[index].end - cur
             size == IF remain < BufferSize THEN remain ELSE BufferSize
  <2>1. /\ phase = "split" /\ index \in DOMAIN maps /\ cur < maps[index].end
        /\ cur % WordSize = 0 /\ cur \in Nat /\ maps[index].end \in Nat
    BY <1>1, MapsAreMaps DEF HandChunk, Aligned
  <2>2. remain \in Nat /\ remain % WordSize = 0
    <3>1. maps[index].end % WordSize = 0 /\ cur <= maps[index].end /\ WordSize \in Nat \ {0}
      BY <2>1, WholeWords, WalkAssumption
    <3>. QED
      BY <2>1, <3>1, MultiplesSubtract
  <2>3. size \in Nat /\ size % WordSize = 0
    BY <2>2, WholeWords, WalkAssumption
  <2>4. (cur + size) % WordSize = 0
    BY <2>1, <2>3, WalkAssumption, MultiplesAdd
  <2>5. /\ handed' = handed \cup {ChunkAt(size)} /\ cur' = cur + size
        /\ UNCHANGED <<maps, phase, index>>
    BY <1>1 DEF HandChunk
  <2>. HIDE DEF size
  <2>. QED
    BY <2>1, <2>3, <2>4, <2>5 DEF Aligned, ChunkAt
<1>2. CASE EnterMap
  BY <1>2, WholeWords DEF EnterMap, Aligned
<1>3. CASE SkipMap \/ LeaveMap \/ Finish \/ UNCHANGED vars
  BY <1>3 DEF SkipMap, LeaveMap, Finish, vars, Aligned
<1>. QED
  BY <1>1, <1>2, <1>3 DEF Next

\* comp reads the words of a chunk, and no byte past it.
LEMMA WordsOfChunk ==
  ASSUME IInv, Aligned, NEW r \in handed
  PROVE  /\ \A a \in WordsAt(r) : a + WordSize <= r.addr + r.size /\ Covers(r, a)
         /\ \A a \in Nat : a % WordSize = 0 /\ Covers(r, a) => a \in WordsAt(r)
<1>1. r.addr \in Nat /\ r.size \in Nat /\ WordSize \in Nat \ {0}
  BY WalkAssumption DEF IInv, TypeOK, Chunk
<1>2. r.addr % WordSize = 0 /\ r.size % WordSize = 0
  BY DEF Aligned
<1>3. ASSUME NEW a \in WordsAt(r)
      PROVE  a + WordSize <= r.addr + r.size /\ Covers(r, a)
  <2>1. PICK i \in 0 .. r.size - 1 : i % WordSize = 0 /\ a = r.addr + i
    BY DEF WordsAt
  <2>2. i + WordSize <= r.size
    BY <1>1, <1>2, <2>1, NextMultiple
  <2>. QED
    BY <1>1, <2>1, <2>2 DEF Covers
<1>4. ASSUME NEW a \in Nat, a % WordSize = 0, Covers(r, a) PROVE a \in WordsAt(r)
  <2> DEFINE i == a - r.addr
  <2>1. i \in 0 .. r.size - 1 /\ a = r.addr + i
    BY <1>1, <1>4 DEF Covers
  <2>2. i % WordSize = 0
    BY <1>1, <1>2, <1>4, MultiplesSubtract DEF Covers
  <2>. HIDE DEF i
  <2>. QED
    BY <2>1, <2>2 DEF WordsAt
<1>. QED
  BY <1>3, <1>4

\* comp sees each word of what was asked for exactly once, whatever the sizes of
\* the maps, the page and the buffer: the splitter's cuts and comp's step of one
\* word from each chunk's start agree.
THEOREM EveryWordOnce == SafeSpec => []WordsScannedOnce
<1>1. Init => Aligned
  BY DEF Init, Aligned
<1>2. IInv /\ Aligned => WordsScannedOnce
  <2> SUFFICES ASSUME IInv, Aligned, phase = "done" PROVE WordsScannedOnce
    BY DEF WordsScannedOnce
  <2>1. ASSUME NEW m \in DOMAIN maps, Selects(m),
               NEW a \in maps[m].start .. maps[m].end - 1, a % WordSize = 0
        PROVE  \E r \in handed : r.map = m /\ a \in WordsAt(r)
                  /\ \A q \in handed : q.map = m /\ a \in WordsAt(q) => q = r
    <3>1. /\ maps[m].start \in Nat /\ maps[m].end \in Nat /\ a \in Nat
          /\ m < index
      BY <2>1, MapsAreMaps DEF IInv, TypeOK, Aligned
    <3>2. Walked(m, a)
      BY <2>1, <3>1 DEF Walked
    <3>3. PICK r \in handed : r.map = m /\ Covers(r, a)
      BY <3>2 DEF IInv, AllWalkedHanded
    <3>4. a \in WordsAt(r)
      BY <2>1, <3>1, <3>3, WordsOfChunk
    <3>5. ASSUME NEW q \in handed, q.map = m, a \in WordsAt(q) PROVE q = r
      <4>1. Covers(q, a) /\ Covers(r, a)
        BY <3>3, <3>5, WordsOfChunk
      <4>2. /\ q.addr \in Nat /\ q.size \in Nat /\ r.addr \in Nat /\ r.size \in Nat
            /\ q = r \/ r.addr + r.size <= q.addr \/ q.addr + q.size <= r.addr
        BY <3>3, <3>5 DEF IInv, TypeOK, Chunk, ChunksDisjoint
      <4>. QED
        BY <3>1, <4>1, <4>2 DEF Covers
    <3>. QED
      BY <3>3, <3>4, <3>5
  <2>. QED
    BY <2>1, WordsOfChunk DEF WordsScannedOnce
<1>. QED
  BY <1>1, <1>2, AlignedStep, Inductive, PTL DEF SafeSpec
================================================================================

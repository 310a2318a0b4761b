---------------------------- MODULE PointerTreeProofs ----------------------------
(***************************************************************************)
(* Proofs about PointerTree, for any structs, memories, faults and writes.  *)
(* First the trees: what the recursive definitions over types and paths     *)
(* give.  Then the walk: each level's regions are the fields of its nodes,   *)
(* each once, based on the pointers that the level above has brought.        *)
(***************************************************************************)
EXTENDS PointerTree, SequenceTheorems, FiniteSetTheorems, WellFoundedInduction, TLAPS

--------------------------------------------------------------------------------
(* Induction and recursion *)

\* Every nonempty set of numbers has a least one.
LEMMA Least ==
  ASSUME NEW T, T \subseteq Nat, T # {}
  PROVE  \E n \in T : \A m \in T : n <= m
<1>1. IsWellFoundedOn(OpToRel(<, Nat), Nat)
  BY NatLessThanWellFounded
<1>2. PICK n \in T : \A m \in T : ~(<<m, n>> \in OpToRel(<, Nat))
  BY <1>1, WFMin
<1>3. \A k, m \in Nat : <<m, k>> \in OpToRel(<, Nat) <=> m < k
  BY DEF OpToRel
<1>4. \A m \in T : ~(m < n)
  BY <1>2, <1>3
<1>5. \A m \in T : n <= m
  BY <1>4
<1>. QED
  BY <1>5

\* Induction up to d, in terms of the set of numbers that it is about.
LEMMA UpTo ==
  ASSUME NEW d \in Nat, NEW T, 0 \in T, \A n \in 1 .. d : n - 1 \in T => n \in T
  PROVE  \A n \in 0 .. d : n \in T
<1> SUFFICES ASSUME NEW n \in 0 .. d, n \notin T PROVE FALSE
  OBVIOUS
<1> DEFINE R == {m \in 0 .. d : m \notin T}
<1>1. R # {} /\ R \subseteq Nat
  OBVIOUS
<1>2. PICK k \in R : \A m \in R : k <= m
  <2>. HIDE DEF R
  <2>. QED
    BY <1>1, Least
<1>3. k \in 1 .. d /\ k - 1 \in 0 .. d /\ k \notin T
  BY <1>2
<1>4. k - 1 \in T
  BY <1>2, <1>3
<1>. QED
  BY <1>3, <1>4

\* A function is defined by its value at 0 and by a step that stays in V.
Defines(f, V, v, d, F) == /\ f \in [0 .. d -> V]
                          /\ f[0] = v
                          /\ \A n \in 1 .. d : f[n] = F[<<n, f[n - 1]>>]

LEMMA Recursion ==
  ASSUME NEW V, NEW v \in V, NEW d \in Nat, NEW F,
         \A n \in 1 .. d : \A x \in V : F[<<n, x>>] \in V
  PROVE  \E f : Defines(f, V, v, d, F)
<1> DEFINE Q(f, k) == f \in [0 .. k -> V] /\ f[0] = v /\ \A n \in 1 .. k : f[n] = F[<<n, f[n - 1]>>]
           T == {k \in 0 .. d : \E f : Q(f, k)}
<1>1. 0 \in T
  <2> DEFINE f == [n \in 0 .. 0 |-> v]
  <2>1. Q(f, 0)
    OBVIOUS
  <2>. HIDE DEF Q
  <2>. QED
    BY <2>1
<1>2. ASSUME NEW k \in 1 .. d, k - 1 \in T PROVE k \in T
  <2>1. PICK f : Q(f, k - 1)
    BY <1>2
  <2> DEFINE g == [n \in 0 .. k |-> IF n = k THEN F[<<k, f[k - 1]>>] ELSE f[n]]
  <2>2. \A n \in 0 .. k - 1 : g[n] = f[n] /\ f[n] \in V
    BY <2>1
  <2>3. g[k] = F[<<k, f[k - 1]>>] /\ F[<<k, f[k - 1]>>] \in V
    <3>1. k - 1 \in 0 .. k - 1 /\ k \in 0 .. k
      OBVIOUS
    <3>2. f[k - 1] \in V
      BY <2>2, <3>1
    <3>. QED
      BY <3>1, <3>2
  <2>4. g \in [0 .. k -> V]
    <3>1. \A n \in 0 .. k : n \in 0 .. k - 1 \/ n = k
      OBVIOUS
    <3>2. g = [n \in 0 .. k |-> g[n]]
      OBVIOUS
    <3>. HIDE DEF g
    <3>3. \A n \in 0 .. k : g[n] \in V
      BY <2>2, <2>3, <3>1
    <3>. QED
      BY <3>2, <3>3, Zenon
  <2>. HIDE DEF g
  <2>5. ASSUME NEW n \in 1 .. k PROVE g[n] = F[<<n, g[n - 1]>>]
    <3>1. CASE n \in 1 .. k - 1
      <4>1. n \in 0 .. k - 1 /\ n - 1 \in 0 .. k - 1
        BY <3>1
      <4>. QED
        BY <2>1, <2>2, <3>1, <4>1
    <3>2. CASE n = k
      BY <2>2, <2>3, <3>2
    <3>. QED
      BY <3>1, <3>2
  <2>6. Q(g, k)
    BY <2>1, <2>2, <2>4, <2>5
  <2>. HIDE DEF Q
  <2>. QED
    BY <2>6
<1>3. d \in T
  <2>. HIDE DEF T
  <2>. QED
    BY <1>1, <1>2, UpTo
<1>. QED
  BY <1>3, Zenon DEF Defines

--------------------------------------------------------------------------------
(* FlattenSeq *)

\* FlattenSeq(s) is the last of the sequences f[n]: the first n of s put together.
LEMMA FlattenIs ==
  ASSUME NEW S, NEW s \in Seq(Seq(S)), NEW d \in Nat, d = Len(s)
  PROVE  \E f \in [0 .. d -> Seq(S)] :
            /\ f[0] = <<>>
            /\ \A n \in 1 .. d : f[n] = f[n - 1] \o s[n]
            /\ FlattenSeq(s) = f[d]
<1> DEFINE F == [z \in (1 .. d) \X Seq(S) |-> z[2] \o s[z[1]]]
<1>1. \A n \in 1 .. d : s[n] \in Seq(S)
  OBVIOUS
<1>2. \A n \in 1 .. d : \A x \in Seq(S) : F[<<n, x>>] = x \o s[n] /\ F[<<n, x>>] \in Seq(S)
  <2> TAKE n \in 1 .. d
  <2> TAKE x \in Seq(S)
  <2>1. F[<<n, x>>] = x \o s[n]
    OBVIOUS
  <2>2. x \o s[n] \in Seq(S)
    BY <1>1, ConcatProperties
  <2>. QED
    BY <2>1, <2>2
<1>3. <<>> \in Seq(S)
  BY EmptySeq
<1>4. PICK f : Defines(f, Seq(S), <<>>, d, F)
  <2>. HIDE DEF F
  <2>1. \A n \in 1 .. d : \A x \in Seq(S) : F[<<n, x>>] \in Seq(S)
    BY <1>2
  <2>. QED
    BY <1>3, <2>1, Recursion
<1>5. \A n \in 1 .. d : f[n - 1] \in Seq(S) /\ f[n] = f[n - 1] \o s[n]
  <2> TAKE n \in 1 .. d
  <2>1. f[n - 1] \in Seq(S)
    BY <1>4 DEF Defines
  <2>2. F[<<n, f[n - 1]>>] = f[n - 1] \o s[n]
    <3>. HIDE DEF F
    <3>. QED
      BY <1>2, <2>1
  <2>. QED
    BY <1>4, <2>1, <2>2, Zenon DEF Defines
<1>0. f \in [0 .. d -> Seq(S)] /\ f[0] = <<>>
  BY <1>4, Zenon DEF Defines
<1>6. CASE d = 0
  <2>1. s = <<>>
    BY <1>6, EmptySeq
  <2>2. FlattenSeq(s) = <<>>
    BY <1>6, <2>1 DEF FlattenSeq
  <2>. QED
    BY <1>0, <1>5, <1>6, <2>2
<1>7. CASE d # 0
  <2> DEFINE g == [n \in 1 .. d |-> f[n]]
             h == [i \in 1 .. d |-> IF i = 1 THEN s[i] ELSE g[i - 1] \o s[i]]
  <2>0. f[1] = s[1]
    <3>1. 1 \in 1 .. d /\ 1 - 1 = 0
      BY <1>7
    <3>2. f[1] = f[0] \o s[1]
      BY <1>5, <3>1
    <3>. QED
      BY <1>1, <1>0, <3>1, <3>2, ConcatEmptySeq
  <2>1. g = h
    <3>1. ASSUME NEW i \in 1 .. d PROVE g[i] = h[i]
      <4>1. CASE i = 1
        BY <2>0, <4>1
      <4>2. CASE i # 1
        <5>1. i - 1 \in 1 .. d
          BY <4>2
        <5>2. g[i] = f[i] /\ g[i - 1] = f[i - 1] /\ h[i] = g[i - 1] \o s[i]
          BY <4>2, <5>1
        <5>. QED
          BY <1>5, <5>2, Zenon
      <4>. QED
        BY <4>1, <4>2
    <3>2. g = [i \in 1 .. d |-> g[i]] /\ h = [i \in 1 .. d |-> h[i]]
      OBVIOUS
    <3>. HIDE DEF g, h
    <3>. QED
      BY <3>1, <3>2
  <2> DEFINE c == CHOOSE x : x = [i \in 1 .. d |-> IF i = 1 THEN s[i] ELSE x[i - 1] \o s[i]]
  <2>2. c = [i \in 1 .. d |-> IF i = 1 THEN s[i] ELSE c[i - 1] \o s[i]]
    BY <2>1, Zenon
  <2>3. FlattenSeq(s) = c[d]
    BY <1>7 DEF FlattenSeq
  <2>. HIDE DEF c
  <2> DEFINE k == [i \in 1 .. d |-> IF i = 1 THEN s[i] ELSE c[i - 1] \o s[i]]
  <2>4. k[1] = s[1] /\ \A i \in 2 .. d : k[i] = c[i - 1] \o s[i]
    <3>1. 1 \in 1 .. d /\ \A i \in 2 .. d : i \in 1 .. d /\ i # 1
      BY <1>7
    <3>. QED
      BY <3>1
  <2>. HIDE DEF k
  <2>5. c = k
    BY <2>2, Zenon DEF k
  <2> DEFINE T == {n \in 0 .. d : n = 0 \/ c[n] = f[n]}
  <2>6. 0 \in T
    OBVIOUS
  <2>7. ASSUME NEW n \in 1 .. d, n - 1 \in T PROVE n \in T
    <3>1. CASE n = 1
      BY <2>4, <2>5, <2>0, <3>1
    <3>2. CASE n # 1
      <4>1. n \in 2 .. d /\ n - 1 # 0
        BY <3>2
      <4>2. c[n - 1] = f[n - 1]
        BY <2>7, <4>1
      <4>3. c[n] = c[n - 1] \o s[n]
        BY <2>4, <2>5, <4>1
      <4>4. f[n] = f[n - 1] \o s[n]
        BY <1>5
      <4>5. c[n] = f[n]
        BY <4>2, <4>3, <4>4, Zenon
      <4>. QED
        BY <4>5
    <3>. QED
      BY <3>1, <3>2
  <2>8. d \in T
    <3>. HIDE DEF T
    <3>1. \A n \in 1 .. d : n - 1 \in T => n \in T
      BY <2>7
    <3>2. \A n \in 0 .. d : n \in T
      BY <2>6, <3>1, UpTo, Zenon
    <3>. QED
      BY <3>2
  <2>9. FlattenSeq(s) = f[d]
    BY <1>7, <2>3, <2>8
  <2>. QED
    BY <1>0, <1>5, <2>9
<1>. QED
  BY <1>6, <1>7

\* row and col say which element of which sequence each element of e is: no two
\* are the same one, and every element of the first n sequences is there.
Places(e, s, n, row, col) ==
    /\ \A i \in DOMAIN e : /\ row[i] \in 1 .. n
                           /\ col[i] \in DOMAIN s[row[i]]
                           /\ e[i] = s[row[i]][col[i]]
    /\ \A i, j \in DOMAIN e : row[i] = row[j] /\ col[i] = col[j] => i = j
    /\ \A j \in 1 .. n : \A m \in DOMAIN s[j] : \E i \in DOMAIN e : row[i] = j /\ col[i] = m

\* One more sequence.
LEMMA OneMorePlaced ==
  ASSUME NEW S, NEW n \in Nat \ {0}, NEW s, s[n] \in Seq(S), NEW e \in Seq(S),
         NEW row, NEW col, Places(e, s, n - 1, row, col)
  PROVE  \E r, c : Places(e \o s[n], s, n, r, c)
<1> DEFINE a == Len(e)
           b == Len(s[n])
           r == [i \in 1 .. a + b |-> IF i <= a THEN row[i] ELSE n]
           c == [i \in 1 .. a + b |-> IF i <= a THEN col[i] ELSE i - a]
<1>1. a \in Nat /\ b \in Nat /\ DOMAIN e = 1 .. a /\ DOMAIN s[n] = 1 .. b
  OBVIOUS
<1>2. DOMAIN (e \o s[n]) = 1 .. a + b
  BY ConcatProperties, LenProperties
<1>3. \A i \in 1 .. a + b : (e \o s[n])[i] = IF i <= a THEN e[i] ELSE s[n][i - a]
  BY ConcatProperties
<1>. HIDE DEF a, b
<1>4. \A i \in 1 .. a : i \in 1 .. a + b /\ r[i] = row[i] /\ c[i] = col[i]
  BY <1>1
<1>5. \A m \in 1 .. b : a + m \in 1 .. a + b /\ r[a + m] = n /\ c[a + m] = m
  BY <1>1
<1>6. \A i \in 1 .. a + b : i \in 1 .. a \/ \E m \in 1 .. b : i = a + m
  <2> TAKE i \in 1 .. a + b
  <2>1. i \in 1 .. a \/ (i - a \in 1 .. b /\ i = a + (i - a))
    BY <1>1
  <2>. QED
    BY <2>1
<1>. HIDE DEF r, c
<1>7. \A i \in 1 .. a : row[i] \in 1 .. n - 1 /\ row[i] # n
  BY <1>1 DEF Places
<1>8. ASSUME NEW i \in 1 .. a + b
      PROVE  /\ r[i] \in 1 .. n
             /\ c[i] \in DOMAIN s[r[i]]
             /\ (e \o s[n])[i] = s[r[i]][c[i]]
  <2>1. CASE i \in 1 .. a
    <3>1. col[i] \in DOMAIN s[row[i]] /\ e[i] = s[row[i]][col[i]]
      BY <1>1, <2>1 DEF Places
    <3>2. (e \o s[n])[i] = e[i]
      BY <1>1, <1>3, <2>1
    <3>. QED
      BY <1>4, <1>7, <2>1, <3>1, <3>2
  <2>2. ASSUME NEW m \in 1 .. b, i = a + m
        PROVE  /\ r[i] \in 1 .. n
               /\ c[i] \in DOMAIN s[r[i]]
               /\ (e \o s[n])[i] = s[r[i]][c[i]]
    <3>1. (e \o s[n])[i] = s[n][m]
      <4>1. ~(i <= a) /\ i - a = m
        BY <1>1, <2>2
      <4>. QED
        BY <1>3, <4>1
    <3>2. r[i] = n /\ c[i] = m
      BY <1>5, <2>2
    <3>3. n \in 1 .. n /\ m \in DOMAIN s[n]
      BY <1>1
    <3>. QED
      BY <3>1, <3>2, <3>3, Zenon
  <2>. QED
    BY <1>6, <2>1, <2>2
<1>9. ASSUME NEW i \in 1 .. a + b, NEW j \in 1 .. a + b, r[i] = r[j], c[i] = c[j]
      PROVE  i = j
  <2>1. CASE i \in 1 .. a /\ j \in 1 .. a
    BY <1>1, <1>4, <1>9, <2>1 DEF Places
  <2>2. ASSUME NEW m \in 1 .. b, i = a + m PROVE i = j
    <3>1. j \notin 1 .. a
      BY <1>4, <1>5, <1>7, <1>9, <2>2
    <3>. QED
      BY <1>5, <1>6, <1>9, <2>2, <3>1
  <2>3. ASSUME NEW m \in 1 .. b, j = a + m PROVE i = j
    <3>1. i \notin 1 .. a
      BY <1>4, <1>5, <1>7, <1>9, <2>3
    <3>. QED
      BY <1>5, <1>6, <1>9, <2>3, <3>1
  <2>. QED
    BY <1>6, <2>1, <2>2, <2>3
<1>10. ASSUME NEW j \in 1 .. n, NEW m \in DOMAIN s[j]
       PROVE  \E i \in 1 .. a + b : r[i] = j /\ c[i] = m
  <2>1. CASE j \in 1 .. n - 1
    BY <1>1, <1>4, <2>1 DEF Places
  <2>2. CASE j = n
    BY <1>1, <1>5, <2>2
  <2>. QED
    BY <2>1, <2>2
<1>11. Places(e \o s[n], s, n, r, c)
  <2> DEFINE x == e \o s[n]
  <2>1. DOMAIN x = 1 .. a + b
    BY <1>2
  <2>2. \A i \in DOMAIN x : /\ r[i] \in 1 .. n
                            /\ c[i] \in DOMAIN s[r[i]]
                            /\ x[i] = s[r[i]][c[i]]
    BY <1>8, <2>1, Zenon
  <2>3. \A i, j \in DOMAIN x : r[i] = r[j] /\ c[i] = c[j] => i = j
    BY <1>9, <2>1, Zenon
  <2>. HIDE DEF x
  <2>4. \A j \in 1 .. n : \A m \in DOMAIN s[j] : \E i \in DOMAIN x : r[i] = j /\ c[i] = m
    BY <1>10, <2>1
  <2>5. Places(x, s, n, r, c)
    BY <2>2, <2>3, <2>4, Zenon DEF Places
  <2>. QED
    BY <2>5 DEF x
<1>. QED
  BY <1>11

LEMMA FlattenPlaces ==
  ASSUME NEW S, NEW s \in Seq(Seq(S))
  PROVE  /\ FlattenSeq(s) \in Seq(S)
         /\ \E row, col : Places(FlattenSeq(s), s, Len(s), row, col)
<1> DEFINE d == Len(s)
<1>1. d \in Nat /\ d = Len(s) /\ \A n \in 1 .. d : s[n] \in Seq(S)
  OBVIOUS
<1>. HIDE DEF d
<1>2. PICK f \in [0 .. d -> Seq(S)] :
         /\ f[0] = <<>>
         /\ \A n \in 1 .. d : f[n] = f[n - 1] \o s[n]
         /\ FlattenSeq(s) = f[d]
  BY <1>1, FlattenIs
<1> DEFINE T == {n \in 0 .. d : \E row, col : Places(f[n], s, n, row, col)}
<1>3. 0 \in T
  <2>1. Places(<<>>, s, 0, <<>>, <<>>)
    BY DEF Places
  <2>. QED
    BY <1>1, <1>2, <2>1
<1>4. ASSUME NEW n \in 1 .. d, n - 1 \in T PROVE n \in T
  <2>1. PICK row, col : Places(f[n - 1], s, n - 1, row, col)
    BY <1>4
  <2>2. n \in Nat \ {0} /\ n - 1 \in 0 .. d
    BY <1>1
  <2>3. \E r, c : Places(f[n - 1] \o s[n], s, n, r, c)
    BY <1>1, <1>2, <2>1, <2>2, OneMorePlaced
  <2>4. f[n] = f[n - 1] \o s[n]
    BY <1>2
  <2>5. \E r, c : Places(f[n], s, n, r, c)
    BY <2>3, <2>4, Zenon
  <2>. QED
    BY <2>5
<1>5. d \in T
  <2>. HIDE DEF T
  <2>1. \A n \in 1 .. d : n - 1 \in T => n \in T
    BY <1>4
  <2>2. \A n \in 0 .. d : n \in T
    BY <1>1, <1>3, <2>1, UpTo
  <2>. QED
    BY <1>1, <2>2
<1>6. f[d] \in Seq(S)
  BY <1>1, <1>2
<1>. QED
  BY <1>1, <1>2, <1>5, <1>6

--------------------------------------------------------------------------------
(* Members and where they lie *)

LEMMA Member ==
  ASSUME NEW t \in DOMAIN Struct
  PROVE  /\ Len(Struct[t]) \in Nat /\ DOMAIN Struct[t] = 1 .. Len(Struct[t])
         /\ FieldsOf(t) = Struct[t]
         /\ \A i \in DOMAIN Struct[t] :
              /\ Struct[t][i].kind \in Kinds
              /\ Struct[t][i].kind = "pointer" =>
                    Struct[t][i].type \in Types /\ FieldSize(Struct[t][i]) = PointerSize
              /\ FieldSize(Struct[t][i]) \in Nat
              /\ Declared(Struct[t][i]) => Struct[t][i].offset \in Nat
<1>1. Struct[t] \in Seq(Range(Struct[t]))
  BY MembersHaveKinds
<1>2. Len(Struct[t]) \in Nat /\ DOMAIN Struct[t] = 1 .. Len(Struct[t])
  BY <1>1, LenProperties
<1>3. ASSUME NEW i \in DOMAIN Struct[t]
      PROVE  /\ Struct[t][i].kind \in Kinds
             /\ Struct[t][i].kind = "pointer" =>
                    Struct[t][i].type \in Types /\ FieldSize(Struct[t][i]) = PointerSize
             /\ FieldSize(Struct[t][i]) \in Nat
             /\ Declared(Struct[t][i]) => Struct[t][i].offset \in Nat
  <2> DEFINE f == Struct[t][i]
  <2>1. f \in Range(Struct[t])
    BY DEF Range
  <2>. HIDE DEF f
  <2>2. /\ f.kind \in Kinds
        /\ IF f.kind = "pointer" THEN f.type \in Types ELSE f.type \in DOMAIN SizeOf
        /\ Declared(f) => f.offset \in Nat
    BY <2>1, MembersHaveKinds, Zenon
  <2>3. SizeOf \in [DOMAIN SizeOf -> Nat]
    BY MembersHaveKinds
  <2>4. FieldSize(f) \in Nat /\ (f.kind = "pointer" => FieldSize(f) = PointerSize)
    BY <2>2, <2>3 DEF FieldSize, PointerSize
  <2>. QED
    BY <2>2, <2>4 DEF f
<1>4. FieldsOf(t) = Struct[t]
  BY DEF FieldsOf, Aggregate
<1>. QED
  BY <1>2, <1>3, <1>4, Zenon

\* The equation that defines the offsets has a solution.
LEMMA OffsetsAre ==
  ASSUME NEW t \in DOMAIN Struct, NEW sizes, NEW d \in Nat, d = Len(Struct[t]),
         \A i \in 1 .. d : sizes[i] \in Nat
  PROVE  \E c \in [1 .. d -> Nat] :
            /\ OffsetsBy(t, sizes) = c
            /\ \A i \in 1 .. d : c[i] = IF Declared(Struct[t][i]) THEN Struct[t][i].offset
                                        ELSE IF i = 1 THEN 0 ELSE c[i - 1] + sizes[i - 1]
<1> DEFINE At(i, x) == IF Declared(Struct[t][i]) THEN Struct[t][i].offset
                       ELSE IF i = 1 THEN 0 ELSE x + sizes[i - 1]
           F == [z \in (1 .. d) \X Nat |-> At(z[1], z[2])]
<1>1. DOMAIN Struct[t] = 1 .. d /\ \A i \in 1 .. d : Declared(Struct[t][i]) => Struct[t][i].offset \in Nat
  BY Member
<1>2. \A n \in 1 .. d : \A x \in Nat : At(n, x) \in Nat
  <2> TAKE n \in 1 .. d
  <2> TAKE x \in Nat
  <2>1. n = 1 \/ n - 1 \in 1 .. d
    OBVIOUS
  <2>. QED
    BY <1>1, <2>1
<1>3. \A n \in 1 .. d : \A x \in Nat : F[<<n, x>>] = At(n, x)
  <2>. HIDE DEF At
  <2>. QED
    OBVIOUS
<1>. HIDE DEF F
<1>4. PICK f : Defines(f, Nat, 0, d, F)
  <2>1. \A n \in 1 .. d : \A x \in Nat : F[<<n, x>>] \in Nat
    <3>. HIDE DEF At
    <3>. QED
      BY <1>2, <1>3
  <2>2. 0 \in Nat
    OBVIOUS
  <2>. QED
    BY <2>1, <2>2, Recursion
<1>5. \A n \in 1 .. d : f[n] \in Nat /\ f[n] = At(n, f[n - 1])
  <2>. HIDE DEF At
  <2> TAKE n \in 1 .. d
  <2>0. f \in [0 .. d -> Nat]
    BY <1>4, Zenon DEF Defines
  <2>1. f[n - 1] \in Nat /\ f[n] \in Nat
    <3>1. n - 1 \in 0 .. d /\ n \in 0 .. d
      OBVIOUS
    <3>. QED
      BY <2>0, <3>1
  <2>2. f[n] = F[<<n, f[n - 1]>>]
    BY <1>4, Zenon DEF Defines
  <2>. QED
    BY <1>3, <2>1, <2>2
<1> DEFINE g == [i \in DOMAIN Struct[t] |-> f[i]]
           h == [i \in DOMAIN Struct[t] |-> At(i, g[i - 1])]
<1>6. g = h
  <2>1. ASSUME NEW i \in DOMAIN Struct[t] PROVE g[i] = h[i]
    <3>1. i = 1 \/ i - 1 \in 1 .. d
      BY <1>1
    <3>2. g[i] = f[i] /\ h[i] = At(i, g[i - 1])
      <4>. HIDE DEF At
      <4>. QED
        OBVIOUS
    <3>3. i # 1 => g[i - 1] = f[i - 1]
      BY <1>1, <3>1
    <3>4. At(i, g[i - 1]) = At(i, f[i - 1])
      BY <3>3
    <3>. HIDE DEF At
    <3>. QED
      BY <1>1, <1>5, <3>2, <3>4
  <2>2. g = [i \in DOMAIN Struct[t] |-> g[i]] /\ h = [i \in DOMAIN Struct[t] |-> h[i]]
    <3>. HIDE DEF At
    <3>. QED
      OBVIOUS
  <2>. HIDE DEF g, h
  <2>. QED
    BY <2>1, <2>2
<1> DEFINE c == CHOOSE x : x = [i \in DOMAIN Struct[t] |-> At(i, x[i - 1])]
<1>7. c = [i \in DOMAIN Struct[t] |-> At(i, c[i - 1])]
  <2>. HIDE DEF At
  <2>. QED
    BY <1>6, Zenon
<1>8. OffsetsBy(t, sizes) = c
  BY DEF OffsetsBy
<1>. HIDE DEF c, g
<1> DEFINE k == [i \in 1 .. d |-> At(i, c[i - 1])]
<1>9. /\ k = [i \in 1 .. d |-> k[i]]
      /\ \A i \in 1 .. d : k[i] = At(i, c[i - 1])
  <2>. HIDE DEF At
  <2>. QED
    OBVIOUS
<1>10. c = k
  <2>. HIDE DEF At
  <2>. QED
    BY <1>1, <1>7, Zenon
<1>. HIDE DEF k
<1>11. \A i \in 1 .. d : c[i] = At(i, c[i - 1])
  BY <1>9, <1>10, Zenon
<1> DEFINE T == {n \in 0 .. d : n = 0 \/ c[n] = f[n]}
<1>12. \A n \in 0 .. d : n \in T
  <2>1. 0 \in T
    OBVIOUS
  <2>2. ASSUME NEW n \in 1 .. d, n - 1 \in T PROVE n \in T
    <3>1. n = 1 \/ c[n - 1] = f[n - 1]
      BY <2>2
    <3>2. At(n, c[n - 1]) = At(n, f[n - 1])
      BY <3>1
    <3>. HIDE DEF At
    <3>. QED
      BY <1>5, <1>11, <3>2
  <2>3. \A n \in 1 .. d : n - 1 \in T => n \in T
    BY <2>2
  <2>. HIDE DEF T
  <2>. QED
    BY <2>1, <2>3, UpTo
<1>13. \A n \in 1 .. d : c[n] \in Nat
  <2>. HIDE DEF At
  <2>. QED
    BY <1>5, <1>12
<1>14. c \in [1 .. d -> Nat]
  BY <1>9, <1>10, <1>13
<1>. QED
  BY <1>8, <1>11, <1>14

\* Every member lies at a number of words.
LEMMA OffsetsAreNumbers ==
  ASSUME NEW t \in DOMAIN Struct
  PROVE  \A i \in DOMAIN Struct[t] : Offsets[t][i] \in Nat
<1> DEFINE d == Len(Struct[t])
           sizes == [i \in DOMAIN Struct[t] |-> IF i = 1 /\ ~Declared(Struct[t][1]) THEN 0
                                                ELSE FieldSizes(t)[i]]
<1>1. d \in Nat /\ DOMAIN Struct[t] = 1 .. d
  BY Member
<1>2. \A i \in 1 .. d : sizes[i] \in Nat
  BY <1>1, Member DEF FieldSizes
<1>3. Offsets[t] = OffsetsBy(t, sizes)
  BY DEF Offsets
<1>. HIDE DEF sizes
<1>4. PICK c \in [1 .. d -> Nat] : OffsetsBy(t, sizes) = c
  BY <1>1, <1>2, OffsetsAre
<1>. QED
  BY <1>1, <1>3, <1>4

\* The offsets the code computes are those of the layout, less the shift of the
\* plain members in front.
LEMMA ShiftedLayout ==
  ASSUME NEW t \in DOMAIN Struct
  PROVE  \A i \in DOMAIN Struct[t] : /\ Layout[t][i] \in Nat /\ Shift(t, i) \in Nat
                                     /\ Offsets[t][i] = Layout[t][i] - Shift(t, i)
<1> DEFINE d == Len(Struct[t])
           Plain(i) == ~Declared(Struct[t][i])
           a == [i \in DOMAIN Struct[t] |-> IF i = 1 /\ ~Declared(Struct[t][1]) THEN 0
                                            ELSE FieldSizes(t)[i]]
           b == FieldSizes(t)
           S(i) == Shift(t, i)
<1>1. d \in Nat /\ d = Len(Struct[t]) /\ DOMAIN Struct[t] = 1 .. d
  BY Member
<1>2. \A i \in 1 .. d : a[i] \in Nat /\ b[i] \in Nat
  BY <1>1, Member DEF FieldSizes
<1>3. Offsets[t] = OffsetsBy(t, a) /\ Layout[t] = OffsetsBy(t, b)
  BY DEF Offsets, Layout
<1>4. \A i \in 1 .. d : a[i] = IF i = 1 /\ Plain(1) THEN 0 ELSE b[i]
  BY <1>1
<1>5. \A i \in 1 .. d : S(i) = IF i > 1 /\ \A j \in 1 .. i : Plain(j) THEN b[1] ELSE 0
  BY <1>1 DEF Shift, FieldSizes
<1>. HIDE DEF a, b, d
<1>6. PICK f \in [1 .. d -> Nat] :
         /\ OffsetsBy(t, a) = f
         /\ \A i \in 1 .. d : f[i] = IF Declared(Struct[t][i]) THEN Struct[t][i].offset
                                     ELSE IF i = 1 THEN 0 ELSE f[i - 1] + a[i - 1]
  BY <1>1, <1>2, OffsetsAre
<1>7. PICK g \in [1 .. d -> Nat] :
         /\ OffsetsBy(t, b) = g
         /\ \A i \in 1 .. d : g[i] = IF Declared(Struct[t][i]) THEN Struct[t][i].offset
                                     ELSE IF i = 1 THEN 0 ELSE g[i - 1] + b[i - 1]
  BY <1>1, <1>2, OffsetsAre
<1>. HIDE DEF S
<1>8. \A i \in 1 .. d : S(i) \in Nat
  BY <1>1, <1>2, <1>5
<1> DEFINE T == {n \in 0 .. d : n = 0 \/ f[n] = g[n] - S(n)}
<1>9. ASSUME NEW n \in 1 .. d, n - 1 \in T PROVE f[n] = g[n] - S(n)
  <2>1. f[n] \in Nat /\ g[n] \in Nat
    BY <1>6, <1>7
  <2>2. CASE Declared(Struct[t][n])
    <3>1. ~Plain(n) /\ n \in 1 .. n
      BY <2>2
    <3>2. S(n) = 0
      BY <1>5, <3>1
    <3>3. f[n] = g[n]
      BY <1>6, <1>7, <2>2
    <3>. QED
      BY <2>1, <3>2, <3>3
  <2>3. CASE Plain(n) /\ n = 1
    <3>1. S(n) = 0
      BY <1>5, <2>3
    <3>2. f[n] = 0 /\ g[n] = 0
      BY <1>6, <1>7, <2>3
    <3>. QED
      BY <3>1, <3>2
  <2>4. CASE Plain(n) /\ n # 1
    <3>1. n - 1 \in 1 .. d /\ n > 1
      BY <1>1, <2>4
    <3>2. f[n] = f[n - 1] + a[n - 1] /\ g[n] = g[n - 1] + b[n - 1]
      BY <1>6, <1>7, <2>4
    <3>3. f[n - 1] = g[n - 1] - S(n - 1)
      BY <1>9, <3>1
    <3>4. /\ f[n - 1] \in Nat /\ g[n - 1] \in Nat /\ a[n - 1] \in Nat /\ b[n - 1] \in Nat
          /\ S(n - 1) \in Nat /\ S(n) \in Nat
      BY <1>2, <1>6, <1>7, <1>8, <3>1
    <3>5. a[n - 1] + S(n) = b[n - 1] + S(n - 1)
      <4>1. CASE n = 2
        <5>1. S(1) = 0 /\ n - 1 = 1
          BY <1>5, <3>1, <4>1
        <5>2. CASE Plain(1)
          <6>1. \A j \in 1 .. n : Plain(j)
            BY <2>4, <4>1, <5>2
          <6>2. S(n) = b[1] /\ a[1] = 0
            BY <1>4, <1>5, <3>1, <5>1, <5>2, <6>1
          <6>. QED
            BY <1>2, <3>1, <5>1, <6>2
        <5>3. CASE ~Plain(1)
          <6>1. S(n) = 0
            BY <1>5, <4>1, <5>3
          <6>2. a[1] = b[1]
            BY <1>4, <3>1, <5>1, <5>3
          <6>. QED
            BY <1>2, <3>1, <5>1, <6>1, <6>2
        <5>. QED
          BY <5>2, <5>3
      <4>2. CASE n # 2
        <5>1. a[n - 1] = b[n - 1] /\ n - 1 > 1
          BY <1>4, <3>1, <4>2
        <5>2. (\A j \in 1 .. n : Plain(j)) <=> (\A j \in 1 .. n - 1 : Plain(j))
          <6>1. \A j \in 1 .. n : j = n \/ j \in 1 .. n - 1
            BY <3>1
          <6>. QED
            BY <2>4, <3>1, <6>1
        <5>3. S(n) = S(n - 1)
          BY <1>5, <3>1, <5>1, <5>2
        <5>. QED
          BY <5>1, <5>3
      <4>. QED
        BY <4>1, <4>2
    <3>. QED
      BY <3>2, <3>3, <3>4, <3>5
  <2>. QED
    BY <2>2, <2>3, <2>4
<1>10. \A n \in 0 .. d : n \in T
  <2>1. 0 \in T
    BY <1>1
  <2>2. \A n \in 1 .. d : n - 1 \in T => n \in T
    BY <1>1, <1>9
  <2>. HIDE DEF T
  <2>. QED
    BY <1>1, <2>1, <2>2, UpTo
<1>11. \A n \in 1 .. d : f[n] = g[n] - S(n)
  BY <1>10
<1>12. \A n \in 1 .. d : Layout[t][n] \in Nat /\ S(n) \in Nat /\ Offsets[t][n] = Layout[t][n] - S(n)
  BY <1>3, <1>6, <1>7, <1>8, <1>11
<1>. QED
  BY <1>1, <1>12 DEF S

\* A member that declares where it lies is read there.
LEMMA DeclaredLies ==
  ASSUME NEW t \in DOMAIN Struct, NEW i \in DOMAIN Struct[t], Declared(Struct[t][i])
  PROVE  Offsets[t][i] = Layout[t][i] /\ Layout[t][i] \in Nat
<1>1. i \in 1 .. i
  BY Member
<1>2. Shift(t, i) = 0
  BY <1>1 DEF Shift
<1>. QED
  BY <1>2, ShiftedLayout

\* Word x of a struct belongs to one of its members.
InMember(t, x) == \E j \in DOMAIN Struct[t] :
                    x \in Layout[t][j] .. Layout[t][j] + FieldSize(Struct[t][j]) - 1

\* A member is read from words that all belong to members: plain members in
\* front follow each other without a gap.
LEMMA ReadsMembers ==
  ASSUME NEW t \in DOMAIN Struct, NEW i \in DOMAIN Struct[t],
         NEW x \in Offsets[t][i] .. Offsets[t][i] + FieldSize(Struct[t][i]) - 1
  PROVE  InMember(t, x)
<1> DEFINE d == Len(Struct[t])
           Plain(n) == ~Declared(Struct[t][n])
           b == FieldSizes(t)
<1>1. d \in Nat /\ d = Len(Struct[t]) /\ DOMAIN Struct[t] = 1 .. d /\ i \in 1 .. d
  BY Member
<1>2. \A n \in 1 .. d : b[n] \in Nat /\ b[n] = FieldSize(Struct[t][n])
  BY <1>1, Member DEF FieldSizes
<1>3. Layout[t] = OffsetsBy(t, b)
  BY DEF Layout
<1>. HIDE DEF b, d
<1>4. PICK g \in [1 .. d -> Nat] :
         /\ OffsetsBy(t, b) = g
         /\ \A n \in 1 .. d : g[n] = IF Declared(Struct[t][n]) THEN Struct[t][n].offset
                                     ELSE IF n = 1 THEN 0 ELSE g[n - 1] + b[n - 1]
  BY <1>1, <1>2, OffsetsAre
<1>5. Layout[t] = g
  BY <1>3, <1>4
<1>6. /\ Offsets[t][i] \in Nat /\ Shift(t, i) \in Nat /\ g[i] \in Nat
      /\ Offsets[t][i] = g[i] - Shift(t, i)
  BY <1>5, ShiftedLayout, OffsetsAreNumbers
<1> DEFINE In(y) == \E j \in 1 .. d : y \in g[j] .. g[j] + b[j] - 1
<1>7. In(x) => InMember(t, x)
  BY <1>1, <1>2, <1>5 DEF InMember
<1>8. CASE Shift(t, i) = 0
  <2>1. x \in g[i] .. g[i] + b[i] - 1
    BY <1>1, <1>2, <1>6, <1>8
  <2>. QED
    BY <1>1, <1>7, <2>1
<1>9. CASE Shift(t, i) # 0
  <2>1. \A j \in 1 .. i : Plain(j)
    BY <1>9 DEF Shift
  <2> DEFINE T == {n \in 0 .. i : n = 0 \/ \A y \in 0 .. g[n] + b[n] - 1 : In(y)}
  <2>2. ASSUME NEW n \in 1 .. i, n - 1 \in T PROVE n \in T
    <3>1. n \in 1 .. d /\ Plain(n) /\ g[n] \in Nat /\ b[n] \in Nat
      BY <1>1, <1>2, <1>4, <2>1
    <3>2. \A y \in g[n] .. g[n] + b[n] - 1 : In(y)
      BY <3>1
    <3>3. ASSUME NEW y \in 0 .. g[n] - 1 PROVE In(y)
      <4>1. n # 1 /\ g[n] = g[n - 1] + b[n - 1]
        BY <1>4, <3>1, <3>3
      <4>2. n - 1 # 0 /\ n - 1 \in 1 .. d
        BY <1>1, <3>1, <4>1
      <4>3. \A z \in 0 .. g[n - 1] + b[n - 1] - 1 : In(z)
        <5>. HIDE DEF In
        <5>. QED
          BY <2>2, <4>2
      <4>4. y \in 0 .. g[n - 1] + b[n - 1] - 1
        <5>1. g[n - 1] \in Nat /\ b[n - 1] \in Nat
          BY <1>2, <1>4, <4>2
        <5>. HIDE DEF T, In
        <5>. QED
          BY <3>1, <3>3, <4>1, <5>1
      <4>. HIDE DEF In
      <4>. QED
        BY <4>3, <4>4
    <3>4. ASSUME NEW y \in 0 .. g[n] + b[n] - 1 PROVE In(y)
      <4>1. y \in 0 .. g[n] - 1 \/ y \in g[n] .. g[n] + b[n] - 1
        BY <3>1
      <4>. QED
        BY <3>2, <3>3, <4>1, Zenon
    <3>. HIDE DEF In
    <3>5. \A y \in 0 .. g[n] + b[n] - 1 : In(y)
      BY <3>4
    <3>6. n \in 0 .. i
      BY <1>1
    <3>. QED
      BY <3>5, <3>6
  <2>. HIDE DEF In
  <2>3. i \in T
    <3>1. i \in Nat /\ 0 \in T /\ i \in 0 .. i
      BY <1>1
    <3>2. \A n \in 1 .. i : n - 1 \in T => n \in T
      BY <2>2
    <3>. HIDE DEF T
    <3>. QED
      BY <3>1, <3>2, UpTo
  <2>4. x \in 0 .. g[i] + b[i] - 1
    BY <1>1, <1>2, <1>6
  <2>5. i # 0
    BY <1>1
  <2>. QED
    BY <1>7, <2>3, <2>4, <2>5
<1>. QED
  BY <1>8, <1>9

--------------------------------------------------------------------------------
(* The pointers of a type, and the type of a node *)

\* q lists pointers among the first n fields, none twice.
ListsPointers(q, fields, n) ==
    /\ \A m \in DOMAIN q : q[m] \in 1 .. n /\ fields[q[m]].kind = "pointer"
    /\ \A m, l \in DOMAIN q : q[m] = q[l] => m = l

LEMMA OneMorePointer ==
  ASSUME NEW q \in Seq(Nat), NEW fields, NEW n \in Nat \ {0},
         ListsPointers(q, fields, n - 1), fields[n].kind = "pointer"
  PROVE  ListsPointers(Append(q, n), fields, n)
<1> DEFINE r == Append(q, n)
           a == Len(q)
<1>1. a \in Nat /\ DOMAIN q = 1 .. a /\ DOMAIN r = 1 .. a + 1
  BY AppendProperties, LenProperties
<1>2. r[a + 1] = n /\ \A m \in 1 .. a : r[m] = q[m]
  BY AppendProperties
<1>. HIDE DEF r, a
<1>3. \A m \in 1 .. a : q[m] \in 1 .. n - 1 /\ fields[q[m]].kind = "pointer"
  BY <1>1 DEF ListsPointers
<1>4. \A m \in 1 .. a + 1 : m \in 1 .. a \/ m = a + 1
  BY <1>1
<1>5. \A m \in 1 .. a : q[m] \in 1 .. n /\ q[m] # n
  BY <1>3
<1>6. \A m \in DOMAIN r : r[m] \in 1 .. n /\ fields[r[m]].kind = "pointer"
  BY <1>1, <1>2, <1>3, <1>4, <1>5
<1>7. \A m, l \in 1 .. a : q[m] = q[l] => m = l
  BY <1>1, Zenon DEF ListsPointers
<1>8. \A m, l \in DOMAIN r : r[m] = r[l] => m = l
  BY <1>1, <1>2, <1>4, <1>5, <1>7
<1>9. ListsPointers(r, fields, n)
  BY <1>6, <1>8, Zenon DEF ListsPointers
<1>. QED
  BY <1>9 DEF r

LEMMA PointersAre ==
  ASSUME NEW t
  PROVE  /\ PointersOf(t) \in Seq(Nat)
         /\ ListsPointers(PointersOf(t), FieldsOf(t), Len(FieldsOf(t)))
<1> DEFINE e == FieldsOf(t)
           d == Len(e)
<1>1. d \in Nat
  <2>1. CASE t \in DOMAIN Struct
    BY <2>1, Member
  <2>2. CASE t \notin DOMAIN Struct
    BY <2>2 DEF FieldsOf, Aggregate
  <2>. QED
    BY <2>1, <2>2
<1>2. PointersOf(t) = LET upTo[i \in 0 .. d] ==
                            IF i = 0 THEN <<>>
                            ELSE IF e[i].kind = "pointer" THEN Append(upTo[i - 1], i) ELSE upTo[i - 1]
                      IN  upTo[d]
  BY DEF PointersOf
<1>. HIDE DEF d, e
<1> DEFINE Grow(i, x) == IF e[i].kind = "pointer" THEN Append(x, i) ELSE x
           F == [z \in (1 .. d) \X Seq(Nat) |-> Grow(z[1], z[2])]
<1>3. \A n \in 1 .. d : \A x \in Seq(Nat) : Grow(n, x) \in Seq(Nat)
  BY AppendProperties
<1>4. \A n \in 1 .. d : \A x \in Seq(Nat) : F[<<n, x>>] = Grow(n, x)
  <2>. HIDE DEF Grow
  <2>. QED
    OBVIOUS
<1>. HIDE DEF F
<1>5. PICK f : Defines(f, Seq(Nat), <<>>, d, F)
  <2>. HIDE DEF Grow
  <2>1. \A n \in 1 .. d : \A x \in Seq(Nat) : F[<<n, x>>] \in Seq(Nat)
    BY <1>3, <1>4
  <2>2. <<>> \in Seq(Nat)
    BY EmptySeq
  <2>. QED
    BY <1>1, <2>1, <2>2, Recursion
<1>6. f \in [0 .. d -> Seq(Nat)] /\ f[0] = <<>>
  BY <1>5, Zenon DEF Defines
<1>7. \A n \in 1 .. d : f[n - 1] \in Seq(Nat) /\ f[n] = Grow(n, f[n - 1])
  <2>. HIDE DEF Grow
  <2> TAKE n \in 1 .. d
  <2>1. n - 1 \in 0 .. d
    BY <1>1
  <2>2. f[n - 1] \in Seq(Nat)
    BY <1>6, <2>1
  <2>3. f[n] = F[<<n, f[n - 1]>>]
    BY <1>5, Zenon DEF Defines
  <2>. QED
    BY <1>4, <2>2, <2>3
<1>. HIDE DEF Grow
<1> DEFINE h == [i \in 0 .. d |-> IF i = 0 THEN <<>> ELSE Grow(i, f[i - 1])]
<1>8. f = h
  <2>1. ASSUME NEW i \in 0 .. d PROVE f[i] = h[i]
    <3>1. i = 0 \/ i \in 1 .. d
      BY <1>1
    <3>. QED
      BY <1>6, <1>7, <3>1
  <2>2. f = [i \in 0 .. d |-> f[i]] /\ h = [i \in 0 .. d |-> h[i]]
    BY <1>6
  <2>. HIDE DEF h
  <2>. QED
    BY <2>1, <2>2
<1> DEFINE c == CHOOSE x : x = [i \in 0 .. d |-> IF i = 0 THEN <<>> ELSE Grow(i, x[i - 1])]
<1>9. c = [i \in 0 .. d |-> IF i = 0 THEN <<>> ELSE Grow(i, c[i - 1])]
  BY <1>8, Zenon
<1>10. PointersOf(t) = c[d]
  BY <1>2 DEF Grow
<1>. HIDE DEF c
<1> DEFINE k == [i \in 0 .. d |-> IF i = 0 THEN <<>> ELSE Grow(i, c[i - 1])]
<1>11. k[0] = <<>> /\ \A i \in 1 .. d : k[i] = Grow(i, c[i - 1])
  <2>1. 0 \in 0 .. d /\ \A i \in 1 .. d : i \in 0 .. d /\ i # 0
    BY <1>1
  <2>. QED
    BY <2>1
<1>12. c = k
  BY <1>9, Zenon
<1>. HIDE DEF k
<1>13. c[0] = <<>> /\ \A i \in 1 .. d : c[i] = Grow(i, c[i - 1])
  BY <1>11, <1>12, Zenon
<1> DEFINE T == {n \in 0 .. d : c[n] \in Seq(Nat) /\ ListsPointers(c[n], e, n)}
<1>14. 0 \in T
  <2>1. <<>> \in Seq(Nat)
    BY EmptySeq
  <2>2. ListsPointers(<<>>, e, 0)
    BY DEF ListsPointers
  <2>3. c[0] \in Seq(Nat) /\ ListsPointers(c[0], e, 0)
    BY <1>13, <2>1, <2>2, Zenon
  <2>. QED
    BY <1>1, <2>3
<1>15. ASSUME NEW n \in 1 .. d, n - 1 \in T PROVE n \in T
  <2>1. c[n - 1] \in Seq(Nat) /\ ListsPointers(c[n - 1], e, n - 1)
    BY <1>15
  <2>2. c[n] = Grow(n, c[n - 1])
    BY <1>13
  <2>3. n \in Nat \ {0} /\ n \in 0 .. d
    BY <1>1
  <2>4. CASE e[n].kind = "pointer"
    <3>1. c[n] = Append(c[n - 1], n)
      BY <2>2, <2>4 DEF Grow
    <3>2. c[n] \in Seq(Nat)
      BY <2>1, <2>3, <3>1, AppendProperties
    <3>3. ListsPointers(c[n], e, n)
      BY <2>1, <2>3, <2>4, <3>1, OneMorePointer
    <3>. QED
      BY <2>3, <3>2, <3>3
  <2>5. CASE e[n].kind # "pointer"
    <3>1. c[n] = c[n - 1]
      BY <2>2, <2>5 DEF Grow
    <3>2. 1 .. n - 1 \subseteq 1 .. n
      BY <2>3
    <3>3. ListsPointers(c[n], e, n)
      BY <2>1, <3>1, <3>2 DEF ListsPointers
    <3>. QED
      BY <2>1, <2>3, <3>1, <3>3
  <2>. QED
    BY <2>4, <2>5
<1>16. d \in T
  <2>1. \A n \in 1 .. d : n - 1 \in T => n \in T
    BY <1>15
  <2>2. \A n \in 0 .. d : n \in T
    <3>. HIDE DEF T
    <3>. QED
      BY <1>1, <1>14, <2>1, UpTo
  <2>. QED
    BY <1>1, <2>2
<1>17. PointersOf(t) \in Seq(Nat) /\ ListsPointers(PointersOf(t), e, d)
  BY <1>10, <1>16
<1>. QED
  BY <1>17 DEF e, d

\* The type of a node is found by following its path from the root.
TypesAlong(f, t, p, l) == /\ f[0] = t
                          /\ \A n \in 1 .. l : f[n] = Struct[f[n - 1]][p[n]].type

LEMMA TypeIs ==
  ASSUME NEW t, NEW p, NEW l \in Nat, l = Len(p)
  PROVE  \E f : TypeAt(t, p) = f[l] /\ TypesAlong(f, t, p, l)
<1> DEFINE Q(f, d) == /\ f = [n \in 0 .. d |-> f[n]]
                      /\ f[0] = t
                      /\ \A n \in 1 .. d : f[n] = Struct[f[n - 1]][p[n]].type
           T == {d \in 0 .. l : \E f : Q(f, d)}
<1>1. 0 \in T
  <2> DEFINE f == [n \in 0 .. 0 |-> t]
  <2>1. Q(f, 0)
    OBVIOUS
  <2>. HIDE DEF Q
  <2>. QED
    BY <2>1
<1>2. ASSUME NEW d \in 1 .. l, d - 1 \in T PROVE d \in T
  <2>1. PICK f : Q(f, d - 1)
    BY <1>2
  <2> DEFINE g == [n \in 0 .. d |-> IF n = d THEN Struct[f[d - 1]][p[d]].type ELSE f[n]]
  <2>2. \A n \in 0 .. d - 1 : g[n] = f[n]
    OBVIOUS
  <2>3. g[d] = Struct[f[d - 1]][p[d]].type
    OBVIOUS
  <2>4. g = [n \in 0 .. d |-> g[n]]
    OBVIOUS
  <2>. HIDE DEF g
  <2>5. \A n \in 1 .. d : g[n] = Struct[g[n - 1]][p[n]].type
    <3>1. ASSUME NEW n \in 1 .. d - 1 PROVE g[n] = Struct[g[n - 1]][p[n]].type
      <4>1. n \in 0 .. d - 1 /\ n - 1 \in 0 .. d - 1
        OBVIOUS
      <4>2. g[n] = f[n] /\ g[n - 1] = f[n - 1]
        BY <2>2, <4>1
      <4>3. f[n] = Struct[f[n - 1]][p[n]].type
        BY <2>1, Zenon
      <4>. QED
        BY <4>2, <4>3
    <3>2. g[d] = Struct[g[d - 1]][p[d]].type
      BY <2>2, <2>3
    <3>3. \A n \in 1 .. d : n \in 1 .. d - 1 \/ n = d
      OBVIOUS
    <3>. QED
      BY <3>1, <3>2, <3>3
  <2>6. g[0] = t
    <3>1. f[0] = t
      BY <2>1, Zenon
    <3>. QED
      BY <2>2, <3>1
  <2>7. Q(g, d)
    BY <2>4, <2>5, <2>6, Zenon
  <2>. HIDE DEF Q
  <2>. QED
    BY <2>7
<1>3. l \in T
  <2>1. \A d \in 1 .. l : d - 1 \in T => d \in T
    BY <1>2
  <2>2. \A d \in 0 .. l : d \in T
    <3>. HIDE DEF T
    <3>. QED
      BY <1>1, <2>1, UpTo
  <2>3. l \in 0 .. l
    OBVIOUS
  <2>. HIDE DEF T
  <2>. QED
    BY <2>2, <2>3
<1>4. PICK f : Q(f, l)
  <2>. HIDE DEF Q
  <2>. QED
    BY <1>3
<1>5. f[0] = t /\ \A n \in 1 .. l : f[n] = Struct[f[n - 1]][p[n]].type
  BY <1>4, Zenon
<1> DEFINE h == [n \in 0 .. l |-> IF n = 0 THEN t ELSE Struct[f[n - 1]][p[n]].type]
<1>6. f = h
  <2>1. \A n \in 0 .. l : h[n] = f[n]
    BY <1>5
  <2>2. h = [n \in 0 .. l |-> h[n]]
    OBVIOUS
  <2>3. f = [n \in 0 .. l |-> f[n]]
    BY <1>4, Zenon
  <2>. HIDE DEF h
  <2>. QED
    BY <2>1, <2>2, <2>3
<1> DEFINE c == CHOOSE x : x = [n \in 0 .. l |-> IF n = 0 THEN t ELSE Struct[x[n - 1]][p[n]].type]
<1>7. c = [n \in 0 .. l |-> IF n = 0 THEN t ELSE Struct[c[n - 1]][p[n]].type]
  BY <1>6, Zenon
<1>8. TypeAt(t, p) = c[l]
  BY DEF TypeAt
<1>. HIDE DEF c
<1> DEFINE k == [n \in 0 .. l |-> IF n = 0 THEN t ELSE Struct[c[n - 1]][p[n]].type]
<1>9. k[0] = t /\ \A n \in 1 .. l : k[n] = Struct[c[n - 1]][p[n]].type
  <2>1. 0 \in 0 .. l /\ \A n \in 1 .. l : n \in 0 .. l /\ n # 0
    OBVIOUS
  <2>. QED
    BY <2>1
<1>10. c = k
  BY <1>7, Zenon
<1>. HIDE DEF k
<1>11. TypesAlong(c, t, p, l)
  BY <1>9, <1>10, Zenon DEF TypesAlong
<1>. QED
  BY <1>8, <1>11, Zenon

LEMMA RootType ==
  ASSUME NEW t
  PROVE  TypeAt(t, <<>>) = t
<1>1. 0 \in Nat /\ 0 = Len(<<>>)
  OBVIOUS
<1>2. PICK f : TypeAt(t, <<>>) = f[0] /\ TypesAlong(f, t, <<>>, 0)
  BY <1>1, TypeIs, Zenon
<1>. QED
  BY <1>2, Zenon DEF TypesAlong

LEMMA ChildType ==
  ASSUME NEW t, NEW p \in Seq(Nat), NEW i \in Nat
  PROVE  TypeAt(t, Append(p, i)) = Struct[TypeAt(t, p)][i].type
<1> DEFINE l == Len(p)
           q == Append(p, i)
<1>1. l \in Nat /\ l = Len(p) /\ Len(q) = l + 1 /\ q[l + 1] = i /\ \A n \in 1 .. l : q[n] = p[n]
  BY AppendProperties
<1>. HIDE DEF l, q
<1>2. PICK f : TypeAt(t, p) = f[l] /\ TypesAlong(f, t, p, l)
  BY <1>1, TypeIs
<1>3. PICK g : TypeAt(t, q) = g[l + 1] /\ TypesAlong(g, t, q, l + 1)
  <2>1. l + 1 \in Nat /\ l + 1 = Len(q)
    BY <1>1
  <2>. QED
    BY <2>1, TypeIs
<1> DEFINE T == {n \in 0 .. l : f[n] = g[n]}
<1>4. 0 \in T
  <2>1. f[0] = g[0]
    BY <1>2, <1>3, Zenon DEF TypesAlong
  <2>. QED
    BY <1>1, <2>1
<1>5. ASSUME NEW n \in 1 .. l, n - 1 \in T PROVE n \in T
  <2>1. f[n] = Struct[f[n - 1]][p[n]].type
    BY <1>2, Zenon DEF TypesAlong
  <2>2. n \in 1 .. l + 1 /\ n \in 0 .. l
    BY <1>1
  <2>3. g[n] = Struct[g[n - 1]][q[n]].type
    BY <1>3, <2>2, Zenon DEF TypesAlong
  <2>4. f[n - 1] = g[n - 1] /\ p[n] = q[n]
    BY <1>1, <1>5
  <2>5. f[n] = g[n]
    BY <2>1, <2>3, <2>4, Zenon
  <2>. QED
    BY <2>2, <2>5
<1>6. l \in T
  <2>1. \A n \in 1 .. l : n - 1 \in T => n \in T
    BY <1>5
  <2>2. l \in 0 .. l
    BY <1>1
  <2>. HIDE DEF T
  <2>3. \A n \in 0 .. l : n \in T
    BY <1>1, <1>4, <2>1, UpTo
  <2>. QED
    BY <2>2, <2>3
<1>7. g[l + 1] = Struct[g[l]][i].type
  <2>1. l + 1 \in 1 .. l + 1 /\ (l + 1) - 1 = l
    BY <1>1
  <2>2. g[l + 1] = Struct[g[(l + 1) - 1]][q[l + 1]].type
    BY <1>3, <2>1, Zenon DEF TypesAlong
  <2>. QED
    BY <1>1, <2>1, <2>2
<1>8. TypeAt(t, q) = Struct[TypeAt(t, p)][i].type
  BY <1>2, <1>3, <1>6, <1>7
<1>. QED
  BY <1>8 DEF q

--------------------------------------------------------------------------------
(* The nodes of a level *)

LEMMA FrontAndLast ==
  ASSUME NEW p \in Seq(Nat), NEW a \in Nat
  PROVE  Front(Append(p, a)) = p /\ Last(Append(p, a)) = a
<1> DEFINE q == Append(p, a)
           l == Len(p)
<1>1. q \in Seq(Nat) /\ l \in Nat /\ Len(q) = l + 1 /\ q[l + 1] = a /\ \A n \in 1 .. l : q[n] = p[n]
  BY AppendProperties
<1>2. (l + 1) - 1 = l
  BY <1>1
<1>3. SubSeq(q, 1, l) = p
  <2>1. \A n \in 1 .. l : q[n] \in Nat
    BY <1>1
  <2>. HIDE DEF q
  <2>2. SubSeq(q, 1, l) \in Seq(Nat) /\ Len(SubSeq(q, 1, l)) = l
        /\ \A n \in 1 .. l : SubSeq(q, 1, l)[n] = q[n]
    BY <1>1, <2>1, SubSeqProperties
  <2>. QED
    BY <1>1, <2>2, SeqEqual
<1>. HIDE DEF q, l
<1>4. Front(q) = p /\ Last(q) = a
  BY <1>1, <1>2, <1>3 DEF Front, Last
<1>. QED
  BY <1>4 DEF q

LEMMA PointerField ==
  ASSUME NEW x, NEW m \in DOMAIN PointersOf(x)
  PROVE  /\ x \in DOMAIN Struct
         /\ PointersOf(x)[m] \in Nat
         /\ PointersOf(x)[m] \in DOMAIN Struct[x]
         /\ Struct[x][PointersOf(x)[m]].type \in Types
         /\ FieldSize(Struct[x][PointersOf(x)[m]]) = PointerSize
         /\ Declared(Struct[x][PointersOf(x)[m]])
<1>1. /\ PointersOf(x)[m] \in 1 .. Len(FieldsOf(x))
      /\ FieldsOf(x)[PointersOf(x)[m]].kind = "pointer"
  BY PointersAre, Zenon DEF ListsPointers
<1>2. x \in DOMAIN Struct
  <2>. SUFFICES ASSUME x \notin DOMAIN Struct PROVE FALSE
    OBVIOUS
  <2>1. Len(FieldsOf(x)) = 0
    BY DEF FieldsOf, Aggregate
  <2>. QED
    BY <1>1, <2>1
<1>3. PointersOf(x)[m] \in DOMAIN Struct[x] /\ Struct[x][PointersOf(x)[m]].kind = "pointer"
  BY <1>1, <1>2, Member
<1>4. PointersOf(x)[m] \in Nat
  BY <1>1
<1>5. Declared(Struct[x][PointersOf(x)[m]])
  BY <1>3 DEF Declared
<1>. QED
  BY <1>2, <1>3, <1>4, <1>5, Member, Zenon

LEMMA ChildrenAre ==
  ASSUME NEW t, NEW p \in Seq(Nat)
  PROVE  /\ Children(t, p) \in Seq(Seq(Nat))
         /\ DOMAIN Children(t, p) = DOMAIN PointersOf(TypeAt(t, p))
         /\ \A m \in DOMAIN Children(t, p) :
              Children(t, p)[m] = Append(p, PointersOf(TypeAt(t, p))[m])
<1> DEFINE q == PointersOf(TypeAt(t, p))
           l == Len(q)
           c == [m \in DOMAIN q |-> Append(p, q[m])]
<1>1. q \in Seq(Nat)
  BY PointersAre
<1>. HIDE DEF q
<1>2. l \in Nat /\ DOMAIN q = 1 .. l /\ \A m \in 1 .. l : q[m] \in Nat
  BY <1>1
<1>3. \A m \in 1 .. l : Append(p, q[m]) \in Seq(Nat)
  BY <1>2, AppendProperties
<1>. HIDE DEF l
<1>4. c \in [1 .. l -> Seq(Nat)]
  BY <1>2, <1>3
<1>5. c \in Seq(Seq(Nat))
  BY <1>2, <1>4, SeqDef
<1>6. DOMAIN c = DOMAIN q /\ \A m \in DOMAIN c : c[m] = Append(p, q[m])
  OBVIOUS
<1>7. Children(t, p) = c
  BY DEF Children, q
<1>. HIDE DEF c
<1>8. /\ Children(t, p) \in Seq(Seq(Nat))
      /\ DOMAIN Children(t, p) = DOMAIN q
      /\ \A m \in DOMAIN Children(t, p) : Children(t, p)[m] = Append(p, q[m])
  BY <1>5, <1>6, <1>7, Zenon
<1>. QED
  BY <1>8 DEF q

\* The children of all nodes of a level.
Below(t, s) == [j \in DOMAIN s |-> Children(t, s[j])]

LEMMA BelowIs ==
  ASSUME NEW t, NEW s \in Seq(Seq(Nat))
  PROVE  /\ Below(t, s) \in Seq(Seq(Seq(Nat)))
         /\ DOMAIN Below(t, s) = DOMAIN s
         /\ Len(Below(t, s)) = Len(s)
         /\ FlattenSeq(Below(t, s)) \in Seq(Seq(Nat))
<1> DEFINE l == Len(s)
           b == Below(t, s)
<1>1. l \in Nat /\ DOMAIN s = 1 .. l /\ \A j \in 1 .. l : s[j] \in Seq(Nat)
  OBVIOUS
<1>2. \A j \in 1 .. l : Children(t, s[j]) \in Seq(Seq(Nat))
  BY <1>1, ChildrenAre
<1>3. b \in [1 .. l -> Seq(Seq(Nat))]
  <2>. HIDE DEF l
  <2>. QED
    BY <1>1, <1>2 DEF Below
<1>4. b \in Seq(Seq(Seq(Nat)))
  <2>. HIDE DEF l, b
  <2>. QED
    BY <1>1, <1>3, SeqDef
<1>5. DOMAIN b = DOMAIN s /\ Len(b) = Len(s)
  <2>1. DOMAIN b = 1 .. l
    <3>. HIDE DEF l, b
    <3>. QED
      BY <1>3
  <2>2. Len(b) \in Nat /\ DOMAIN b = 1 .. Len(b)
    BY <1>4, LenProperties, Zenon
  <2>. QED
    BY <1>1, <2>1, <2>2
<1>6. FlattenSeq(b) \in Seq(Seq(Nat))
  BY <1>4, FlattenPlaces, Zenon
<1>. QED
  BY <1>4, <1>5, <1>6, Zenon

LEMMA LevelsAre ==
  ASSUME NEW t \in Roots, NEW d \in Nat, d = Depth[t]
  PROVE  /\ Levels[t] \in [0 .. d -> Seq(Seq(Nat))]
         /\ Levels[t][0] = << <<>> >>
         /\ \A n \in 1 .. d : Levels[t][n] = FlattenSeq(Below(t, Levels[t][n - 1]))
<1> DEFINE F == [z \in (1 .. d) \X Seq(Seq(Nat)) |-> FlattenSeq(Below(t, z[2]))]
<1>1. \A n \in 1 .. d : \A x \in Seq(Seq(Nat)) : FlattenSeq(Below(t, x)) \in Seq(Seq(Nat))
  BY BelowIs
<1>2. \A n \in 1 .. d : \A x \in Seq(Seq(Nat)) : F[<<n, x>>] = FlattenSeq(Below(t, x))
  OBVIOUS
<1>. HIDE DEF F
<1>3. PICK f : Defines(f, Seq(Seq(Nat)), << <<>> >>, d, F)
  <2>1. \A n \in 1 .. d : \A x \in Seq(Seq(Nat)) : F[<<n, x>>] \in Seq(Seq(Nat))
    BY <1>1, <1>2
  <2>2. << <<>> >> \in Seq(Seq(Nat))
    OBVIOUS
  <2>. QED
    BY <2>1, <2>2, Recursion
<1>4. f \in [0 .. d -> Seq(Seq(Nat))] /\ f[0] = << <<>> >>
  BY <1>3, Zenon DEF Defines
<1>5. \A n \in 1 .. d : f[n - 1] \in Seq(Seq(Nat)) /\ f[n] = FlattenSeq(Below(t, f[n - 1]))
  <2> TAKE n \in 1 .. d
  <2>1. n - 1 \in 0 .. d
    OBVIOUS
  <2>2. f[n - 1] \in Seq(Seq(Nat))
    BY <1>4, <2>1
  <2>3. f[n] = F[<<n, f[n - 1]>>]
    BY <1>3, Zenon DEF Defines
  <2>. QED
    BY <1>2, <2>2, <2>3
<1> DEFINE Step(x) == [n \in 0 .. d |-> IF n = 0 THEN << <<>> >>
                                      ELSE FlattenSeq([j \in DOMAIN x[n - 1] |-> Children(t, x[n - 1][j])])]
           c == CHOOSE x : x = Step(x)
<1>6. Levels[t] = c
  BY DEF Levels
<1>. HIDE DEF c
<1>7. ASSUME NEW x
      PROVE  Step(x) = [n \in 0 .. d |-> IF n = 0 THEN << <<>> >> ELSE FlattenSeq(Below(t, x[n - 1]))]
  BY Zenon DEF Below
<1>. HIDE DEF Step
<1> DEFINE h == [n \in 0 .. d |-> IF n = 0 THEN << <<>> >> ELSE FlattenSeq(Below(t, f[n - 1]))]
<1>8. f = h
  <2>1. ASSUME NEW i \in 0 .. d PROVE f[i] = h[i]
    <3>1. i = 0 \/ i \in 1 .. d
      OBVIOUS
    <3>. QED
      BY <1>4, <1>5, <3>1
  <2>2. f = [i \in 0 .. d |-> f[i]] /\ h = [i \in 0 .. d |-> h[i]]
    BY <1>4
  <2>. HIDE DEF h
  <2>. QED
    BY <2>1, <2>2
<1>9. f = Step(f)
  BY <1>7, <1>8, Zenon
<1>10. c = Step(c)
  BY <1>9, Zenon DEF c
<1> DEFINE k == [n \in 0 .. d |-> IF n = 0 THEN << <<>> >> ELSE FlattenSeq(Below(t, c[n - 1]))]
<1>11. c = k
  BY <1>7, <1>10, Zenon
<1>12. k = [n \in 0 .. d |-> k[n]] /\ k[0] = << <<>> >>
       /\ \A n \in 1 .. d : k[n] = FlattenSeq(Below(t, c[n - 1]))
  <2>1. 0 \in 0 .. d /\ \A n \in 1 .. d : n \in 0 .. d /\ n # 0
    OBVIOUS
  <2>. QED
    BY <2>1
<1>. HIDE DEF k
<1>13. c[0] = << <<>> >> /\ \A n \in 1 .. d : c[n] = FlattenSeq(Below(t, c[n - 1]))
  BY <1>11, <1>12, Zenon
<1> DEFINE T == {n \in 0 .. d : c[n] = f[n]}
<1>14. \A n \in 0 .. d : n \in T
  <2>1. 0 \in T
    <3>1. c[0] = f[0]
      BY <1>4, <1>13, Zenon
    <3>. QED
      BY <3>1
  <2>2. ASSUME NEW n \in 1 .. d, n - 1 \in T PROVE n \in T
    <3>1. c[n - 1] = f[n - 1]
      BY <2>2
    <3>2. c[n] = f[n]
      BY <1>5, <1>13, <3>1, Zenon
    <3>. QED
      BY <3>2
  <2>3. \A n \in 1 .. d : n - 1 \in T => n \in T
    BY <2>2
  <2>. HIDE DEF T
  <2>. QED
    BY <2>1, <2>3, UpTo
<1>15. c \in [0 .. d -> Seq(Seq(Nat))]
  <2>1. \A n \in 0 .. d : c[n] \in Seq(Seq(Nat))
    BY <1>4, <1>14
  <2>2. c = [n \in 0 .. d |-> c[n]]
    BY <1>11, <1>12, Zenon
  <2>. QED
    BY <2>1, <2>2, Zenon
<1>. QED
  BY <1>6, <1>13, <1>15, Zenon

\* Node i of level n is child m of node j of the level above.
ChildAt(t, n, i, j, m) ==
    LET q == Levels[t][n - 1][j]
    IN  /\ j \in DOMAIN Levels[t][n - 1]
        /\ m \in DOMAIN PointersOf(TypeAt(t, q))
        /\ Levels[t][n][i] = Append(q, PointersOf(TypeAt(t, q))[m])

Lineage(t, n, row, col) ==
    /\ \A i \in DOMAIN Levels[t][n] : ChildAt(t, n, i, row[i], col[i])
    /\ \A i, k \in DOMAIN Levels[t][n] : row[i] = row[k] /\ col[i] = col[k] => i = k

LEMMA ParentsAre ==
  ASSUME NEW t \in Roots, NEW n \in 1 .. Depth[t]
  PROVE  \E row, col : Lineage(t, n, row, col)
<1> DEFINE up == Levels[t][n - 1]
           b == Below(t, up)
<1>1. Depth[t] \in Nat
  BY RootsAreDeep
<1>2. n - 1 \in 0 .. Depth[t]
  BY <1>1
<1>3. up \in Seq(Seq(Nat)) /\ Levels[t][n] = FlattenSeq(b)
  BY <1>1, <1>2, LevelsAre
<1>. HIDE DEF up
<1>4. b \in Seq(Seq(Seq(Nat))) /\ DOMAIN b = DOMAIN up
  BY <1>3, BelowIs
<1>5. PICK row, col : Places(FlattenSeq(b), b, Len(b), row, col)
  BY <1>4, FlattenPlaces
<1>6. ASSUME NEW i \in DOMAIN Levels[t][n] PROVE ChildAt(t, n, i, row[i], col[i])
  <2>1. /\ row[i] \in 1 .. Len(b)
        /\ col[i] \in DOMAIN b[row[i]]
        /\ Levels[t][n][i] = b[row[i]][col[i]]
    BY <1>3, <1>5, Zenon DEF Places
  <2>2. row[i] \in DOMAIN up
    <3>1. DOMAIN b = 1 .. Len(b)
      BY <1>4, LenProperties, Zenon
    <3>. QED
      BY <1>4, <2>1, <3>1, Zenon
  <2>3. b[row[i]] = Children(t, up[row[i]])
    BY <2>2 DEF Below
  <2>4. up[row[i]] \in Seq(Nat)
    BY <1>3, <2>2, ElementOfSeq, LenProperties
  <2>5. /\ col[i] \in DOMAIN PointersOf(TypeAt(t, up[row[i]]))
        /\ b[row[i]][col[i]] = Append(up[row[i]], PointersOf(TypeAt(t, up[row[i]]))[col[i]])
    <3> DEFINE p == up[row[i]]
    <3>1. p \in Seq(Nat) /\ b[row[i]] = Children(t, p)
      BY <2>3, <2>4
    <3>. HIDE DEF p
    <3>2. /\ DOMAIN Children(t, p) = DOMAIN PointersOf(TypeAt(t, p))
          /\ \A m \in DOMAIN Children(t, p) :
               Children(t, p)[m] = Append(p, PointersOf(TypeAt(t, p))[m])
      BY <3>1, ChildrenAre, Zenon
    <3>3. col[i] \in DOMAIN Children(t, p)
      BY <2>1, <3>1, Zenon
    <3>4. /\ col[i] \in DOMAIN PointersOf(TypeAt(t, p))
          /\ b[row[i]][col[i]] = Append(p, PointersOf(TypeAt(t, p))[col[i]])
      BY <3>1, <3>2, <3>3, Zenon
    <3>. QED
      BY <3>4 DEF p
  <2>. QED
    BY <2>1, <2>2, <2>5, Zenon DEF ChildAt, up
<1>7. \A i, k \in DOMAIN Levels[t][n] : row[i] = row[k] /\ col[i] = col[k] => i = k
  BY <1>3, <1>5, Zenon DEF Places
<1>8. Lineage(t, n, row, col)
  BY <1>6, <1>7, Zenon DEF Lineage
<1>. QED
  BY <1>8

\* The nodes of level n are different paths of length n that lead to types.
GoodLevel(t, n) ==
    /\ \A i \in DOMAIN Levels[t][n] : /\ Levels[t][n][i] \in Seq(Nat)
                                      /\ Len(Levels[t][n][i]) = n
                                      /\ TypeAt(t, Levels[t][n][i]) \in Types
    /\ \A i, k \in DOMAIN Levels[t][n] : Levels[t][n][i] = Levels[t][n][k] => i = k

LEMMA LevelIsGood ==
  ASSUME NEW t \in Roots, NEW n \in 0 .. Depth[t]
  PROVE  GoodLevel(t, n)
<1> DEFINE T == {m \in 0 .. Depth[t] : GoodLevel(t, m)}
<1>1. Depth[t] \in Nat /\ 0 \in 0 .. Depth[t]
  BY RootsAreDeep
<1>2. 0 \in T
  <2> DEFINE s == Levels[t][0]
  <2>1. s = << <<>> >>
    BY <1>1, LevelsAre
  <2>2. DOMAIN s = {1} /\ s[1] = <<>>
    BY <2>1
  <2>3. TypeAt(t, <<>>) \in Types
    BY RootType, RootsValidated DEF Types, Aggregate
  <2>4. <<>> \in Seq(Nat) /\ Len(<<>>) = 0
    BY EmptySeq
  <2>. HIDE DEF s
  <2>5. \A i \in DOMAIN s : s[i] \in Seq(Nat) /\ Len(s[i]) = 0 /\ TypeAt(t, s[i]) \in Types
    <3> TAKE i \in DOMAIN s
    <3>1. s[i] = <<>>
      BY <2>2
    <3>. QED
      BY <2>3, <2>4, <3>1, Zenon
  <2>6. \A i, k \in DOMAIN s : s[i] = s[k] => i = k
    BY <2>2
  <2>7. GoodLevel(t, 0)
    BY <2>5, <2>6, Zenon DEF GoodLevel, s
  <2>. QED
    BY <1>1, <2>7
<1>3. ASSUME NEW m \in 1 .. Depth[t], m - 1 \in T PROVE m \in T
  <2>1. GoodLevel(t, m - 1)
    BY <1>3
  <2>2. PICK row, col : Lineage(t, m, row, col)
    BY ParentsAre
  <2> DEFINE s == Levels[t][m]
             up == Levels[t][m - 1]
             ptr(i) == PointersOf(TypeAt(t, up[row[i]]))
  <2>3. ASSUME NEW i \in DOMAIN s
        PROVE  /\ row[i] \in DOMAIN up
               /\ col[i] \in DOMAIN ptr(i)
               /\ s[i] = Append(up[row[i]], ptr(i)[col[i]])
    BY <2>2, Zenon DEF ChildAt, Lineage
  <2>4. ASSUME NEW i \in DOMAIN s
        PROVE  /\ up[row[i]] \in Seq(Nat) /\ Len(up[row[i]]) = m - 1
               /\ ptr(i)[col[i]] \in Nat
               /\ Struct[TypeAt(t, up[row[i]])][ptr(i)[col[i]]].type \in Types
    <3>1. up[row[i]] \in Seq(Nat) /\ Len(up[row[i]]) = m - 1
      BY <2>1, <2>3, Zenon DEF GoodLevel
    <3>. QED
      BY <2>3, <3>1, PointerField, Zenon
  <2>5. ASSUME NEW i \in DOMAIN s
        PROVE  s[i] \in Seq(Nat) /\ Len(s[i]) = m /\ TypeAt(t, s[i]) \in Types
    <3> DEFINE q == up[row[i]]
               a == ptr(i)[col[i]]
    <3>1. q \in Seq(Nat) /\ Len(q) = m - 1 /\ a \in Nat /\ s[i] = Append(q, a)
          /\ Struct[TypeAt(t, q)][a].type \in Types
      BY <2>3, <2>4
    <3>. HIDE DEF q, a, s
    <3>2. s[i] \in Seq(Nat) /\ Len(s[i]) = m
      BY <1>1, <3>1, AppendProperties
    <3>3. TypeAt(t, s[i]) \in Types
      BY <3>1, ChildType
    <3>. QED
      BY <3>2, <3>3
  <2>6. ASSUME NEW i \in DOMAIN s, NEW k \in DOMAIN s, s[i] = s[k] PROVE i = k
    <3>1. Append(up[row[i]], ptr(i)[col[i]]) = Append(up[row[k]], ptr(k)[col[k]])
      BY <2>3, <2>6, Zenon
    <3>2. up[row[i]] = up[row[k]] /\ ptr(i)[col[i]] = ptr(k)[col[k]]
      <4>1. /\ Front(Append(up[row[i]], ptr(i)[col[i]])) = up[row[i]]
            /\ Last(Append(up[row[i]], ptr(i)[col[i]])) = ptr(i)[col[i]]
        BY <2>4, FrontAndLast
      <4>2. /\ Front(Append(up[row[k]], ptr(k)[col[k]])) = up[row[k]]
            /\ Last(Append(up[row[k]], ptr(k)[col[k]])) = ptr(k)[col[k]]
        BY <2>4, FrontAndLast
      <4>. QED
        BY <3>1, <4>1, <4>2, Zenon
    <3>3. row[i] = row[k]
      BY <2>1, <2>3, <3>2, Zenon DEF GoodLevel
    <3>4. col[i] \in DOMAIN ptr(i) /\ col[k] \in DOMAIN ptr(i) /\ ptr(i)[col[i]] = ptr(i)[col[k]]
      BY <2>3, <3>2, <3>3, Zenon
    <3>5. col[i] = col[k]
      BY <3>4, PointersAre, Zenon DEF ListsPointers
    <3>. QED
      BY <2>2, <3>3, <3>5, Zenon DEF Lineage
  <2>7. GoodLevel(t, m)
    BY <2>5, <2>6, Zenon DEF GoodLevel
  <2>. QED
    BY <1>1, <2>7
<1>4. \A m \in 1 .. Depth[t] : m - 1 \in T => m \in T
  BY <1>3
<1>. HIDE DEF T
<1>5. \A m \in 0 .. Depth[t] : m \in T
  BY <1>1, <1>2, <1>4, UpTo
<1>. QED
  BY <1>5 DEF T

--------------------------------------------------------------------------------
(* The fields of a tree *)

\* Field i of node j of level n.
IsField(t, k, n, j, i) == /\ n \in 0 .. Depth[t]
                          /\ j \in DOMAIN Levels[t][n]
                          /\ i \in Indices(TypeAt(t, Levels[t][n][j]))
                          /\ k = <<Levels[t][n][j], i>>

LEMMA FieldsAre ==
  ASSUME NEW t \in Roots
  PROVE  /\ \A k : k \in DOMAIN Sizes[t] <=> \E n, j, i : IsField(t, k, n, j, i)
         /\ \A k \in DOMAIN Sizes[t] : Sizes[t][k] = SizeAt(TypeAt(t, k[1]), k[2])
<1> DEFINE nodes == UNION {Range(Levels[t][n]) : n \in 0 .. Depth[t]}
           fields == UNION {{<<p, i>> : i \in Indices(TypeAt(t, p))} : p \in nodes}
<1>1. Sizes[t] = [k \in fields |-> SizeAt(TypeAt(t, k[1]), k[2])]
  BY DEF Sizes
<1>2. \A p : p \in nodes <=> \E n \in 0 .. Depth[t] : \E j \in DOMAIN Levels[t][n] : p = Levels[t][n][j]
  BY DEF Range
<1>. HIDE DEF nodes
<1>3. \A k : k \in fields <=> \E p \in nodes : \E i \in Indices(TypeAt(t, p)) : k = <<p, i>>
  OBVIOUS
<1>. HIDE DEF fields
<1>4. DOMAIN Sizes[t] = fields
  BY <1>1
<1>5. \A k \in fields : Sizes[t][k] = SizeAt(TypeAt(t, k[1]), k[2])
  BY <1>1
<1>6. ASSUME NEW k, NEW n, NEW j, NEW i, IsField(t, k, n, j, i) PROVE k \in fields
  BY <1>2, <1>3, <1>6, Zenon DEF IsField
<1>7. ASSUME NEW k \in fields PROVE \E n, j, i : IsField(t, k, n, j, i)
  <2>0. PICK p \in nodes : \E i \in Indices(TypeAt(t, p)) : k = <<p, i>>
    BY <1>3, <1>7, Zenon
  <2>1. PICK i \in Indices(TypeAt(t, p)) : k = <<p, i>>
    BY <2>0, Zenon
  <2>2. PICK n \in 0 .. Depth[t] : \E j \in DOMAIN Levels[t][n] : p = Levels[t][n][j]
    BY <1>2, <2>0, Zenon
  <2>3. PICK j \in DOMAIN Levels[t][n] : p = Levels[t][n][j]
    BY <2>2, Zenon
  <2>4. IsField(t, k, n, j, i)
    BY <2>1, <2>2, <2>3, Zenon DEF IsField
  <2>. QED
    BY <2>4, Zenon
<1>. QED
  BY <1>4, <1>5, <1>6, <1>7, Zenon

\* The index of a field, and its size, are numbers.
LEMMA FieldNumbers ==
  ASSUME NEW x \in Types, NEW i \in Indices(x)
  PROVE  /\ i \in Nat
         /\ SizeAt(x, i) \in Nat
         /\ i # 0 <=> x \in DOMAIN Struct
         /\ x \in DOMAIN Struct => i \in DOMAIN Struct[x] /\ SizeAt(x, i) = FieldSize(Struct[x][i])
<1>1. CASE x \in DOMAIN Struct
  <2>1. Indices(x) = DOMAIN Struct[x]
    BY <1>1 DEF Indices, Aggregate
  <2>2. DOMAIN Struct[x] = 1 .. Len(Struct[x]) /\ Len(Struct[x]) \in Nat /\ FieldSize(Struct[x][i]) \in Nat
    BY <1>1, <2>1, Member
  <2>3. i \in Nat /\ i # 0
    BY <2>1, <2>2
  <2>. QED
    BY <1>1, <2>1, <2>2, <2>3 DEF SizeAt
<1>2. CASE x \notin DOMAIN Struct
  <2>1. i = 0 /\ x \in DOMAIN SizeOf
    BY <1>2 DEF Indices, Aggregate, Types
  <2>2. SizeOf[x] \in Nat
    BY <2>1, MembersHaveKinds
  <2>. QED
    BY <1>2, <2>1, <2>2 DEF SizeAt
<1>. QED
  BY <1>1, <1>2

LEMMA FieldIs ==
  ASSUME NEW t \in Roots, NEW k, NEW n, NEW j, NEW i, IsField(t, k, n, j, i)
  PROVE  /\ k \in DOMAIN Sizes[t]
         /\ k[1] = Levels[t][n][j] /\ k[2] = i /\ k = <<k[1], k[2]>>
         /\ k[1] \in Seq(Nat) /\ Len(k[1]) = n
         /\ TypeAt(t, k[1]) \in Types
         /\ Sizes[t][k] \in Nat
         /\ i \in Nat
         /\ i # 0 <=> TypeAt(t, k[1]) \in DOMAIN Struct
         /\ i # 0 => /\ i \in DOMAIN Struct[TypeAt(t, k[1])]
                     /\ Sizes[t][k] = FieldSize(Struct[TypeAt(t, k[1])][i])
<1> DEFINE p == Levels[t][n][j]
           x == TypeAt(t, p)
<1>1. k = <<p, i>> /\ i \in Indices(x) /\ n \in 0 .. Depth[t] /\ j \in DOMAIN Levels[t][n]
  BY DEF IsField
<1>2. p \in Seq(Nat) /\ Len(p) = n /\ x \in Types
  BY <1>1, LevelIsGood, Zenon DEF GoodLevel
<1>3. k \in DOMAIN Sizes[t]
  BY FieldsAre, Zenon
<1>. HIDE DEF p
<1>4. k[1] = p /\ k[2] = i
  BY <1>1
<1>5. Sizes[t][k] = SizeAt(x, i)
  BY <1>3, <1>4, FieldsAre, Zenon
<1>6. /\ i \in Nat
      /\ SizeAt(x, i) \in Nat
      /\ i # 0 <=> x \in DOMAIN Struct
      /\ x \in DOMAIN Struct => i \in DOMAIN Struct[x] /\ SizeAt(x, i) = FieldSize(Struct[x][i])
  <2>. HIDE DEF x
  <2>. QED
    BY <1>1, <1>2, FieldNumbers
<1>7. k[1] = Levels[t][n][j]
  BY <1>4 DEF p
<1>. QED
  BY <1>1, <1>2, <1>3, <1>4, <1>5, <1>6, <1>7, Zenon

\* Every field is a field of some level.
LEMMA FieldLevel ==
  ASSUME NEW t \in Roots, NEW k \in DOMAIN Sizes[t]
  PROVE  \E n, j, i : IsField(t, k, n, j, i)
BY FieldsAre, Zenon

\* The pointer to a node is a field of the level above, one word long.
LEMMA PointerIsField ==
  ASSUME NEW t \in Roots, NEW n \in 1 .. Depth[t], NEW j \in DOMAIN Levels[t][n]
  PROVE  LET p == Levels[t][n][j]
             k == <<Front(p), Last(p)>>
         IN  /\ \E r, i : IsField(t, k, n - 1, r, i)
             /\ Sizes[t][k] = PointerSize
             /\ Front(p) \in Seq(Nat) /\ Last(p) \in Nat \ {0}
             /\ p = Append(Front(p), Last(p))
             /\ Len(Front(p)) = n - 1
             /\ Declared(Struct[TypeAt(t, Front(p))][Last(p)])
<1> DEFINE p == Levels[t][n][j]
           k == <<Front(p), Last(p)>>
<1>0. Depth[t] \in Nat /\ n - 1 \in 0 .. Depth[t]
  BY RootsAreDeep
<1>1. PICK row, col : Lineage(t, n, row, col)
  BY ParentsAre
<1> DEFINE q == Levels[t][n - 1][row[j]]
           x == TypeAt(t, q)
           a == PointersOf(x)[col[j]]
<1>2. row[j] \in DOMAIN Levels[t][n - 1] /\ col[j] \in DOMAIN PointersOf(x) /\ p = Append(q, a)
  BY <1>1, Zenon DEF Lineage, ChildAt
<1>3. q \in Seq(Nat) /\ Len(q) = n - 1 /\ x \in Types
  BY <1>0, <1>2, LevelIsGood, Zenon DEF GoodLevel
<1>4. /\ x \in DOMAIN Struct
      /\ a \in Nat
      /\ a \in DOMAIN Struct[x]
      /\ FieldSize(Struct[x][a]) = PointerSize
      /\ Declared(Struct[x][a])
  BY <1>2, PointerField, Zenon
<1>5. Front(p) = q /\ Last(p) = a
  <2>. HIDE DEF q, a
  <2>1. Front(Append(q, a)) = q /\ Last(Append(q, a)) = a
    BY <1>3, <1>4, FrontAndLast
  <2>. QED
    BY <1>2, <2>1, Zenon
<1>6. a \in Indices(x)
  BY <1>4 DEF Indices, Aggregate
<1>7. IsField(t, k, n - 1, row[j], a)
  BY <1>0, <1>2, <1>5, <1>6, Zenon DEF IsField
<1>8. k[1] = q
  BY <1>5
<1>9. a \in Nat \ {0}
  <2>1. a # 0
    BY <1>4, Member
  <2>. QED
    BY <1>4, <2>1
<1>10. Sizes[t][k] = PointerSize
  <2>1. a # 0
    BY <1>9
  <2>2. k[1] = Levels[t][n - 1][row[j]]
    BY <1>8
  <2>. HIDE DEF a, k, q
  <2>3. Sizes[t][k] = FieldSize(Struct[TypeAt(t, k[1])][a])
    BY <1>7, <2>1, FieldIs
  <2>. QED
    BY <1>4, <1>8, <2>3, Zenon
<1>11. Declared(Struct[TypeAt(t, Front(p))][Last(p)])
  BY <1>4, <1>5, Zenon
<1>. QED
  BY <1>2, <1>3, <1>5, <1>7, <1>10, <1>9, <1>11, Zenon

--------------------------------------------------------------------------------
(* The inductive invariant *)

OffsetAt(t, k) == IF k[2] = 0 THEN 0 ELSE Offsets[TypeAt(t, k[1])][k[2]]

\* Where a node's fields are read from: the root's at the address given to read,
\* another's at the pointer that the object holds.
BaseIn(obj, p) == IF p = <<>> THEN RootAddr ELSE obj[<<Front(p), Last(p)>>][1]
AddrIn(t, obj, k) == BaseIn(obj, k[1]) + OffsetAt(t, k)

MemoryInv == /\ DOMAIN mem \subseteq Nat
             /\ mem \in [DOMAIN mem -> Nat]
             /\ Hot \subseteq DOMAIN mem

ObjectInv == /\ object \in [TreeFields -> Seq(Nat)]
             /\ \A k \in TreeFields : Len(object[k]) = Sizes[root][k]

WalkInv == /\ root \in Roots
           /\ level \in -1 .. Depth[root]
           /\ next \in 1 .. Len(regions) + 1
           /\ calls \in 0 .. MaxCalls /\ writes \in 0 .. MaxWrites
           /\ source \in [TreeFields -> Nat \cup {NoAddr}]

\* The regions of a level are the fields of its nodes, each of them once.
FieldsOfLevel(rs, n) ==
    /\ rs \in Seq([to : TreeFields, addr : Nat, size : Nat])
    /\ \A i \in DOMAIN rs : Len(rs[i].to[1]) = n /\ rs[i].size = Sizes[root][rs[i].to]
    /\ \A i, j \in DOMAIN rs : rs[i].to = rs[j].to => i = j
    /\ \A k \in TreeFields : Len(k[1]) = n => \E i \in DOMAIN rs : rs[i].to = k
RegionsInv == IF level = -1 THEN regions = <<>> ELSE FieldsOfLevel(regions, level)

\* What has not been read in this call yet: the deeper levels, and the regions to come.
UnreadInv == /\ \A k \in TreeFields : Len(k[1]) > level => source[k] = NoAddr
             /\ \A i \in DOMAIN regions : i >= next => source[regions[i].to] = NoAddr

ReadableRegion(i) == Readable(regions[i].addr, regions[i].size)
BatchInv ==
    /\ \A i \in DOMAIN regions : i < next =>
          (source[regions[i].to] # NoAddr
             <=> \A j \in 1 .. i : Batch(j) = Batch(i) => ReadableRegion(j))
    /\ next \in DOMAIN regions =>
          \A j \in 1 .. next - 1 : Batch(j) = Batch(next) => ReadableRegion(j)

\* Regions and what has been read are based on the pointers now in the object.
BasedInv == /\ \A i \in DOMAIN regions : regions[i].addr = AddrIn(root, object, regions[i].to)
            /\ \A k \in TreeFields : source[k] # NoAddr => source[k] = AddrIn(root, object, k)

IInv == /\ MemoryInv
        /\ WalkInv
        /\ ObjectInv
        /\ RegionsInv
        /\ UnreadInv
        /\ BatchInv
        /\ BasedInv

--------------------------------------------------------------------------------
(* The regions of a node and of a level *)

RegionSet == [to : TreeFields, addr : Nat, size : Nat]

\* s are the regions of node p, whose struct lies at base.
RegionsOf(s, p, base) ==
    /\ s \in Seq(RegionSet)
    /\ \A m \in DOMAIN s : /\ s[m].to \in TreeFields /\ s[m].to[1] = p
                           /\ s[m].addr = base + OffsetAt(root, s[m].to)
                           /\ s[m].size = Sizes[root][s[m].to]
    /\ \A m, l \in DOMAIN s : s[m].to = s[l].to => m = l
    /\ \A i \in Indices(NodeType(p)) : \E m \in DOMAIN s : s[m].to = <<p, i>>

LEMMA FillIs ==
  ASSUME root \in Roots, NEW n \in 0 .. Depth[root], NEW j \in DOMAIN Levels[root][n],
         NEW base \in Nat
  PROVE  RegionsOf(Fill(Levels[root][n][j], base), Levels[root][n][j], base)
<1> DEFINE p == Levels[root][n][j]
           x == NodeType(p)
           s == Fill(p, base)
           At(i) == IF i = 0 THEN 0 ELSE Offsets[x][i]
           Region(i) == [to |-> <<p, i>>, addr |-> base + At(i), size |-> Sizes[root][<<p, i>>]]
<1>1. ASSUME NEW i \in Indices(x)
      PROVE  /\ <<p, i>> \in TreeFields
             /\ Sizes[root][<<p, i>>] \in Nat
             /\ i \in Nat
             /\ x \in DOMAIN Struct => i # 0 /\ i \in DOMAIN Struct[x]
             /\ i # 0 => x \in DOMAIN Struct
  <2>1. IsField(root, <<p, i>>, n, j, i)
    BY DEF IsField, NodeType
  <2>2. (<<p, i>>)[1] = p
    OBVIOUS
  <2>3. /\ <<p, i>> \in DOMAIN Sizes[root]
        /\ TypeAt(root, (<<p, i>>)[1]) \in Types
        /\ Sizes[root][<<p, i>>] \in Nat
        /\ i \in Nat
        /\ i # 0 <=> TypeAt(root, (<<p, i>>)[1]) \in DOMAIN Struct
        /\ i # 0 => i \in DOMAIN Struct[TypeAt(root, (<<p, i>>)[1])]
    <3>. HIDE DEF p
    <3>. QED
      BY <2>1, FieldIs
  <2>. QED
    BY <2>2, <2>3, Zenon DEF TreeFields, NodeType
<1>2. ASSUME NEW i \in Indices(x)
      PROVE  /\ At(i) \in Nat
             /\ Region(i) \in RegionSet
             /\ Region(i).to = <<p, i>>
             /\ Region(i).addr = base + OffsetAt(root, Region(i).to)
             /\ Region(i).size = Sizes[root][Region(i).to]
  <2>1. At(i) \in Nat
    <3>1. CASE i = 0
      BY <3>1
    <3>2. CASE i # 0
      <4>1. x \in DOMAIN Struct /\ i \in DOMAIN Struct[x]
        BY <1>1, <3>2, Zenon
      <4>. HIDE DEF x
      <4>. QED
        BY <3>2, <4>1, OffsetsAreNumbers
    <3>. QED
      BY <3>1, <3>2
  <2>2. OffsetAt(root, <<p, i>>) = At(i)
    <3>1. (<<p, i>>)[1] = p /\ (<<p, i>>)[2] = i
      <4>. HIDE DEF p
      <4>. QED
        OBVIOUS
    <3>. QED
      BY <3>1, Zenon DEF OffsetAt, NodeType
  <2>3. base + At(i) \in Nat
    <3>. HIDE DEF At
    <3>. QED
      BY <2>1
  <2>4. <<p, i>> \in TreeFields /\ Sizes[root][<<p, i>>] \in Nat
    BY <1>1, Zenon
  <2>. HIDE DEF At, x, p
  <2>. QED
    BY <2>1, <2>2, <2>3, <2>4 DEF RegionSet
<1>3. CASE x \in DOMAIN Struct
  <2>1. Indices(x) = DOMAIN Struct[x] /\ DOMAIN Struct[x] = 1 .. Len(Struct[x]) /\ Len(Struct[x]) \in Nat
    <3>. HIDE DEF x
    <3>. QED
      BY <1>3, Member DEF Indices, Aggregate
  <2>2. s = [i \in DOMAIN Struct[x] |-> Region(i)]
    <3>1. \A i \in DOMAIN Struct[x] : At(i) = Offsets[x][i]
      <4>1. \A i \in DOMAIN Struct[x] : i # 0
        BY <1>1, <1>3, <2>1, Zenon
      <4>. QED
        BY <4>1, Zenon
    <3>2. s = [i \in DOMAIN Struct[x] |->
                 [to |-> <<p, i>>, addr |-> base + Offsets[x][i], size |-> Sizes[root][<<p, i>>]]]
      BY <1>3, Zenon DEF Fill, Aggregate
    <3>. HIDE DEF At, x, p, s
    <3>. QED
      BY <3>1, <3>2
  <2>. HIDE DEF Region, s
  <2>3. \A i \in 1 .. Len(Struct[x]) : Region(i) \in RegionSet
    BY <1>2, <2>1, Zenon
  <2>4. s \in Seq(RegionSet)
    <3> DEFINE l == Len(Struct[x])
    <3>1. l \in Nat /\ s = [i \in 1 .. l |-> Region(i)]
      BY <2>1, <2>2, Zenon
    <3>. HIDE DEF l, x
    <3>2. \A i \in 1 .. l : Region(i) \in RegionSet
      BY <2>3 DEF l
    <3>3. s \in [1 .. l -> RegionSet]
      BY <3>1, <3>2
    <3>. QED
      BY <3>1, <3>3, SeqDef
  <2>5. DOMAIN s = Indices(x) /\ \A m \in DOMAIN s : s[m] = Region(m)
    <3>. HIDE DEF x
    <3>. QED
      BY <2>1, <2>2
  <2>6. ASSUME NEW m \in DOMAIN s
        PROVE  /\ s[m].to \in TreeFields /\ s[m].to = <<p, m>>
               /\ s[m].addr = base + OffsetAt(root, s[m].to)
               /\ s[m].size = Sizes[root][s[m].to]
    BY <1>1, <1>2, <2>5, Zenon
  <2>. HIDE DEF p, x
  <2>7. \A m \in DOMAIN s : s[m].to[1] = p /\ s[m].to[2] = m
    BY <2>6
  <2>8. RegionsOf(s, p, base)
    <3>1. \A i \in Indices(NodeType(p)) : \E m \in DOMAIN s : s[m].to = <<p, i>>
      BY <2>5, <2>6, Zenon DEF x
    <3>2. \A m, l \in DOMAIN s : s[m].to = s[l].to => m = l
      BY <2>7, Zenon
    <3>. QED
      BY <2>4, <2>6, <2>7, <3>1, <3>2, Zenon DEF RegionsOf
  <2>. QED
    BY <2>8 DEF p, s
<1>4. CASE x \notin DOMAIN Struct
  <2>1. Indices(x) = {0}
    <3>. HIDE DEF x
    <3>. QED
      BY <1>4 DEF Indices, Aggregate
  <2>2. s = << [to |-> <<p, 0>>, addr |-> base, size |-> Sizes[root][<<p, 0>>]] >>
    BY <1>4, Zenon DEF Fill, Aggregate
  <2>3. Region(0) = [to |-> <<p, 0>>, addr |-> base, size |-> Sizes[root][<<p, 0>>]]
    <3>1. At(0) = 0 /\ base + At(0) = base
      OBVIOUS
    <3>. HIDE DEF At, p
    <3>. QED
      BY <3>1
  <2>4. s = <<Region(0)>>
    BY <2>2, <2>3, Zenon
  <2>5. 0 \in Indices(x)
    BY <2>1
  <2>6. /\ Region(0) \in RegionSet
        /\ Region(0).to = <<p, 0>>
        /\ Region(0).addr = base + OffsetAt(root, Region(0).to)
        /\ Region(0).size = Sizes[root][Region(0).to]
        /\ <<p, 0>> \in TreeFields
    BY <1>1, <1>2, <2>5, Zenon
  <2> DEFINE r == Region(0)
  <2>. HIDE DEF Region, s, p, x, r
  <2>7. s \in Seq(RegionSet) /\ DOMAIN s = {1} /\ s[1] = r
    BY <2>4, <2>6 DEF r
  <2>8. r.to = <<p, 0>> /\ r.to[1] = p
    BY <2>6 DEF r
  <2>9. \A m \in DOMAIN s : /\ s[m].to \in TreeFields /\ s[m].to[1] = p
                            /\ s[m].addr = base + OffsetAt(root, s[m].to)
                            /\ s[m].size = Sizes[root][s[m].to]
    <3> TAKE m \in DOMAIN s
    <3>1. s[m] = r
      BY <2>7
    <3>. QED
      BY <2>6, <2>8, <3>1, Zenon DEF r
  <2>10. \A m, l \in DOMAIN s : s[m].to = s[l].to => m = l
    BY <2>7
  <2>11. \A i \in Indices(NodeType(p)) : \E m \in DOMAIN s : s[m].to = <<p, i>>
    <3> TAKE i \in Indices(NodeType(p))
    <3>1. i = 0
      BY <2>1 DEF x
    <3>2. 1 \in DOMAIN s
      BY <2>7
    <3>. QED
      BY <2>7, <2>8, <3>1, <3>2, Zenon
  <2>12. RegionsOf(s, p, base)
    BY <2>7, <2>9, <2>10, <2>11, Zenon DEF RegionsOf
  <2>. QED
    BY <2>12 DEF p, s
<1>. QED
  BY <1>3, <1>4

LEMMA PointersAreNumbers ==
  ASSUME root \in Roots, ObjectInv, NEW n \in 1 .. Depth[root], NEW j \in DOMAIN Levels[root][n]
  PROVE  PointerTo(Levels[root][n][j]) \in Nat
<1> DEFINE p == Levels[root][n][j]
           k == <<Front(p), Last(p)>>
<1>1. (\E r, i : IsField(root, k, n - 1, r, i)) /\ Sizes[root][k] = PointerSize
  BY PointerIsField, Zenon
<1>2. k \in TreeFields
  BY <1>1, FieldsAre, Zenon DEF TreeFields
<1>3. object[k] \in Seq(Nat) /\ Len(object[k]) = 1
  <2>. HIDE DEF k
  <2>. QED
    BY <1>1, <1>2 DEF ObjectInv, PointerSize
<1>4. object[k][1] \in Nat
  <2>. HIDE DEF k
  <2>. QED
    BY <1>3
<1>. QED
  BY <1>4, Zenon DEF PointerTo

\* The regions of the root.
LEMMA RootRegions ==
  ASSUME root \in Roots
  PROVE  LET rs == Fill(<<>>, RootAddr)
         IN  /\ FieldsOfLevel(rs, 0)
             /\ \A i \in DOMAIN rs : rs[i].addr = AddrIn(root, object, rs[i].to)
<1> DEFINE rs == Fill(<<>>, RootAddr)
<1>1. 0 \in 0 .. Depth[root] /\ Depth[root] \in Nat
  BY RootsAreDeep
<1>2. Levels[root][0] = << <<>> >>
  BY <1>1, LevelsAre
<1>3. 1 \in DOMAIN Levels[root][0] /\ Levels[root][0][1] = <<>>
      /\ \A j \in DOMAIN Levels[root][0] : j = 1
  BY <1>2
<1>4. RegionsOf(rs, <<>>, RootAddr)
  <2>1. RootAddr \in Nat
    BY MemoryAssumption
  <2>2. RegionsOf(Fill(Levels[root][0][1], RootAddr), Levels[root][0][1], RootAddr)
    BY <1>1, <1>3, <2>1, FillIs
  <2>. QED
    BY <1>3, <2>2, Zenon
<1>. HIDE DEF rs
<1>5. Len(<<>>) = 0
  OBVIOUS
<1>6. \A k \in TreeFields : Len(k[1]) = 0 => \E i \in DOMAIN rs : rs[i].to = k
  <2> TAKE k \in TreeFields
  <2>. HAVE Len(k[1]) = 0
  <2>1. PICK n, j, i : IsField(root, k, n, j, i)
    BY FieldLevel, Zenon DEF TreeFields
  <2>2. Len(k[1]) = n
    BY <2>1, FieldIs, Zenon
  <2>3. n = 0 /\ j = 1 /\ k = << <<>>, i>> /\ i \in Indices(NodeType(<<>>))
    BY <1>3, <2>1, <2>2, Zenon DEF IsField, NodeType
  <2>. QED
    BY <1>4, <2>3, Zenon DEF RegionsOf
<1>7. FieldsOfLevel(rs, 0)
  <2>1. \A m \in DOMAIN rs : Len(rs[m].to[1]) = 0 /\ rs[m].size = Sizes[root][rs[m].to]
    BY <1>4, <1>5, Zenon DEF RegionsOf
  <2>. QED
    BY <1>4, <1>6, <2>1, Zenon DEF RegionsOf, FieldsOfLevel, RegionSet
<1>8. \A i \in DOMAIN rs : rs[i].addr = AddrIn(root, object, rs[i].to)
  BY <1>4, Zenon DEF RegionsOf, AddrIn, BaseIn
<1>. QED
  BY <1>7, <1>8 DEF rs

\* The regions of a level, from the pointers now in the object.
LEMMA LevelRegions ==
  ASSUME root \in Roots, ObjectInv, NEW n \in 1 .. Depth[root]
  PROVE  /\ FieldsOfLevel(FillLevel(n), n)
         /\ \A i \in DOMAIN FillLevel(n) : FillLevel(n)[i].addr = AddrIn(root, object, FillLevel(n)[i].to)
<1> DEFINE nodes == Levels[root][n]
           b == [j \in DOMAIN nodes |-> Fill(nodes[j], PointerTo(nodes[j]))]
           rs == FlattenSeq(b)
<1>1. Depth[root] \in Nat /\ n \in 0 .. Depth[root] /\ n # 0
  BY RootsAreDeep
<1>2. nodes \in Seq(Seq(Nat))
  BY <1>1, LevelsAre
<1>3. FillLevel(n) = rs
  BY Zenon DEF FillLevel
<1>4. \A j \in DOMAIN nodes : RegionsOf(Fill(nodes[j], PointerTo(nodes[j])), nodes[j], PointerTo(nodes[j]))
  BY <1>1, FillIs, PointersAreNumbers
<1>5. \A j \in DOMAIN nodes : Len(nodes[j]) = n /\ nodes[j] # <<>>
  <2>1. \A j \in DOMAIN nodes : Len(nodes[j]) = n
    BY <1>1, LevelIsGood, Zenon DEF GoodLevel
  <2>2. Len(<<>>) = 0
    OBVIOUS
  <2>. QED
    BY <1>1, <2>1, <2>2, Zenon
<1>6. \A j, k \in DOMAIN nodes : nodes[j] = nodes[k] => j = k
  BY <1>1, LevelIsGood, Zenon DEF GoodLevel
<1>7. \A k \in TreeFields : Len(k[1]) = n =>
        \E j \in DOMAIN nodes : \E i \in Indices(NodeType(nodes[j])) : k = <<nodes[j], i>>
  <2> TAKE k \in TreeFields
  <2>. HAVE Len(k[1]) = n
  <2>1. PICK m, j, i : IsField(root, k, m, j, i)
    BY FieldLevel, Zenon DEF TreeFields
  <2>2. Len(k[1]) = m
    BY <2>1, FieldIs, Zenon
  <2>. QED
    BY <2>1, <2>2, Zenon DEF IsField, NodeType
<1>8. DOMAIN b = DOMAIN nodes /\ \A j \in DOMAIN b : RegionsOf(b[j], nodes[j], PointerTo(nodes[j]))
  <2>1. DOMAIN b = DOMAIN nodes /\ \A j \in DOMAIN b : b[j] = Fill(nodes[j], PointerTo(nodes[j]))
    <3>. HIDE DEF nodes
    <3>. QED
      OBVIOUS
  <2>. QED
    BY <1>4, <2>1, Zenon
<1>9. b \in Seq(Seq(RegionSet))
  <2> DEFINE l == Len(nodes)
  <2>1. l \in Nat /\ DOMAIN nodes = 1 .. l
    <3>. HIDE DEF nodes
    <3>. QED
      BY <1>2
  <2>2. \A j \in 1 .. l : Fill(nodes[j], PointerTo(nodes[j])) \in Seq(RegionSet)
    BY <1>4, <2>1, Zenon DEF RegionsOf
  <2>. HIDE DEF l, nodes
  <2>3. b \in [1 .. l -> Seq(RegionSet)]
    BY <2>1, <2>2
  <2>. HIDE DEF b
  <2>. QED
    BY <2>1, <2>3, SeqDef
<1>. HIDE DEF b, nodes
<1>10. DOMAIN b = 1 .. Len(b)
  BY <1>9, LenProperties
<1>11. rs \in Seq(RegionSet) /\ \E row, col : Places(rs, b, Len(b), row, col)
  BY <1>9, FlattenPlaces, Zenon
<1>12. PICK row, col : Places(rs, b, Len(b), row, col)
  BY <1>11, Zenon
<1>. HIDE DEF rs
<1>13. ASSUME NEW i \in DOMAIN rs
       PROVE  /\ row[i] \in DOMAIN b /\ col[i] \in DOMAIN b[row[i]] /\ rs[i] = b[row[i]][col[i]]
              /\ RegionsOf(b[row[i]], nodes[row[i]], PointerTo(nodes[row[i]]))
              /\ rs[i].to \in TreeFields /\ rs[i].to[1] = nodes[row[i]]
              /\ rs[i].addr = PointerTo(nodes[row[i]]) + OffsetAt(root, rs[i].to)
              /\ rs[i].size = Sizes[root][rs[i].to]
  <2>1. row[i] \in DOMAIN b /\ col[i] \in DOMAIN b[row[i]] /\ rs[i] = b[row[i]][col[i]]
    BY <1>10, <1>12, Zenon DEF Places
  <2>2. RegionsOf(b[row[i]], nodes[row[i]], PointerTo(nodes[row[i]]))
    BY <1>8, <2>1, Zenon
  <2>. QED
    BY <2>1, <2>2, Zenon DEF RegionsOf
<1>14. \A i \in DOMAIN rs : Len(rs[i].to[1]) = n /\ rs[i].size = Sizes[root][rs[i].to]
  <2> TAKE i \in DOMAIN rs
  <2>1. row[i] \in DOMAIN nodes /\ rs[i].to[1] = nodes[row[i]]
    BY <1>8, <1>13, Zenon
  <2>2. Len(nodes[row[i]]) = n
    BY <1>5, <2>1, Zenon
  <2>3. Len(rs[i].to[1]) = n
    BY <2>1, <2>2, Zenon
  <2>. QED
    BY <1>13, <2>3, Zenon
<1>15. ASSUME NEW i \in DOMAIN rs, NEW k \in DOMAIN rs, rs[i].to = rs[k].to PROVE i = k
  <2>1. nodes[row[i]] = nodes[row[k]]
    BY <1>13, <1>15, Zenon
  <2>2. row[i] = row[k]
    BY <1>6, <1>8, <1>13, <2>1, Zenon
  <2>3. col[i] \in DOMAIN b[row[i]] /\ col[k] \in DOMAIN b[row[i]]
        /\ b[row[i]][col[i]].to = b[row[i]][col[k]].to
    BY <1>13, <1>15, <2>2, Zenon
  <2>4. col[i] = col[k]
    BY <1>13, <2>3, Zenon DEF RegionsOf
  <2>. QED
    BY <1>12, <2>2, <2>4, Zenon DEF Places
<1>16. ASSUME NEW k \in TreeFields, Len(k[1]) = n PROVE \E i \in DOMAIN rs : rs[i].to = k
  <2>1. PICK j \in DOMAIN nodes : \E i \in Indices(NodeType(nodes[j])) : k = <<nodes[j], i>>
    BY <1>7, <1>16, Zenon
  <2>2. PICK m \in DOMAIN b[j] : b[j][m].to = k
    <3>1. PICK i \in Indices(NodeType(nodes[j])) : k = <<nodes[j], i>>
      BY <2>1, Zenon
    <3>2. RegionsOf(b[j], nodes[j], PointerTo(nodes[j]))
      BY <1>8, Zenon
    <3>3. \E m \in DOMAIN b[j] : b[j][m].to = <<nodes[j], i>>
      BY <3>1, <3>2, Zenon DEF RegionsOf
    <3>. QED
      BY <3>1, <3>3, Zenon
  <2>3. j \in 1 .. Len(b)
    BY <1>8, <1>10, <2>1, Zenon
  <2>4. PICK i \in DOMAIN rs : row[i] = j /\ col[i] = m
    BY <1>12, <2>2, <2>3, Zenon DEF Places
  <2>. QED
    BY <1>13, <2>2, <2>4, Zenon
<1>17. FieldsOfLevel(rs, n)
  BY <1>11, <1>14, <1>15, <1>16, Zenon DEF FieldsOfLevel, RegionSet
<1>18. \A i \in DOMAIN rs : rs[i].addr = AddrIn(root, object, rs[i].to)
  <2> TAKE i \in DOMAIN rs
  <2>1. row[i] \in DOMAIN nodes /\ rs[i].to[1] = nodes[row[i]]
    BY <1>8, <1>13, Zenon
  <2>2. nodes[row[i]] # <<>>
    BY <1>5, <2>1, Zenon
  <2>3. BaseIn(object, rs[i].to[1]) = PointerTo(nodes[row[i]])
    BY <2>1, <2>2, Zenon DEF BaseIn, PointerTo
  <2>. QED
    BY <1>13, <2>3, Zenon DEF AddrIn
<1>. QED
  BY <1>3, <1>17, <1>18, Zenon

--------------------------------------------------------------------------------
(* Calls of at most UIO_MAXIOV regions *)

\* Positions and their calls, for batches of m regions.
LEMMA Quotients ==
  ASSUME NEW m \in Nat \ {0}, NEW i \in Nat \ {0}, NEW b \in Nat
  PROVE  /\ (i - 1) \div m \in Nat
         /\ (i - 1) \div m = b <=> m * b < i /\ i <= m * b + m
<1> DEFINE q == (i - 1) \div m
           r == (i - 1) % m
<1>1. q \in Nat /\ r \in 0 .. m - 1 /\ i - 1 = m * q + r
  OBVIOUS
<1>. HIDE DEF q, r
<1>2. m * q < i /\ i <= m * q + m
  BY <1>1
<1>3. ASSUME m * b < i, i <= m * b + m PROVE q = b
  <2>1. CASE q < b
    <3>1. m * q + m <= m * b
      <4>1. q + 1 <= b
        BY <1>1, <2>1
      <4>2. m * (q + 1) <= m * b
        BY <1>1, <4>1
      <4>. QED
        BY <1>1, <4>2
    <3>2. m * q \in Nat /\ m * b \in Nat
      BY <1>1
    <3>. QED
      BY <1>2, <1>3, <3>1, <3>2
  <2>2. CASE b < q
    <3>1. m * b + m <= m * q
      <4>1. b + 1 <= q
        BY <1>1, <2>2
      <4>2. m * (b + 1) <= m * q
        BY <1>1, <4>1
      <4>. QED
        BY <1>1, <4>2
    <3>2. m * q \in Nat /\ m * b \in Nat
      BY <1>1
    <3>. QED
      BY <1>2, <1>3, <3>1, <3>2
  <2>. QED
    BY <1>1, <2>1, <2>2
<1>4. q \in Nat /\ (q = b <=> m * b < i /\ i <= m * b + m)
  BY <1>1, <1>2, <1>3
<1>. QED
  BY <1>4 DEF q

\* A call is a run of regions, and the calls follow one another.
LEMMA BatchesFollow ==
  ASSUME NEW i \in Nat \ {0}, NEW j \in Nat \ {0}, i <= j
  PROVE  Batch(i) \in Nat /\ Batch(j) \in Nat /\ Batch(i) <= Batch(j)
<1> DEFINE M == UIO_MAXIOV
           a == Batch(i)
           b == Batch(j)
<1>1. M \in Nat \ {0}
  BY BatchAssumption
<1>2. a \in Nat /\ b \in Nat /\ M * a < i /\ j <= M * b + M
  <2>1. a = (i - 1) \div M /\ b = (j - 1) \div M
    BY DEF Batch
  <2>. HIDE DEF a, b, M
  <2>2. a \in Nat /\ b \in Nat
    BY <1>1, <2>1, Quotients
  <2>. QED
    BY <1>1, <2>1, <2>2, Quotients
<1>. HIDE DEF a, b, M
<1>3. ~(b < a)
  <2>. SUFFICES ASSUME b < a PROVE FALSE
    OBVIOUS
  <2>1. b + 1 <= a
    BY <1>2
  <2>2. M * (b + 1) <= M * a
    BY <1>1, <1>2, <2>1
  <2>3. M * b + M <= M * a /\ M * a \in Nat /\ M * b \in Nat
    BY <1>1, <1>2, <2>2
  <2> DEFINE x == M * a
             y == M * b
  <2>4. x \in Nat /\ y \in Nat /\ M \in Nat /\ y + M <= x /\ x < i /\ j <= y + M
    BY <1>1, <1>2, <2>3
  <2>. HIDE DEF x, y
  <2>. QED
    BY <2>4
<1>4. a \in Nat /\ b \in Nat /\ a <= b
  BY <1>2, <1>3
<1>. QED
  BY <1>4 DEF a, b

\* CallEnd(n) is the last region of the call that region n belongs to.
LEMMA CallEnds ==
  ASSUME NEW n \in Nat, n \in 1 .. Len(regions), Len(regions) \in Nat
  PROVE  /\ CallEnd(n) \in n .. Len(regions)
         /\ \A i \in n .. CallEnd(n) : Batch(i) = Batch(n)
         /\ CallEnd(n) < Len(regions) => Batch(CallEnd(n) + 1) # Batch(CallEnd(n))
<1> DEFINE M == UIO_MAXIOV
           L == Len(regions)
           e == CallEnd(n)
           q == (n - 1) \div M
           d == L \div M
           r == L % M
<1>1. M \in Nat \ {0} /\ L \in Nat /\ n \in 1 .. L
  BY BatchAssumption
<1>2. d \in Nat /\ r \in 0 .. M - 1 /\ L = M * d + r
  <2>. HIDE DEF M, L
  <2>. QED
    BY <1>1
<1>3. q \in Nat /\ M * q < n /\ n <= M * q + M
  <2>. HIDE DEF M, L
  <2>1. n \in Nat \ {0}
    BY <1>1
  <2>2. (n - 1) \div M \in Nat
    BY <1>1, <2>1, Quotients
  <2>. QED
    BY <1>1, <2>1, <2>2, Quotients
<1>4. Batch(n) = q
  BY DEF Batch
<1>5. e = IF n <= M * d THEN M * (q + 1) ELSE M * d + r
  BY DEF CallEnd
<1>. HIDE DEF M, L, e, q, d, r
<1>6. M * q \in Nat /\ M * d \in Nat /\ M * (q + 1) = M * q + M
  BY <1>1, <1>2, <1>3
<1>7. n <= M * d => q + 1 <= d
  <2>. SUFFICES ASSUME n <= M * d, d <= q PROVE FALSE
    BY <1>2, <1>3
  <2>1. M * d <= M * q
    BY <1>1, <1>2, <1>3
  <2>. QED
    BY <1>1, <1>3, <1>6, <2>1
<1>8. n <= M * d => M * (q + 1) <= M * d
  BY <1>1, <1>2, <1>3, <1>7
<1>9. n > M * d => d = q
  <2>. SUFFICES ASSUME n > M * d PROVE d = q
    OBVIOUS
  <2>1. ~(q < d)
    <3>. SUFFICES ASSUME q < d PROVE FALSE
      OBVIOUS
    <3>1. M * (q + 1) <= M * d
      BY <1>1, <1>2, <1>3
    <3>. QED
      BY <1>1, <1>3, <1>6, <3>1
  <2>2. ~(d < q)
    <3>. SUFFICES ASSUME d < q PROVE FALSE
      OBVIOUS
    <3>1. M * (d + 1) <= M * q
      BY <1>1, <1>2, <1>3
    <3>2. M * (d + 1) = M * d + M
      BY <1>1, <1>2
    <3>. QED
      BY <1>1, <1>2, <1>3, <1>6, <3>1, <3>2
  <2>. QED
    BY <1>2, <1>3, <2>1, <2>2
<1>10. e \in n .. L /\ e <= M * q + M
  <2>1. CASE n <= M * d
    BY <1>1, <1>2, <1>3, <1>5, <1>6, <1>8, <2>1
  <2>2. CASE n > M * d
    BY <1>1, <1>2, <1>3, <1>5, <1>6, <1>9, <2>2
  <2>. QED
    BY <1>1, <1>6, <2>1, <2>2
<1>11. ASSUME NEW i \in n .. e PROVE Batch(i) = q
  <2>1. i \in Nat \ {0} /\ M * q < i /\ i <= M * q + M
    BY <1>1, <1>3, <1>6, <1>10
  <2>2. (i - 1) \div M = q
    BY <1>1, <1>3, <2>1, Quotients
  <2>. QED
    BY <2>2 DEF Batch, M
<1>12. ASSUME e < L PROVE Batch(e + 1) # Batch(e)
  <2>1. n <= M * d /\ e = M * q + M
    BY <1>1, <1>2, <1>5, <1>6, <1>12
  <2>2. e + 1 \in Nat \ {0} /\ ~(e + 1 <= M * q + M)
    BY <1>1, <1>6, <2>1
  <2>3. ((e + 1) - 1) \div M # q
    BY <1>1, <1>3, <2>2, Quotients
  <2>4. Batch(e + 1) # q
    BY <2>3 DEF Batch, M
  <2>5. e \in n .. e
    BY <1>1, <1>10
  <2>. QED
    BY <1>11, <2>4, <2>5
<1>13. /\ e \in n .. L
       /\ \A i \in n .. e : Batch(i) = Batch(n)
       /\ e < L => Batch(e + 1) # Batch(e)
  BY <1>4, <1>10, <1>11, <1>12
<1>. QED
  BY <1>13 DEF e, L

--------------------------------------------------------------------------------
(* The invariant is inductive *)

LEMMA FieldNumbersOfTree ==
  ASSUME root \in Roots
  PROVE  \A k \in TreeFields : Sizes[root][k] \in Nat /\ Len(k[1]) \in 0 .. Depth[root]
<1> SUFFICES ASSUME NEW k \in TreeFields
             PROVE  Sizes[root][k] \in Nat /\ Len(k[1]) \in 0 .. Depth[root]
  OBVIOUS
<1>1. PICK n, j, i : IsField(root, k, n, j, i)
  BY FieldLevel, Zenon DEF TreeFields
<1>2. n \in 0 .. Depth[root]
  BY <1>1, Zenon DEF IsField
<1>3. Sizes[root][k] \in Nat /\ Len(k[1]) = n
  BY <1>1, FieldIs
<1>. QED
  BY <1>2, <1>3

\* The pointer to a node lies one level above it.
LEMMA PointerAbove ==
  ASSUME root \in Roots, NEW k \in TreeFields, k[1] # <<>>
  PROVE  LET up == <<Front(k[1]), Last(k[1])>>
         IN  /\ up \in TreeFields /\ Sizes[root][up] = PointerSize
             /\ up[1] = Front(k[1]) /\ Len(k[1]) \in Nat \ {0} /\ Len(up[1]) = Len(k[1]) - 1
             /\ k[1] = Append(up[1], up[2]) /\ up[1] \in Seq(Nat) /\ up[2] \in Nat \ {0}
             /\ Declared(Struct[TypeAt(root, up[1])][up[2]])
<1> DEFINE up == <<Front(k[1]), Last(k[1])>>
<1>1. PICK n, j, i : IsField(root, k, n, j, i)
  BY FieldLevel, Zenon DEF TreeFields
<1>2. k[1] = Levels[root][n][j] /\ k[1] \in Seq(Nat) /\ Len(k[1]) = n
  BY <1>1, FieldIs
<1>3. n \in 0 .. Depth[root] /\ j \in DOMAIN Levels[root][n] /\ Depth[root] \in Nat
  BY <1>1, RootsAreDeep, Zenon DEF IsField
<1>4. n \in 1 .. Depth[root]
  <2>1. n # 0
    BY <1>2, EmptySeq
  <2>. QED
    BY <1>3, <2>1
<1>5. /\ \E r, a : IsField(root, up, n - 1, r, a)
      /\ Sizes[root][up] = PointerSize
      /\ Front(k[1]) \in Seq(Nat) /\ Last(k[1]) \in Nat \ {0}
      /\ k[1] = Append(Front(k[1]), Last(k[1]))
      /\ Len(Front(k[1])) = n - 1
      /\ Declared(Struct[TypeAt(root, Front(k[1]))][Last(k[1])])
  <2> DEFINE p == Levels[root][n][j]
             u == <<Front(p), Last(p)>>
  <2>1. /\ \E r, a : IsField(root, u, n - 1, r, a)
        /\ Sizes[root][u] = PointerSize
        /\ Front(p) \in Seq(Nat) /\ Last(p) \in Nat \ {0}
        /\ p = Append(Front(p), Last(p))
        /\ Len(Front(p)) = n - 1
        /\ Declared(Struct[TypeAt(root, Front(p))][Last(p)])
    BY <1>3, <1>4, PointerIsField, Zenon
  <2>2. k[1] = p
    BY <1>2
  <2>. HIDE DEF p
  <2>. QED
    BY <2>1, <2>2, Zenon
<1>6. up \in TreeFields
  BY <1>5, FieldsAre, Zenon DEF TreeFields
<1>7. up[1] = Front(k[1]) /\ up[2] = Last(k[1])
  OBVIOUS
<1>8. n \in Nat \ {0}
  BY <1>3, <1>4
<1>. HIDE DEF up
<1>9. /\ up \in TreeFields /\ Sizes[root][up] = PointerSize
      /\ up[1] = Front(k[1]) /\ Len(k[1]) \in Nat \ {0} /\ Len(up[1]) = Len(k[1]) - 1
      /\ k[1] = Append(up[1], up[2]) /\ up[1] \in Seq(Nat) /\ up[2] \in Nat \ {0}
      /\ Declared(Struct[TypeAt(root, up[1])][up[2]])
  BY <1>2, <1>5, <1>6, <1>7, <1>8, Zenon
<1>. QED
  BY <1>9 DEF up

\* Addresses move only with the pointer they are based on.
LEMMA AddrKept ==
  ASSUME NEW t, NEW k, NEW obj, NEW new,
         k[1] # <<>> => new[<<Front(k[1]), Last(k[1])>>] = obj[<<Front(k[1]), Last(k[1])>>]
  PROVE  AddrIn(t, new, k) = AddrIn(t, obj, k)
BY DEF AddrIn, BaseIn

LEMMA IInvInit == Init => IInv
<1> SUFFICES ASSUME Init PROVE IInv
  OBVIOUS
<1> USE DEF Init
<1>1. root \in Roots /\ Depth[root] \in Nat
  BY RootsAreDeep
<1>2. MemoryInv
  <2>1. mem \in Memories
    BY Zenon
  <2>. HIDE DEF Init
  <2>. QED
    BY <2>1, MemoryAssumption DEF MemoryInv
<1>3. \A k \in TreeFields : Sizes[root][k] \in Nat /\ Len(k[1]) \in 0 .. Depth[root]
  BY <1>1, FieldNumbersOfTree
<1>4. WalkInv
  <2>1. source \in [TreeFields -> Nat \cup {NoAddr}]
    BY DEF NoAddr
  <2>2. level = -1 /\ next = 1 /\ regions = <<>> /\ calls = 0 /\ writes = 0
    BY Zenon
  <2>. HIDE DEF Init
  <2>. QED
    BY <1>1, <2>1, <2>2, MemoryAssumption DEF WalkInv
<1>5. ObjectInv
  <2> DEFINE cells(k) == [j \in 1 .. Sizes[root][k] |-> Null]
  <2>1. object = [k \in TreeFields |-> cells(k)]
    BY Zenon
  <2>2. \A k \in TreeFields : cells(k) \in Seq(Nat) /\ Len(cells(k)) = Sizes[root][k]
    BY <1>3 DEF Null
  <2>. HIDE DEF cells, Init
  <2>3. object \in [TreeFields -> Seq(Nat)] /\ \A k \in TreeFields : object[k] = cells(k)
    BY <2>1, <2>2
  <2>. QED
    BY <2>2, <2>3, Zenon DEF ObjectInv
<1>6. RegionsInv /\ BatchInv
  BY DEF RegionsInv, BatchInv
<1>7. \A k \in TreeFields : source[k] = NoAddr
  OBVIOUS
<1>8. UnreadInv /\ BasedInv
  BY <1>7 DEF UnreadInv, BasedInv
<1>. QED
  BY <1>2, <1>4, <1>5, <1>6, <1>8 DEF IInv

LEMMA CallKeeps == IInv /\ Call => IInv'
<1> SUFFICES ASSUME IInv, Call PROVE IInv'
  OBVIOUS
<1>1. root \in Roots /\ Depth[root] \in Nat
  BY RootsAreDeep DEF IInv, WalkInv
<1>2. /\ calls < MaxCalls /\ calls' = calls + 1 /\ level' = 0 /\ next' = 1 /\ root' = root
      /\ mem' = mem /\ object' = object /\ writes' = writes
      /\ regions' = Fill(<<>>, RootAddr)
      /\ source' = [k \in TreeFields |-> NoAddr]
  BY DEF Call
<1>3. TreeFields' = TreeFields
  BY <1>2 DEF TreeFields
<1>4. PICK rs : rs = Fill(<<>>, RootAddr)
  OBVIOUS
<1>5. regions' = rs /\ FieldsOfLevel(rs, 0) /\ \A i \in DOMAIN rs : rs[i].addr = AddrIn(root, object, rs[i].to)
  BY <1>1, <1>2, <1>4, RootRegions, Zenon
<1>6. /\ \A k \in TreeFields : source'[k] = NoAddr
      /\ source' \in [TreeFields -> Nat \cup {NoAddr}]
  BY <1>2
<1>7. \A i \in DOMAIN rs : rs[i].to \in TreeFields
  <2>1. rs \in Seq([to : TreeFields, addr : Nat, size : Nat])
    BY <1>5, Zenon DEF FieldsOfLevel
  <2>2. \A i \in DOMAIN rs : rs[i] \in [to : TreeFields, addr : Nat, size : Nat]
    BY <2>1, ElementOfSeq, LenProperties
  <2>. QED
    BY <2>2
<1>8. Len(rs) \in Nat /\ DOMAIN rs = 1 .. Len(rs)
  BY <1>5, LenProperties DEF FieldsOfLevel
<1>9. MemoryInv'
  BY <1>2 DEF IInv, MemoryInv
<1>10. ObjectInv'
  BY <1>2, <1>3 DEF IInv, ObjectInv
<1>11. WalkInv'
  BY <1>1, <1>2, <1>3, <1>5, <1>6, <1>8, MemoryAssumption DEF IInv, WalkInv
<1>12. RegionsInv'
  BY <1>2, <1>3, <1>5 DEF RegionsInv, FieldsOfLevel
<1>13. UnreadInv'
  BY <1>3, <1>5, <1>6, <1>7 DEF UnreadInv
<1>14. BatchInv'
  BY <1>2, <1>5, <1>8 DEF BatchInv
<1>15. BasedInv'
  BY <1>2, <1>3, <1>5, <1>6 DEF BasedInv
<1>. QED
  BY <1>9, <1>10, <1>11, <1>12, <1>13, <1>14, <1>15 DEF IInv

LEMMA RegionsAre ==
  ASSUME RegionsInv, WalkInv
  PROVE  /\ Len(regions) \in Nat /\ DOMAIN regions = 1 .. Len(regions)
         /\ \A i \in DOMAIN regions :
              /\ level # -1 /\ FieldsOfLevel(regions, level)
              /\ regions[i].to \in TreeFields /\ regions[i].addr \in Nat /\ regions[i].size \in Nat
              /\ Len(regions[i].to[1]) = level
              /\ regions[i].size = Sizes[root][regions[i].to]
<1>1. CASE level = -1
  <2>1. regions = <<>>
    BY <1>1 DEF RegionsInv
  <2>. QED
    BY <2>1
<1>2. CASE level # -1
  <2>1. FieldsOfLevel(regions, level)
    BY <1>2 DEF RegionsInv
  <2>2. regions \in Seq([to : TreeFields, addr : Nat, size : Nat])
    BY <2>1, Zenon DEF FieldsOfLevel
  <2>3. Len(regions) \in Nat /\ DOMAIN regions = 1 .. Len(regions)
    BY <2>2, LenProperties
  <2>4. \A i \in DOMAIN regions : regions[i] \in [to : TreeFields, addr : Nat, size : Nat]
    BY <2>2, <2>3, ElementOfSeq
  <2>5. \A i \in DOMAIN regions :
          regions[i].to \in TreeFields /\ regions[i].addr \in Nat /\ regions[i].size \in Nat
    BY <2>4
  <2>6. \A i \in DOMAIN regions : /\ Len(regions[i].to[1]) = level
                                  /\ regions[i].size = Sizes[root][regions[i].to]
    BY <2>1, Zenon DEF FieldsOfLevel
  <2>. QED
    BY <1>2, <2>1, <2>3, <2>5, <2>6
<1>. QED
  BY <1>1, <1>2

\* The words of a region that can be read are what the field has room for.
LEMMA WordsAre ==
  ASSUME MemoryInv, NEW a \in Nat, NEW n \in Nat, Readable(a, n)
  PROVE  Words(a, n) \in Seq(Nat) /\ Len(Words(a, n)) = n
<1>1. \A k \in 1 .. n : a + k - 1 \in a .. a + n - 1
  OBVIOUS
<1>2. \A k \in 1 .. n : a + k - 1 \in DOMAIN mem
  BY <1>1, Zenon DEF Readable
<1>3. \A k \in 1 .. n : mem[a + k - 1] \in Nat
  BY <1>2 DEF MemoryInv
<1>. QED
  BY <1>3 DEF Words

LEMMA CopyKeeps == IInv /\ Copy => IInv'
<1> SUFFICES ASSUME IInv, Copy PROVE IInv'
  OBVIOUS
<1>1. root \in Roots /\ Depth[root] \in Nat /\ WalkInv /\ RegionsInv /\ ObjectInv /\ MemoryInv
      /\ UnreadInv /\ BatchInv /\ BasedInv
  BY RootsAreDeep DEF IInv, WalkInv
<1>2. /\ next \in DOMAIN regions /\ Readable(regions[next].addr, regions[next].size)
      /\ next' = next + 1 /\ root' = root /\ mem' = mem /\ level' = level /\ regions' = regions
      /\ calls' = calls /\ writes' = writes
  BY DEF Copy
<1> DEFINE L == Len(regions)
           words == Words(regions[next].addr, regions[next].size)
<1>3. TreeFields' = TreeFields
  BY <1>2 DEF TreeFields
<1>4. PICK r : r = regions[next]
  OBVIOUS
<1>5. /\ L \in Nat /\ DOMAIN regions = 1 .. L /\ next \in 1 .. L
      /\ level # -1 /\ FieldsOfLevel(regions, level)
      /\ r.to \in TreeFields /\ r.addr \in Nat /\ r.size \in Nat
      /\ Len(r.to[1]) = level /\ r.size = Sizes[root][r.to]
  BY <1>1, <1>2, <1>4, RegionsAre
<1>6. words \in Seq(Nat) /\ Len(words) = Sizes[root][r.to]
  BY <1>1, <1>2, <1>4, <1>5, WordsAre
<1>. HIDE DEF L, words
<1>7. object' = [object EXCEPT ![r.to] = words] /\ source' = [source EXCEPT ![r.to] = r.addr]
  BY <1>4 DEF Copy, words
<1>8. /\ object \in [TreeFields -> Seq(Nat)]
      /\ source \in [TreeFields -> Nat \cup {NoAddr}]
      /\ \A k \in TreeFields : Len(object[k]) = Sizes[root][k]
  BY <1>1, Zenon DEF ObjectInv, WalkInv
<1>9. /\ \A k \in TreeFields : k # r.to => object'[k] = object[k] /\ source'[k] = source[k]
      /\ object'[r.to] = words /\ source'[r.to] = r.addr
  BY <1>5, <1>7, <1>8
<1>10. r.addr # NoAddr
  BY <1>5 DEF NoAddr
<1>11. \A k \in TreeFields : Len(k[1]) \in Nat
  BY <1>1, FieldNumbersOfTree
<1>12. level \in Nat /\ level \in 0 .. Depth[root]
  BY <1>1, <1>5 DEF WalkInv
<1>13. MemoryInv'
  BY <1>1, <1>2 DEF MemoryInv
<1>14. ObjectInv'
  <2>1. object' \in [TreeFields -> Seq(Nat)]
    BY <1>6, <1>7, <1>8
  <2>2. \A k \in TreeFields : Len(object'[k]) = Sizes[root][k]
    BY <1>6, <1>8, <1>9
  <2>. QED
    BY <1>2, <1>3, <2>1, <2>2 DEF ObjectInv
<1>15. WalkInv'
  <2>1. source' \in [TreeFields -> Nat \cup {NoAddr}]
    BY <1>5, <1>7, <1>8
  <2>2. next + 1 \in 1 .. L + 1
    BY <1>5
  <2>. QED
    BY <1>1, <1>2, <1>3, <2>1, <2>2 DEF WalkInv, L
<1>16. RegionsInv'
  BY <1>2, <1>3, <1>5 DEF RegionsInv, FieldsOfLevel
<1>17. \A i \in DOMAIN regions : regions[i].to \in TreeFields /\ (i # next => regions[i].to # r.to)
  BY <1>1, <1>2, <1>4, <1>5, RegionsAre, Zenon DEF FieldsOfLevel
<1>18. \A i \in DOMAIN regions : i # next => source'[regions[i].to] = source[regions[i].to]
  BY <1>9, <1>17
<1>19. UnreadInv'
  <2>1. \A k \in TreeFields : Len(k[1]) > level => source'[k] = NoAddr
    BY <1>1, <1>5, <1>9, <1>12 DEF UnreadInv
  <2>2. \A i \in DOMAIN regions : i >= next + 1 => source'[regions[i].to] = NoAddr
    <3> TAKE i \in DOMAIN regions
    <3>. HAVE i >= next + 1
    <3>1. i >= next /\ i # next
      BY <1>5
    <3>. QED
      BY <1>1, <1>18, <3>1 DEF UnreadInv
  <2>. QED
    BY <1>2, <1>3, <2>1, <2>2 DEF UnreadInv
<1>20. \A j \in 1 .. next - 1 : Batch(j) = Batch(next) => ReadableRegion(j)
  BY <1>1, <1>2 DEF BatchInv
<1>21. ReadableRegion(next)
  BY <1>2 DEF ReadableRegion
<1>22. \A j \in 1 .. next : Batch(j) = Batch(next) => ReadableRegion(j)
  <2> TAKE j \in 1 .. next
  <2>1. j = next \/ j \in 1 .. next - 1
    BY <1>5
  <2>. QED
    BY <1>20, <1>21, <2>1
<1>23. \A j \in Nat : ReadableRegion(j)' <=> ReadableRegion(j)
  BY <1>2 DEF ReadableRegion, Readable
<1>24. BatchInv'
  <2>1. ASSUME NEW i \in DOMAIN regions, i < next + 1
        PROVE  source'[regions[i].to] # NoAddr
                 <=> \A j \in 1 .. i : Batch(j) = Batch(i) => ReadableRegion(j)
    <3>1. CASE i = next
      BY <1>4, <1>9, <1>10, <1>22, <3>1
    <3>2. CASE i # next
      <4>1. i < next
        BY <1>5, <2>1, <3>2
      <4>. QED
        BY <1>1, <1>18, <3>2, <4>1, Zenon DEF BatchInv
    <3>. QED
      BY <3>1, <3>2
  <2>2. ASSUME next + 1 \in DOMAIN regions, NEW j \in 1 .. next, Batch(j) = Batch(next + 1)
        PROVE  ReadableRegion(j)
    <3>1. Batch(j) \in Nat /\ Batch(next) \in Nat /\ Batch(j) <= Batch(next)
          /\ Batch(next) <= Batch(next + 1)
      <4>1. j \in Nat \ {0} /\ next \in Nat \ {0} /\ next + 1 \in Nat \ {0} /\ j <= next /\ next <= next + 1
        BY <1>5
      <4>. QED
        BY <4>1, BatchesFollow
    <3>2. Batch(j) = Batch(next)
      BY <2>2, <3>1
    <3>. QED
      BY <1>22, <3>2
  <2>3. (next + 1) - 1 = next
    BY <1>5
  <2>. QED
    BY <1>2, <1>5, <2>1, <2>2, <2>3 DEF BatchInv, ReadableRegion, Readable
<1>25. ASSUME NEW k \in TreeFields, Len(k[1]) <= level
       PROVE  AddrIn(root, object', k) = AddrIn(root, object, k)
  <2>1. CASE k[1] = <<>>
    BY <2>1, AddrKept
  <2>2. CASE k[1] # <<>>
    <3> DEFINE up == <<Front(k[1]), Last(k[1])>>
    <3>1. up \in TreeFields /\ Len(up[1]) = Len(k[1]) - 1
      BY <1>1, <2>2, PointerAbove, Zenon
    <3>2. Len(up[1]) # level
      BY <1>11, <1>12, <1>25, <3>1
    <3>3. object'[up] = object[up]
      <4>. HIDE DEF up
      <4>. QED
        BY <1>5, <1>9, <3>1, <3>2
    <3>. QED
      BY <3>3, AddrKept, Zenon
  <2>. QED
    BY <2>1, <2>2
<1>26. BasedInv'
  <2>1. \A i \in DOMAIN regions : regions[i].addr = AddrIn(root, object, regions[i].to)
    BY <1>1, Zenon DEF BasedInv
  <2>2. \A i \in DOMAIN regions : regions[i].to \in TreeFields /\ Len(regions[i].to[1]) <= level
    BY <1>1, <1>12, RegionsAre
  <2>3. \A i \in DOMAIN regions : regions[i].addr = AddrIn(root, object', regions[i].to)
    BY <1>25, <2>1, <2>2
  <2>4. ASSUME NEW k \in TreeFields, source'[k] # NoAddr
        PROVE  source'[k] = AddrIn(root, object', k)
    <3>1. CASE k = r.to
      BY <1>2, <1>4, <1>9, <2>3, <3>1
    <3>2. CASE k # r.to
      <4>1. source'[k] = source[k]
        BY <1>9, <3>2
      <4>2. source[k] = AddrIn(root, object, k)
        BY <1>1, <2>4, <4>1, Zenon DEF BasedInv
      <4>3. ~(Len(k[1]) > level)
        BY <1>1, <2>4, <4>1, Zenon DEF UnreadInv
      <4>4. Len(k[1]) <= level
        BY <1>11, <1>12, <4>3
      <4>. QED
        BY <1>25, <4>1, <4>2, <4>4
    <3>. QED
      BY <3>1, <3>2
  <2>. QED
    BY <1>2, <1>3, <2>3, <2>4 DEF BasedInv
<1>. QED
  BY <1>13, <1>14, <1>15, <1>16, <1>19, <1>24, <1>26 DEF IInv

LEMMA FaultKeeps == IInv /\ Fault => IInv'
<1> SUFFICES ASSUME IInv, Fault PROVE IInv'
  OBVIOUS
<1>1. root \in Roots /\ Depth[root] \in Nat /\ WalkInv /\ RegionsInv /\ ObjectInv /\ MemoryInv
      /\ UnreadInv /\ BatchInv /\ BasedInv
  BY RootsAreDeep DEF IInv, WalkInv
<1>2. /\ next \in DOMAIN regions /\ ~ReadableRegion(next)
      /\ next' = CallEnd(next) + 1
      /\ root' = root /\ mem' = mem /\ level' = level /\ regions' = regions /\ object' = object
      /\ calls' = calls /\ writes' = writes /\ source' = source
  BY DEF Fault, ReadableRegion
<1>3. TreeFields' = TreeFields
  BY <1>2 DEF TreeFields
<1> DEFINE L == Len(regions)
           e == CallEnd(next)
<1>4. L \in Nat /\ DOMAIN regions = 1 .. L /\ next \in 1 .. L
  BY <1>1, <1>2, RegionsAre
<1>5. /\ e \in next .. L
      /\ \A i \in next .. e : Batch(i) = Batch(next)
      /\ e < L => Batch(e + 1) # Batch(e)
  BY <1>4, CallEnds
<1>. HIDE DEF L, e
<1>6. MemoryInv' /\ ObjectInv'
  BY <1>1, <1>2, <1>3 DEF MemoryInv, ObjectInv
<1>7. WalkInv'
  <2>1. next' \in 1 .. L + 1
    BY <1>2, <1>4, <1>5 DEF e
  <2>. QED
    BY <1>1, <1>2, <1>3, <2>1 DEF WalkInv, L
<1>8. RegionsInv'
  BY <1>1, <1>2, <1>3 DEF RegionsInv, FieldsOfLevel
<1>9. BasedInv'
  BY <1>1, <1>2, <1>3 DEF BasedInv
<1>10. next' = e + 1
  BY <1>2 DEF e
<1>11. UnreadInv'
  <2>1. \A i \in DOMAIN regions : i >= e + 1 => i >= next
    BY <1>4, <1>5
  <2>. QED
    BY <1>1, <1>2, <1>3, <1>10, <2>1 DEF UnreadInv
<1>12. BatchInv'
  <2>1. ASSUME NEW i \in DOMAIN regions, i < e + 1
        PROVE  source[regions[i].to] # NoAddr
                 <=> \A j \in 1 .. i : Batch(j) = Batch(i) => ReadableRegion(j)
    <3>1. CASE i < next
      BY <1>1, <3>1, Zenon DEF BatchInv
    <3>2. CASE i >= next
      <4>1. source[regions[i].to] = NoAddr
        BY <1>1, <3>2, Zenon DEF UnreadInv
      <4>2. i \in next .. e /\ next \in 1 .. i
        BY <1>4, <1>5, <2>1, <3>2
      <4>3. Batch(next) = Batch(i)
        BY <1>5, <4>2
      <4>. QED
        BY <1>2, <4>1, <4>2, <4>3
    <3>. QED
      BY <1>4, <3>1, <3>2
  <2>2. ASSUME e + 1 \in DOMAIN regions, NEW j \in 1 .. e PROVE Batch(j) # Batch(e + 1)
    <3>1. e \in Nat \ {0} /\ e + 1 \in Nat \ {0} /\ j \in Nat \ {0} /\ j <= e /\ e <= e + 1
      BY <1>4, <1>5
    <3>2. /\ Batch(j) \in Nat /\ Batch(e) \in Nat /\ Batch(e + 1) \in Nat
          /\ Batch(j) <= Batch(e) /\ Batch(e) <= Batch(e + 1)
      BY <3>1, BatchesFollow
    <3>3. e < L
      BY <1>4, <1>5, <2>2
    <3>. QED
      BY <1>5, <3>2, <3>3
  <2>3. (e + 1) - 1 = e
    BY <1>4, <1>5
  <2>. QED
    BY <1>2, <1>10, <2>1, <2>2, <2>3 DEF BatchInv, ReadableRegion, Readable
<1>. QED
  BY <1>6, <1>7, <1>8, <1>9, <1>11, <1>12 DEF IInv

LEMMA DescendKeeps == IInv /\ Descend => IInv'
<1> SUFFICES ASSUME IInv, Descend PROVE IInv'
  OBVIOUS
<1>1. root \in Roots /\ Depth[root] \in Nat /\ WalkInv /\ RegionsInv /\ ObjectInv /\ MemoryInv
      /\ UnreadInv /\ BatchInv /\ BasedInv
  BY RootsAreDeep DEF IInv, WalkInv
<1>2. /\ level \in 0 .. Depth[root] - 1 /\ level' = level + 1 /\ next' = 1
      /\ root' = root /\ mem' = mem /\ object' = object /\ source' = source
      /\ calls' = calls /\ writes' = writes
  BY DEF Descend
<1>3. TreeFields' = TreeFields
  BY <1>2 DEF TreeFields
<1>4. PICK n : n = level + 1
  OBVIOUS
<1>5. n \in 1 .. Depth[root] /\ level' = n /\ level \in Nat
  BY <1>1, <1>2, <1>4
<1>6. PICK rs : rs = FillLevel(n)
  OBVIOUS
<1>7. regions' = rs /\ FieldsOfLevel(rs, n) /\ \A i \in DOMAIN rs : rs[i].addr = AddrIn(root, object, rs[i].to)
  <2>1. regions' = FillLevel(n)
    BY <1>4, <1>2 DEF Descend
  <2>. QED
    BY <1>1, <1>5, <1>6, <2>1, LevelRegions
<1>8. rs \in Seq([to : TreeFields, addr : Nat, size : Nat])
  BY <1>7, Zenon DEF FieldsOfLevel
<1>9. Len(rs) \in Nat /\ DOMAIN rs = 1 .. Len(rs)
  BY <1>8, LenProperties
<1>10. \A i \in DOMAIN rs : rs[i].to \in TreeFields /\ Len(rs[i].to[1]) = n
  <2>1. \A i \in DOMAIN rs : rs[i] \in [to : TreeFields, addr : Nat, size : Nat]
    BY <1>8, <1>9, ElementOfSeq
  <2>. QED
    BY <1>7, <2>1 DEF FieldsOfLevel
<1>11. \A k \in TreeFields : Len(k[1]) \in Nat
  BY <1>1, FieldNumbersOfTree
<1>12. \A k \in TreeFields : Len(k[1]) >= n => source[k] = NoAddr
  <2> TAKE k \in TreeFields
  <2>. HAVE Len(k[1]) >= n
  <2>1. Len(k[1]) > level
    BY <1>4, <1>5, <1>11
  <2>. QED
    BY <1>1, <2>1, Zenon DEF UnreadInv
<1>13. MemoryInv' /\ ObjectInv'
  BY <1>1, <1>2, <1>3 DEF MemoryInv, ObjectInv
<1>14. WalkInv'
  BY <1>1, <1>2, <1>3, <1>5, <1>7, <1>9 DEF WalkInv
<1>15. RegionsInv'
  BY <1>2, <1>3, <1>5, <1>7 DEF RegionsInv, FieldsOfLevel
<1>16. UnreadInv'
  <2>1. \A k \in TreeFields : Len(k[1]) > n => source[k] = NoAddr
    BY <1>5, <1>11, <1>12
  <2>2. \A i \in DOMAIN rs : source[rs[i].to] = NoAddr
    BY <1>5, <1>10, <1>12
  <2>. QED
    BY <1>2, <1>3, <1>5, <1>7, <2>1, <2>2 DEF UnreadInv
<1>17. BatchInv'
  BY <1>2, <1>7, <1>9 DEF BatchInv
<1>18. BasedInv'
  BY <1>1, <1>2, <1>3, <1>7 DEF BasedInv
<1>. QED
  BY <1>13, <1>14, <1>15, <1>16, <1>17, <1>18 DEF IInv

LEMMA WritesKeep == IInv /\ TargetWrites => IInv'
<1> SUFFICES ASSUME IInv, NEW a \in Hot, NEW v \in HotValues,
                    writes < MaxWrites, mem' = [mem EXCEPT ![a] = v], writes' = writes + 1,
                    UNCHANGED <<root, object, level, regions, next, calls, source>>
             PROVE  IInv'
  BY DEF TargetWrites
<1>1. WalkInv /\ RegionsInv /\ ObjectInv /\ MemoryInv /\ UnreadInv /\ BatchInv /\ BasedInv
  BY DEF IInv
<1>2. TreeFields' = TreeFields
  BY DEF TreeFields
<1>3. v \in Nat /\ a \in DOMAIN mem
  BY <1>1, MemoryAssumption DEF MemoryInv
<1>4. DOMAIN mem' = DOMAIN mem
  OBVIOUS
<1>5. MemoryInv'
  <2>1. mem' \in [DOMAIN mem -> Nat]
    BY <1>1, <1>3 DEF MemoryInv
  <2>. QED
    BY <1>1, <1>4, <2>1 DEF MemoryInv
<1>6. ObjectInv' /\ RegionsInv' /\ UnreadInv' /\ BasedInv'
  BY <1>1, <1>2 DEF ObjectInv, RegionsInv, FieldsOfLevel, UnreadInv, BasedInv
<1>7. WalkInv'
  BY <1>1, <1>2, MemoryAssumption DEF WalkInv
<1>8. BatchInv'
  BY <1>1, <1>4 DEF BatchInv, ReadableRegion, Readable
<1>. QED
  BY <1>5, <1>6, <1>7, <1>8 DEF IInv

LEMMA StutterKeeps == IInv /\ UNCHANGED vars => IInv'
<1> SUFFICES ASSUME IInv, UNCHANGED vars PROVE IInv'
  OBVIOUS
<1>1. TreeFields' = TreeFields
  BY DEF vars, TreeFields
<1>2. MemoryInv' /\ WalkInv' /\ ObjectInv'
  BY <1>1 DEF vars, IInv, MemoryInv, WalkInv, ObjectInv
<1>3. RegionsInv' /\ UnreadInv' /\ BasedInv'
  BY <1>1 DEF vars, IInv, RegionsInv, FieldsOfLevel, UnreadInv, BasedInv
<1>4. BatchInv'
  BY DEF vars, IInv, BatchInv, ReadableRegion, Readable
<1>. QED
  BY <1>2, <1>3, <1>4 DEF IInv

LEMMA Inductive == Spec => []IInv
<1>1. IInv /\ [Next]_vars => IInv'
  BY CallKeeps, CopyKeeps, FaultKeeps, DescendKeeps, WritesKeep, StutterKeeps DEF Next
<1>. QED
  BY IInvInit, <1>1, PTL DEF Spec

--------------------------------------------------------------------------------
(* What follows from it *)

\* A region that cannot be read costs no more than the rest of its system call:
\* at the end of a level whose regions the arrays hold, what has been read is, of
\* every UIO_MAXIOV regions, the ones before the first that cannot be read,
\* whatever the target writes meanwhile and wherever the faults fall.
THEOREM FaultsStayInTheirCall == Spec => []FailureContained
<1>1. IInv => FailureContained
  <2> SUFFICES ASSUME IInv, LevelRead, NEW i \in DOMAIN regions
               PROVE  source[regions[i].to] # NoAddr <=>
                        \A j \in 1 .. i : Batch(j) = Batch(i) => Readable(regions[j].addr, regions[j].size)
    BY DEF FailureContained
  <2>1. Len(regions) \in Nat /\ DOMAIN regions = 1 .. Len(regions) /\ next > Len(regions)
        /\ next \in Nat
    BY RegionsAre DEF IInv, WalkInv, LevelRead
  <2>2. i < next
    BY <2>1
  <2>. QED
    BY <2>2 DEF IInv, BatchInv, ReadableRegion
<1>. QED
  BY <1>1, Inductive, PTL

\* Where a field is read, relative to its node, is what the code computes.
LEMMA ReadAtIs ==
  ASSUME root \in Roots, NEW k \in TreeFields
  PROVE  ReadAt(k) = OffsetAt(root, k)
<1>1. PICK n, j, i : IsField(root, k, n, j, i)
  BY FieldLevel, Zenon DEF TreeFields
<1>2. k[2] = i /\ (i # 0 => NodeType(k[1]) \in DOMAIN Struct /\ i \in DOMAIN Struct[NodeType(k[1])])
  BY <1>1, FieldIs DEF NodeType
<1>3. k[2] # 0 => Offsets[NodeType(k[1])][k[2]] = Layout[NodeType(k[1])][k[2]] - Shift(NodeType(k[1]), k[2])
  BY <1>2, ShiftedLayout
<1>. QED
  BY <1>3, Zenon DEF ReadAt, OffsetAt, NodeType

\* As long as the arrays hold the regions of each level, a struct's members are
\* read from where the pointer now in the object leads, and from no struct it led
\* to before, whatever the target writes meanwhile and wherever the faults fall;
\* each where it lies, but for the plain members that a struct begins with.
THEOREM OneTree == Spec => []Coherent
<1>1. IInv => Coherent
  <2> SUFFICES ASSUME IInv PROVE Coherent
    OBVIOUS
  <2>1. TypeOK
    <3>1. \A r \in Range(regions) : r.to \in TreeFields
      BY RegionsAre DEF IInv, Range
    <3>. QED
      BY <3>1 DEF TypeOK, IInv, WalkInv, ObjectInv
  <2>2. ASSUME NEW k \in TreeFields, source[k] # NoAddr, k[1] # <<>>
        PROVE  source[k] = object[<<Front(k[1]), Last(k[1])>>][1] + ReadAt(k)
    <3>1. source[k] = object[<<Front(k[1]), Last(k[1])>>][1] + OffsetAt(root, k)
      BY <2>2, Zenon DEF IInv, BasedInv, AddrIn, BaseIn
    <3>2. ReadAt(k) = OffsetAt(root, k)
      BY ReadAtIs DEF IInv, WalkInv
    <3>. QED
      BY <3>1, <3>2, Zenon
  <2>. QED
    BY <2>1, <2>2 DEF Coherent
<1>. QED
  BY <1>1, Inductive, PTL

--------------------------------------------------------------------------------
(* An undisturbed call reads the tree *)

\* The address of a node in a memory m, and of its fields.
Follow(m, a) == IF a \in DOMAIN m THEN m[a] ELSE Null
AddrFor(t, m, p) ==
    LET addr[n \in 0 .. Len(p)] ==
          IF n = 0 THEN RootAddr
          ELSE LET a == addr[n - 1] + Layout[TypeAt(t, SubSeq(p, 1, n - 1))][p[n]]
               IN  IF a \in DOMAIN m THEN m[a] ELSE Null
    IN  addr[Len(p)]
FieldAddrFor(t, m, k) ==
    AddrFor(t, m, k[1]) + (IF k[2] = 0 THEN 0 ELSE Layout[TypeAt(t, k[1])][k[2]])

AddrsAlong(f, t, m, p, l) ==
    /\ f[0] = RootAddr
    /\ \A n \in 1 .. l : f[n - 1] \in Nat /\ f[n] \in Nat
                         /\ f[n] = Follow(m, f[n - 1] + Layout[TypeAt(t, SubSeq(p, 1, n - 1))][p[n]])

LEMMA AddrsAre ==
  ASSUME NEW t, NEW m, m \in [DOMAIN m -> Nat], NEW p, NEW l \in Nat, l = Len(p)
  PROVE  \E f : AddrFor(t, m, p) = f[l] /\ AddrsAlong(f, t, m, p, l)
<1> DEFINE Step(n, x) == Follow(m, x + Layout[TypeAt(t, SubSeq(p, 1, n - 1))][p[n]])
           F == [z \in (1 .. l) \X Nat |-> Step(z[1], z[2])]
<1>1. \A n \in 1 .. l : \A x \in Nat : Step(n, x) \in Nat
  BY DEF Follow, Null
<1>. HIDE DEF Step
<1>2. \A n \in 1 .. l : \A x \in Nat : F[<<n, x>>] = Step(n, x)
  OBVIOUS
<1>. HIDE DEF F
<1>3. RootAddr \in Nat
  BY MemoryAssumption
<1>4. PICK f : Defines(f, Nat, RootAddr, l, F)
  <2>1. \A n \in 1 .. l : \A x \in Nat : F[<<n, x>>] \in Nat
    BY <1>1, <1>2
  <2>. QED
    BY <1>3, <2>1, Recursion
<1>5. f \in [0 .. l -> Nat] /\ f[0] = RootAddr
  BY <1>4, Zenon DEF Defines
<1>6. \A n \in 1 .. l : f[n - 1] \in Nat /\ f[n] \in Nat /\ f[n] = Step(n, f[n - 1])
  <2> TAKE n \in 1 .. l
  <2>1. n - 1 \in 0 .. l /\ n \in 0 .. l
    OBVIOUS
  <2>2. f[n - 1] \in Nat /\ f[n] \in Nat
    BY <1>5, <2>1
  <2>3. f[n] = F[<<n, f[n - 1]>>]
    BY <1>4, Zenon DEF Defines
  <2>. QED
    BY <1>2, <2>2, <2>3
<1> DEFINE h == [n \in 0 .. l |-> IF n = 0 THEN RootAddr ELSE Step(n, f[n - 1])]
<1>7. f = h
  <2>1. ASSUME NEW i \in 0 .. l PROVE f[i] = h[i]
    <3>1. i = 0 \/ i \in 1 .. l
      OBVIOUS
    <3>. QED
      BY <1>5, <1>6, <3>1
  <2>2. f = [i \in 0 .. l |-> f[i]] /\ h = [i \in 0 .. l |-> h[i]]
    BY <1>5
  <2>. HIDE DEF h
  <2>. QED
    BY <2>1, <2>2
<1> DEFINE c == CHOOSE x : x = [n \in 0 .. l |-> IF n = 0 THEN RootAddr ELSE Step(n, x[n - 1])]
<1>8. c = [n \in 0 .. l |-> IF n = 0 THEN RootAddr ELSE Step(n, c[n - 1])]
  BY <1>7, Zenon
<1>9. AddrFor(t, m, p) = c[l]
  BY DEF AddrFor, Step, Follow
<1>. HIDE DEF c
<1> DEFINE k == [n \in 0 .. l |-> IF n = 0 THEN RootAddr ELSE Step(n, c[n - 1])]
<1>10. k[0] = RootAddr /\ \A n \in 1 .. l : k[n] = Step(n, c[n - 1])
  <2>1. 0 \in 0 .. l /\ \A n \in 1 .. l : n \in 0 .. l /\ n # 0
    OBVIOUS
  <2>. QED
    BY <2>1
<1>11. c = k
  BY <1>8, Zenon
<1>. HIDE DEF k
<1>12. c[0] = RootAddr /\ \A n \in 1 .. l : c[n] = Step(n, c[n - 1])
  BY <1>10, <1>11, Zenon
<1> DEFINE T == {n \in 0 .. l : c[n] \in Nat}
<1>13. \A n \in 0 .. l : n \in T
  <2>1. 0 \in T
    BY <1>3, <1>12
  <2>2. \A n \in 1 .. l : n - 1 \in T => n \in T
    BY <1>1, <1>12
  <2>. HIDE DEF T
  <2>. QED
    BY <2>1, <2>2, UpTo
<1>14. \A n \in 1 .. l : c[n - 1] \in Nat /\ c[n] \in Nat
  <2>1. \A n \in 1 .. l : n - 1 \in 0 .. l /\ n \in 0 .. l
    OBVIOUS
  <2>. QED
    BY <1>13, <2>1
<1>15. AddrsAlong(c, t, m, p, l)
  BY <1>12, <1>14, Zenon DEF AddrsAlong, Step
<1>. QED
  BY <1>9, <1>15, Zenon

LEMMA RootAddrFor ==
  ASSUME NEW t, NEW m, m \in [DOMAIN m -> Nat]
  PROVE  AddrFor(t, m, <<>>) = RootAddr
<1>1. 0 \in Nat /\ 0 = Len(<<>>)
  OBVIOUS
<1>2. PICK f : AddrFor(t, m, <<>>) = f[0] /\ AddrsAlong(f, t, m, <<>>, 0)
  BY <1>1, AddrsAre, Zenon
<1>. QED
  BY <1>2, Zenon DEF AddrsAlong

\* A child lies where the pointer field of its parent leads.
LEMMA ChildAddr ==
  ASSUME NEW t, NEW m, m \in [DOMAIN m -> Nat], NEW p \in Seq(Nat), NEW i \in Nat
  PROVE  /\ AddrFor(t, m, p) \in Nat
         /\ AddrFor(t, m, Append(p, i)) = Follow(m, AddrFor(t, m, p) + Layout[TypeAt(t, p)][i])
<1> DEFINE l == Len(p)
           q == Append(p, i)
<1>1. l \in Nat /\ l = Len(p) /\ Len(q) = l + 1 /\ q[l + 1] = i /\ \A n \in 1 .. l : q[n] = p[n]
      /\ q \in Seq(Nat)
  BY AppendProperties
<1>2. \A n \in 1 .. l + 1 : SubSeq(q, 1, n - 1) = SubSeq(p, 1, n - 1)
  <2> TAKE n \in 1 .. l + 1
  <2>. HIDE DEF q, l
  <2>1. n - 1 \in 0 .. l /\ n - 1 \in Int
    BY <1>1
  <2>2. \A j \in 1 .. n - 1 : q[j] \in Nat /\ q[j] = p[j]
    BY <1>1, <2>1
  <2>3. /\ SubSeq(q, 1, n - 1) \in Seq(Nat) /\ Len(SubSeq(q, 1, n - 1)) = n - 1
        /\ \A j \in 1 .. n - 1 : SubSeq(q, 1, n - 1)[j] = q[j]
    BY <2>1, <2>2, SubSeqProperties
  <2>4. /\ SubSeq(p, 1, n - 1) \in Seq(Nat) /\ Len(SubSeq(p, 1, n - 1)) = n - 1
        /\ \A j \in 1 .. n - 1 : SubSeq(p, 1, n - 1)[j] = p[j]
    <3>1. \A j \in 1 .. n - 1 : p[j] \in Nat
      BY <1>1, <2>1
    <3>. QED
      BY <2>1, <3>1, SubSeqProperties
  <2>. QED
    BY <2>2, <2>3, <2>4, SeqEqual
<1>3. SubSeq(q, 1, (l + 1) - 1) = p
  <2>1. SubSeq(p, 1, l) = p
    BY SubSeqFull
  <2>2. (l + 1) - 1 = l /\ l + 1 \in 1 .. l + 1
    BY <1>1
  <2>. HIDE DEF q, l
  <2>. QED
    BY <1>2, <2>1, <2>2
<1>. HIDE DEF l, q
<1>4. PICK f : AddrFor(t, m, p) = f[l] /\ AddrsAlong(f, t, m, p, l)
  BY <1>1, AddrsAre
<1>5. PICK g : AddrFor(t, m, q) = g[l + 1] /\ AddrsAlong(g, t, m, q, l + 1)
  <2>1. l + 1 \in Nat /\ l + 1 = Len(q)
    BY <1>1
  <2>. QED
    BY <2>1, AddrsAre
<1> DEFINE T == {n \in 0 .. l : f[n] = g[n]}
<1>6. 0 \in T
  <2>1. f[0] = g[0]
    BY <1>4, <1>5, Zenon DEF AddrsAlong
  <2>. QED
    BY <1>1, <2>1
<1>7. ASSUME NEW n \in 1 .. l, n - 1 \in T PROVE n \in T
  <2>1. f[n] = Follow(m, f[n - 1] + Layout[TypeAt(t, SubSeq(p, 1, n - 1))][p[n]])
    BY <1>4, Zenon DEF AddrsAlong
  <2>2. n \in 1 .. l + 1 /\ n \in 0 .. l
    BY <1>1
  <2>3. g[n] = Follow(m, g[n - 1] + Layout[TypeAt(t, SubSeq(q, 1, n - 1))][q[n]])
    BY <1>5, <2>2, Zenon DEF AddrsAlong
  <2>4. f[n - 1] = g[n - 1] /\ p[n] = q[n] /\ SubSeq(q, 1, n - 1) = SubSeq(p, 1, n - 1)
    BY <1>1, <1>2, <1>7, <2>2
  <2>5. f[n] = g[n]
    BY <2>1, <2>3, <2>4, Zenon
  <2>. QED
    BY <2>2, <2>5
<1>8. f[l] = g[l]
  <2>1. \A n \in 1 .. l : n - 1 \in T => n \in T
    BY <1>7
  <2>2. l \in 0 .. l
    BY <1>1
  <2>3. l \in T
    <3>. HIDE DEF T
    <3>1. \A n \in 0 .. l : n \in T
      BY <1>1, <1>6, <2>1, UpTo
    <3>. QED
      BY <2>2, <3>1
  <2>. QED
    BY <2>3
<1>9. g[l] \in Nat /\ g[l + 1] = Follow(m, g[l] + Layout[TypeAt(t, p)][i])
  <2>1. l + 1 \in 1 .. l + 1 /\ (l + 1) - 1 = l
    BY <1>1
  <2>2. /\ g[(l + 1) - 1] \in Nat
        /\ g[l + 1] = Follow(m, g[(l + 1) - 1] + Layout[TypeAt(t, SubSeq(q, 1, (l + 1) - 1))][q[l + 1]])
    BY <1>5, <2>1, Zenon DEF AddrsAlong
  <2>. QED
    BY <1>1, <1>3, <2>1, <2>2, Zenon
<1>10. /\ AddrFor(t, m, p) \in Nat
       /\ AddrFor(t, m, q) = Follow(m, AddrFor(t, m, p) + Layout[TypeAt(t, p)][i])
  BY <1>4, <1>5, <1>8, <1>9, Zenon
<1>. QED
  BY <1>10 DEF q

\* Where a call reads the field, if the pointers to it are those of m.
ReadAddrFor(t, m, k) == AddrFor(t, m, k[1]) + OffsetAt(t, k)

\* A field can be read at its address in m; an object holds what a call reads there.
CanRead(t, m, k) == FieldAddrFor(t, m, k) .. FieldAddrFor(t, m, k) + Sizes[t][k] - 1 \subseteq DOMAIN m
ReadsExactly(obj, t, m, k) == \A j \in DOMAIN obj[k] : obj[k][j] = m[ReadAddrFor(t, m, k) + j - 1]

LEMMA SameAddr ==
  ASSUME NEW k
  PROVE  /\ AddrOf(k[1]) = AddrFor(root, mem, k[1])
         /\ Reachable(k) <=> CanRead(root, mem, k)
<1>1. \A p : AddrOf(p) = AddrFor(root, mem, p)
  BY Zenon DEF AddrOf, AddrFor, NodeType
<1>2. FieldAddr(k) = FieldAddrFor(root, mem, k)
  BY <1>1, Zenon DEF FieldAddr, FieldAddrFor, NodeType
<1>. QED
  BY <1>1, <1>2, Zenon DEF Reachable, Readable, CanRead

LEMMA ExactIs ==
  ASSUME IInv, NEW k \in TreeFields, ReadsExactly(object, root, mem, k)
  PROVE  Exact(k)
<1> DEFINE a == AddrOf(k[1]) + ReadAt(k)
           w == Words(a, Sizes[root][k])
<1>1. a = ReadAddrFor(root, mem, k)
  BY SameAddr, ReadAtIs, Zenon DEF ReadAddrFor, IInv, WalkInv
<1>2. object[k] \in Seq(Nat) /\ Len(object[k]) = Sizes[root][k]
  BY DEF IInv, ObjectInv
<1>3. DOMAIN object[k] = 1 .. Sizes[root][k] /\ object[k] = [j \in 1 .. Sizes[root][k] |-> object[k][j]]
  BY <1>2
<1>4. \A j \in 1 .. Sizes[root][k] : object[k][j] = mem[a + j - 1]
  BY <1>1, <1>3 DEF ReadsExactly
<1>5. w = [j \in 1 .. Sizes[root][k] |-> mem[a + j - 1]]
  BY DEF Words
<1>. HIDE DEF a, w
<1>6. object[k] = w
  BY <1>3, <1>4, <1>5
<1>. QED
  BY <1>6 DEF Exact, w, a

\* What a call has read by now, if nothing disturbs it, is the tree.
ExactInv ==
    level >= 0 /\ quiet /\ (\A k \in TreeFields : CanRead(root, mem, k)) =>
      \A k \in TreeFields :
        (Len(k[1]) < level \/ \E i \in DOMAIN regions : i < next /\ regions[i].to = k)
          => ReadsExactly(object, root, mem, k)

\* Where the pointer to a node has been read, the node's fields are read from
\* where it leads.
LEMMA RightAddr ==
  ASSUME IInv, NEW k \in TreeFields,
         k[1] # <<>> => LET up == <<Front(k[1]), Last(k[1])>>
                        IN  CanRead(root, mem, up) /\ ReadsExactly(object, root, mem, up)
  PROVE  AddrIn(root, object, k) = ReadAddrFor(root, mem, k)
<1>0. root \in Roots /\ ObjectInv /\ mem \in [DOMAIN mem -> Nat]
  BY DEF IInv, WalkInv, MemoryInv
<1>1. BaseIn(object, k[1]) = AddrFor(root, mem, k[1])
  <2>1. CASE k[1] = <<>>
    BY <1>0, <2>1, RootAddrFor DEF BaseIn
  <2>2. CASE k[1] # <<>>
    <3> DEFINE up == <<Front(k[1]), Last(k[1])>>
               a == FieldAddrFor(root, mem, up)
    <3>1. /\ up \in TreeFields /\ Sizes[root][up] = 1
          /\ k[1] = Append(up[1], up[2]) /\ up[1] \in Seq(Nat) /\ up[2] \in Nat \ {0}
          /\ Declared(Struct[TypeAt(root, up[1])][up[2]])
      BY <1>0, <2>2, PointerAbove, Zenon DEF PointerSize
    <3>2. BaseIn(object, k[1]) = object[up][1]
      BY <2>2, Zenon DEF BaseIn
    <3>3. CanRead(root, mem, up) /\ ReadsExactly(object, root, mem, up)
      BY <2>2
    <3>4. TypeAt(root, up[1]) \in DOMAIN Struct /\ up[2] \in DOMAIN Struct[TypeAt(root, up[1])]
      <4>1. PICK n, j, i : IsField(root, up, n, j, i)
        BY <1>0, <3>1, FieldLevel, Zenon DEF TreeFields
      <4>. HIDE DEF up
      <4>2. up[2] = i /\ i # 0
        BY <1>0, <3>1, <4>1, FieldIs
      <4>. QED
        BY <1>0, <4>1, <4>2, FieldIs
    <3>. HIDE DEF up, a
    <3>5. AddrFor(root, mem, up[1]) \in Nat
          /\ AddrFor(root, mem, k[1]) = Follow(mem, AddrFor(root, mem, up[1]) + Layout[TypeAt(root, up[1])][up[2]])
      <4>1. up[1] \in Seq(Nat) /\ up[2] \in Nat /\ k[1] = Append(up[1], up[2])
        BY <3>1
      <4>. QED
        BY <1>0, <4>1, ChildAddr
    <3>6. /\ Layout[TypeAt(root, up[1])][up[2]] \in Nat
          /\ OffsetAt(root, up) = Layout[TypeAt(root, up[1])][up[2]]
      BY <3>1, <3>4, DeclaredLies DEF OffsetAt
    <3>7. /\ a = AddrFor(root, mem, up[1]) + Layout[TypeAt(root, up[1])][up[2]] /\ a \in Nat
          /\ ReadAddrFor(root, mem, up) = a
      BY <3>1, <3>5, <3>6 DEF FieldAddrFor, ReadAddrFor, a
    <3>8. a \in DOMAIN mem
      <4>1. a .. a + 1 - 1 \subseteq DOMAIN mem
        BY <3>1, <3>3 DEF CanRead, a
      <4>. QED
        BY <3>7, <4>1
    <3>9. object[up][1] = mem[a]
      <4>1. 1 \in DOMAIN object[up]
        BY <1>0, <3>1 DEF ObjectInv
      <4>2. object[up][1] = mem[a + 1 - 1]
        BY <3>3, <3>7, <4>1, Zenon DEF ReadsExactly
      <4>. QED
        BY <3>7, <4>2
    <3>. QED
      BY <3>2, <3>5, <3>7, <3>8, <3>9, Zenon DEF Follow
  <2>. QED
    BY <2>1, <2>2
<1>. QED
  BY <1>1, Zenon DEF AddrIn, ReadAddrFor

\* What is read of a node can be read where all fields of the node can: also of a
\* member that is read from below where it lies.
LEMMA ReadWithin ==
  ASSUME root \in Roots, mem \in [DOMAIN mem -> Nat], NEW k \in TreeFields,
         \A x \in TreeFields : CanRead(root, mem, x)
  PROVE  Readable(ReadAddrFor(root, mem, k), Sizes[root][k])
<1> DEFINE t == TypeAt(root, k[1])
           base == AddrFor(root, mem, k[1])
<1>1. PICK n, j, i : IsField(root, k, n, j, i)
  BY FieldLevel, Zenon DEF TreeFields
<1>2. /\ k[1] = Levels[root][n][j] /\ k[2] = i /\ i \in Nat /\ Sizes[root][k] \in Nat
      /\ k[1] \in Seq(Nat)
      /\ i # 0 => t \in DOMAIN Struct /\ i \in DOMAIN Struct[t] /\ Sizes[root][k] = FieldSize(Struct[t][i])
  BY <1>1, FieldIs
<1>3. base \in Nat
  BY <1>2, ChildAddr
<1>4. CanRead(root, mem, k)
  OBVIOUS
<1>. HIDE DEF t, base
<1>5. CASE i = 0
  <2>1. ReadAddrFor(root, mem, k) = base /\ FieldAddrFor(root, mem, k) = base
    BY <1>2, <1>3, <1>5 DEF ReadAddrFor, FieldAddrFor, OffsetAt, base
  <2>. QED
    BY <1>4, <2>1, Zenon DEF CanRead, Readable
<1>6. CASE i # 0
  <2>1. t \in DOMAIN Struct /\ i \in DOMAIN Struct[t] /\ Sizes[root][k] = FieldSize(Struct[t][i])
    BY <1>2, <1>6
  <2>2. Offsets[t][i] \in Nat /\ ReadAddrFor(root, mem, k) = base + Offsets[t][i]
    BY <1>2, <1>6, <2>1, OffsetsAreNumbers DEF ReadAddrFor, OffsetAt, base, t
  <2>3. ASSUME NEW y \in base + Offsets[t][i] .. base + Offsets[t][i] + Sizes[root][k] - 1
        PROVE  y \in DOMAIN mem
    <3>1. PICK x : x = y - base
      OBVIOUS
    <3>2. x \in Offsets[t][i] .. Offsets[t][i] + FieldSize(Struct[t][i]) - 1 /\ y = base + x
      BY <1>2, <1>3, <2>1, <2>2, <2>3, <3>1
    <3>3. PICK l \in DOMAIN Struct[t] : x \in Layout[t][l] .. Layout[t][l] + FieldSize(Struct[t][l]) - 1
      BY <2>1, <3>2, ReadsMembers DEF InMember
    <3> DEFINE m == <<k[1], l>>
    <3>4. IsField(root, m, n, j, l)
      <4>1. l \in Indices(t)
        BY <2>1, <3>3 DEF Indices, Aggregate
      <4>. QED
        BY <1>1, <1>2, <4>1, Zenon DEF IsField, t
    <3>5. m[1] = k[1] /\ m[2] = l
      OBVIOUS
    <3>. HIDE DEF m
    <3>6. m \in TreeFields /\ l # 0
      <4>1. m \in DOMAIN Sizes[root]
        BY <3>4, FieldsAre, Zenon
      <4>2. l # 0
        BY <2>1, <3>3, Member
      <4>. QED
        BY <4>1, <4>2 DEF TreeFields
    <3>7. Sizes[root][m] = FieldSize(Struct[t][l])
      BY <3>4, <3>5, <3>6, FieldIs DEF t
    <3>8. FieldAddrFor(root, mem, m) = base + Layout[t][l] /\ Layout[t][l] \in Nat
          /\ FieldSize(Struct[t][l]) \in Nat
      BY <2>1, <3>3, <3>5, <3>6, ShiftedLayout, Member DEF FieldAddrFor, base, t
    <3>9. CanRead(root, mem, m)
      BY <3>6
    <3>10. y \in FieldAddrFor(root, mem, m) .. FieldAddrFor(root, mem, m) + Sizes[root][m] - 1
      BY <1>3, <3>2, <3>3, <3>7, <3>8
    <3>. QED
      BY <3>9, <3>10, Zenon DEF CanRead
  <2>. QED
    BY <2>2, <2>3 DEF Readable
<1>. QED
  BY <1>5, <1>6

\* The region copied next, in an undisturbed call, lies where its node does.
LEMMA NextRegionRight ==
  ASSUME IInv, ExactInv, quiet, \A k \in TreeFields : CanRead(root, mem, k),
         next \in DOMAIN regions
  PROVE  /\ regions[next].to \in TreeFields
         /\ regions[next].addr = ReadAddrFor(root, mem, regions[next].to)
         /\ ReadableRegion(next)
<1>1. root \in Roots /\ WalkInv /\ RegionsInv /\ level \in -1 .. Depth[root] /\ Depth[root] \in Nat
  BY RootsAreDeep DEF IInv, WalkInv
<1>2. PICK k : k = regions[next].to
  OBVIOUS
<1>3. /\ k \in TreeFields /\ Len(k[1]) = level /\ level >= 0
      /\ regions[next].size = Sizes[root][k]
      /\ regions[next].addr = AddrIn(root, object, k)
  BY <1>1, <1>2, RegionsAre DEF IInv, BasedInv
<1>4. ASSUME k[1] # <<>>
      PROVE  LET up == <<Front(k[1]), Last(k[1])>>
             IN  CanRead(root, mem, up) /\ ReadsExactly(object, root, mem, up)
  <2> DEFINE up == <<Front(k[1]), Last(k[1])>>
  <2>1. up \in TreeFields /\ Len(k[1]) \in Nat \ {0} /\ Len(up[1]) = Len(k[1]) - 1
    BY <1>1, <1>3, <1>4, PointerAbove, Zenon
  <2>. HIDE DEF up
  <2>2. Len(up[1]) < level
    BY <1>3, <2>1
  <2>3. CanRead(root, mem, up) /\ ReadsExactly(object, root, mem, up)
    BY <1>3, <2>1, <2>2, Zenon DEF ExactInv
  <2>. QED
    BY <2>3 DEF up
<1>5. AddrIn(root, object, k) = ReadAddrFor(root, mem, k)
  BY <1>3, <1>4, RightAddr, Zenon
<1>6. Readable(ReadAddrFor(root, mem, k), Sizes[root][k])
  <2>1. mem \in [DOMAIN mem -> Nat]
    BY DEF IInv, MemoryInv
  <2>. QED
    BY <1>1, <1>3, <2>1, ReadWithin
<1>7. ReadableRegion(next)
  BY <1>2, <1>3, <1>5, <1>6, Zenon DEF ReadableRegion
<1>. QED
  BY <1>2, <1>3, <1>5, <1>7, Zenon

LEMMA CopyExact == IInv /\ ExactInv /\ Copy => ExactInv'
<1> SUFFICES ASSUME IInv, ExactInv, Copy, quiet',
                    \A k \in TreeFields' : CanRead(root, mem, k)',
                    NEW k \in TreeFields',
                    Len(k[1]) < level' \/ \E i \in DOMAIN regions' : i < next' /\ regions'[i].to = k
             PROVE  ReadsExactly(object, root, mem, k)'
  BY DEF ExactInv
<1>1. root \in Roots /\ WalkInv /\ RegionsInv /\ ObjectInv /\ MemoryInv /\ next \in Nat
  BY DEF IInv, WalkInv
<1>2. /\ next \in DOMAIN regions
      /\ next' = next + 1 /\ root' = root /\ mem' = mem /\ level' = level /\ regions' = regions
      /\ quiet' = quiet
      /\ object' = [object EXCEPT ![regions[next].to] = Words(regions[next].addr, regions[next].size)]
  BY DEF Copy
<1>3. TreeFields' = TreeFields
  BY <1>2 DEF TreeFields
<1>4. quiet /\ \A x \in TreeFields : CanRead(root, mem, x)
  <2>1. \A x \in TreeFields : CanRead(root', mem', x)
    BY <1>3
  <2>. QED
    BY <1>2, <2>1
<1>5. PICK r : r = regions[next]
  OBVIOUS
<1>6. r.to \in TreeFields /\ r.addr = ReadAddrFor(root, mem, r.to) /\ ReadableRegion(next)
  BY <1>2, <1>4, <1>5, NextRegionRight, Zenon
<1>7. r.addr \in Nat /\ r.size \in Nat
  BY <1>1, <1>2, <1>5, RegionsAre
<1>8. level >= 0
  <2>1. level # -1 /\ level \in -1 .. Depth[root] /\ Depth[root] \in Nat
    BY <1>1, <1>2, RegionsAre, RootsAreDeep DEF WalkInv
  <2>. QED
    BY <2>1
<1>9. CASE k = r.to
  <2> DEFINE words == Words(r.addr, r.size)
  <2>1. Len(words) = r.size /\ words \in Seq(Nat)
    BY <1>1, <1>5, <1>6, <1>7, WordsAre DEF ReadableRegion
  <2>2. object'[k] = words
    BY <1>1, <1>2, <1>5, <1>6, <1>9 DEF ObjectInv
  <2>3. DOMAIN words = 1 .. r.size /\ \A j \in 1 .. r.size : words[j] = mem[r.addr + j - 1]
    BY DEF Words
  <2>. HIDE DEF words
  <2>4. \A j \in DOMAIN object'[k] : object'[k][j] = mem[ReadAddrFor(root, mem, k) + j - 1]
    BY <1>6, <1>9, <2>2, <2>3
  <2>. QED
    BY <1>2, <2>4 DEF ReadsExactly
<1>10. CASE k # r.to
  <2>1. k \in TreeFields
    BY <1>3
  <2>2. object'[k] = object[k]
    BY <1>1, <1>2, <1>5, <1>10, <2>1 DEF ObjectInv
  <2>3. Len(k[1]) < level \/ \E i \in DOMAIN regions : i < next /\ regions[i].to = k
    <3>1. CASE Len(k[1]) < level'
      BY <1>2, <3>1
    <3>2. ASSUME NEW i \in DOMAIN regions, i < next + 1, regions[i].to = k
          PROVE  i < next
      <4>1. i # next
        BY <1>5, <1>10, <3>2
      <4>2. i \in Nat
        BY <1>1, RegionsAre
      <4>. QED
        BY <1>1, <3>2, <4>1, <4>2
    <3>. QED
      BY <1>2, <3>1, <3>2
  <2>4. ReadsExactly(object, root, mem, k)
    BY <1>4, <1>8, <2>1, <2>3, Zenon DEF ExactInv
  <2>. QED
    BY <1>2, <2>2, <2>4 DEF ReadsExactly
<1>. QED
  BY <1>9, <1>10

LEMMA FaultExact == IInv /\ ExactInv /\ Fault => ExactInv'
<1> SUFFICES ASSUME IInv, ExactInv, Fault, quiet',
                    \A k \in TreeFields' : CanRead(root, mem, k)'
             PROVE  FALSE
  BY DEF ExactInv
<1>1. next \in DOMAIN regions /\ ~ReadableRegion(next) /\ root' = root /\ mem' = mem /\ quiet' = quiet
  BY DEF Fault, ReadableRegion
<1>2. TreeFields' = TreeFields
  BY <1>1 DEF TreeFields
<1>3. quiet /\ \A x \in TreeFields : CanRead(root, mem, x)
  <2>1. \A x \in TreeFields : CanRead(root', mem', x)
    BY <1>2
  <2>. QED
    BY <1>1, <2>1
<1>. QED
  BY <1>1, <1>3, NextRegionRight, Zenon

\* At the end of a level all of its fields have been read.
LEMMA LevelIsRead ==
  ASSUME IInv, LevelRead, level >= 0, NEW k \in TreeFields, Len(k[1]) = level
  PROVE  \E i \in DOMAIN regions : i < next /\ regions[i].to = k
<1>1. level # -1
  OBVIOUS
<1>2. FieldsOfLevel(regions, level)
  BY <1>1 DEF IInv, RegionsInv
<1>3. PICK i \in DOMAIN regions : regions[i].to = k
  BY <1>2, Zenon DEF FieldsOfLevel
<1>4. DOMAIN regions = 1 .. Len(regions) /\ Len(regions) \in Nat /\ next \in Nat
  BY RegionsAre DEF IInv, WalkInv
<1>5. i < next
  BY <1>4 DEF LevelRead
<1>. QED
  BY <1>3, <1>5

LEMMA DescendExact == IInv /\ ExactInv /\ Descend => ExactInv'
<1> SUFFICES ASSUME IInv, ExactInv, Descend, quiet',
                    \A k \in TreeFields' : CanRead(root, mem, k)',
                    NEW k \in TreeFields',
                    Len(k[1]) < level' \/ \E i \in DOMAIN regions' : i < next' /\ regions'[i].to = k
             PROVE  ReadsExactly(object, root, mem, k)'
  BY DEF ExactInv
<1>1. root \in Roots /\ WalkInv /\ RegionsInv /\ Depth[root] \in Nat
  BY RootsAreDeep DEF IInv, WalkInv
<1>2. /\ LevelRead /\ level \in 0 .. Depth[root] - 1 /\ level' = level + 1 /\ next' = 1
      /\ root' = root /\ mem' = mem /\ object' = object /\ quiet' = quiet
  BY DEF Descend
<1>3. TreeFields' = TreeFields /\ k \in TreeFields
  BY <1>2 DEF TreeFields
<1>4. quiet /\ \A x \in TreeFields : CanRead(root, mem, x)
  <2>1. \A x \in TreeFields : CanRead(root', mem', x)
    BY <1>3
  <2>. QED
    BY <1>2, <2>1
<1>5. Len(k[1]) \in Nat /\ level \in Nat
  BY <1>1, <1>2, <1>3, FieldNumbersOfTree
<1>6. Len(k[1]) < level + 1
  <2>1. IInv'
    BY DescendKeeps
  <2>2. DOMAIN regions' = 1 .. Len(regions')
    <3>1. RegionsInv' /\ WalkInv'
      BY <2>1 DEF IInv
    <3>2. (Len(regions) \in Nat /\ DOMAIN regions = 1 .. Len(regions))'
      BY <3>1, RegionsAre, PTL
    <3>. QED
      BY <3>2
  <2>. QED
    BY <1>2, <2>2
<1>7. Len(k[1]) < level \/ \E i \in DOMAIN regions : i < next /\ regions[i].to = k
  <2>1. Len(k[1]) < level \/ Len(k[1]) = level
    BY <1>5, <1>6
  <2>2. level >= 0
    BY <1>5
  <2>. QED
    BY <1>2, <1>3, <2>1, <2>2, LevelIsRead
<1>8. ReadsExactly(object, root, mem, k)
  <2>1. level >= 0
    BY <1>5
  <2>. QED
    BY <1>3, <1>4, <1>7, <2>1, Zenon DEF ExactInv
<1>. QED
  BY <1>2, <1>8 DEF ReadsExactly

LEMMA CallExact == IInv /\ Call => ExactInv'
<1> SUFFICES ASSUME IInv, Call, NEW k \in TreeFields',
                    Len(k[1]) < level' \/ \E i \in DOMAIN regions' : i < next' /\ regions'[i].to = k
             PROVE  FALSE
  BY DEF ExactInv
<1>1. level' = 0 /\ next' = 1 /\ regions' = Fill(<<>>, RootAddr) /\ root' = root
  BY DEF Call
<1>2. root \in Roots /\ k \in TreeFields
  BY <1>1 DEF IInv, WalkInv, TreeFields
<1>3. PICK rs : rs = Fill(<<>>, RootAddr)
  OBVIOUS
<1>4. FieldsOfLevel(rs, 0)
  BY <1>2, <1>3, RootRegions, Zenon
<1>5. DOMAIN rs = 1 .. Len(rs)
  BY <1>4, LenProperties DEF FieldsOfLevel
<1>6. Len(k[1]) \in 0 .. Depth[root] /\ Depth[root] \in Nat
  BY <1>2, FieldNumbersOfTree, RootsAreDeep
<1>. QED
  BY <1>1, <1>3, <1>5, <1>6

LEMMA InductiveExact == Spec => []ExactInv
<1>1. Init => ExactInv
  BY DEF Init, ExactInv
<1>2. IInv /\ ExactInv /\ [Next]_vars => ExactInv'
  <2> SUFFICES ASSUME IInv, ExactInv, [Next]_vars PROVE ExactInv'
    OBVIOUS
  <2>1. CASE TargetWrites
    BY <2>1 DEF TargetWrites, ExactInv
  <2>2. CASE UNCHANGED vars
    <3>1. TreeFields' = TreeFields
      BY <2>2 DEF vars, TreeFields
    <3>. QED
      BY <2>2, <3>1 DEF vars, ExactInv
  <2>. QED
    BY <2>1, <2>2, CallExact, CopyExact, FaultExact, DescendExact DEF Next
<1>. QED
  BY <1>1, <1>2, Inductive, PTL DEF Spec

\* One read for the whole tree: where the target has not written meanwhile, all of
\* the tree can be read and every level has found places in the arrays, every
\* field holds the words that lie where the pointers lead, but for the plain
\* members that a struct begins with: from the second on they hold the words that
\* far below their own as the first is long.
THEOREM WholeTreeRead == Spec => []ReadsTree
<1>1. IInv /\ ExactInv => ReadsTree
  <2> SUFFICES ASSUME IInv, ExactInv, Finished, quiet, \A k \in TreeFields : Reachable(k),
                      NEW k \in TreeFields
               PROVE  Exact(k)
    BY DEF ReadsTree
  <2>1. root \in Roots /\ Depth[root] \in Nat /\ level = Depth[root] /\ LevelRead
    BY RootsAreDeep DEF IInv, WalkInv, Finished
  <2>2. \A x \in TreeFields : CanRead(root, mem, x)
    BY SameAddr, Zenon
  <2>3. Len(k[1]) \in 0 .. level /\ level >= 0
    BY <2>1, FieldNumbersOfTree
  <2>4. Len(k[1]) < level \/ \E i \in DOMAIN regions : i < next /\ regions[i].to = k
    <3>1. Len(k[1]) < level \/ Len(k[1]) = level
      BY <2>1, <2>3
    <3>. QED
      BY <2>1, <2>3, <3>1, LevelIsRead
  <2>5. ReadsExactly(object, root, mem, k)
    BY <2>2, <2>3, <2>4, Zenon DEF ExactInv
  <2>. QED
    BY <2>5, ExactIs, Zenon
<1>. QED
  BY <1>1, Inductive, InductiveExact, PTL

--------------------------------------------------------------------------------
(* Sums of sequences *)

\* The sums of the first elements of a sequence of numbers.
Sums(f, s, d) == /\ f \in [0 .. d -> Nat]
                 /\ f[0] = 0
                 /\ \A n \in 1 .. d : f[n] = f[n - 1] + s[n]

LEMMA TotalIs ==
  ASSUME NEW s \in Seq(Nat), NEW d \in Nat, d = Len(s)
  PROVE  \E f : Sums(f, s, d) /\ Total(s) = f[d]
<1> DEFINE F == [z \in (1 .. d) \X Nat |-> z[2] + s[z[1]]]
<1>1. \A n \in 1 .. d : s[n] \in Nat
  OBVIOUS
<1>2. \A n \in 1 .. d : \A x \in Nat : F[<<n, x>>] = x + s[n] /\ F[<<n, x>>] \in Nat
  <2> TAKE n \in 1 .. d
  <2> TAKE x \in Nat
  <2>1. F[<<n, x>>] = x + s[n]
    OBVIOUS
  <2>. QED
    BY <1>1, <2>1
<1>. HIDE DEF F
<1>3. PICK f : Defines(f, Nat, 0, d, F)
  <2>1. \A n \in 1 .. d : \A x \in Nat : F[<<n, x>>] \in Nat
    BY <1>2
  <2>2. 0 \in Nat
    OBVIOUS
  <2>. QED
    BY <2>1, <2>2, Recursion
<1>4. f \in [0 .. d -> Nat] /\ f[0] = 0
  BY <1>3, Zenon DEF Defines
<1>5. \A n \in 1 .. d : f[n - 1] \in Nat /\ f[n] = f[n - 1] + s[n]
  <2> TAKE n \in 1 .. d
  <2>1. n - 1 \in 0 .. d
    OBVIOUS
  <2>2. f[n - 1] \in Nat
    BY <1>4, <2>1
  <2>3. f[n] = F[<<n, f[n - 1]>>]
    BY <1>3, Zenon DEF Defines
  <2>. QED
    BY <1>2, <2>2, <2>3
<1> DEFINE h == [n \in 0 .. d |-> IF n = 0 THEN 0 ELSE f[n - 1] + s[n]]
<1>6. f = h
  <2>1. ASSUME NEW i \in 0 .. d PROVE f[i] = h[i]
    <3>1. i = 0 \/ i \in 1 .. d
      OBVIOUS
    <3>. QED
      BY <1>4, <1>5, <3>1
  <2>2. f = [i \in 0 .. d |-> f[i]] /\ h = [i \in 0 .. d |-> h[i]]
    BY <1>4
  <2>. HIDE DEF h
  <2>. QED
    BY <2>1, <2>2
<1> DEFINE c == CHOOSE x : x = [n \in 0 .. d |-> IF n = 0 THEN 0 ELSE x[n - 1] + s[n]]
<1>7. c = [n \in 0 .. d |-> IF n = 0 THEN 0 ELSE c[n - 1] + s[n]]
  BY <1>6, Zenon
<1>8. Total(s) = c[d]
  BY DEF Total
<1>. HIDE DEF c
<1> DEFINE k == [n \in 0 .. d |-> IF n = 0 THEN 0 ELSE c[n - 1] + s[n]]
<1>9. k[0] = 0 /\ \A n \in 1 .. d : k[n] = c[n - 1] + s[n]
  <2>1. 0 \in 0 .. d /\ \A n \in 1 .. d : n \in 0 .. d /\ n # 0
    OBVIOUS
  <2>. QED
    BY <2>1
<1>10. c = k
  BY <1>7, Zenon
<1>. HIDE DEF k
<1>11. c[0] = 0 /\ \A n \in 1 .. d : c[n] = c[n - 1] + s[n]
  BY <1>9, <1>10, Zenon
<1> DEFINE T == {n \in 0 .. d : c[n] = f[n]}
<1>12. \A n \in 0 .. d : n \in T
  <2>1. 0 \in T
    BY <1>4, <1>11
  <2>2. ASSUME NEW n \in 1 .. d, n - 1 \in T PROVE n \in T
    <3>1. c[n - 1] = f[n - 1] /\ n \in 0 .. d
      BY <2>2
    <3>2. c[n] = f[n]
      BY <1>5, <1>11, <3>1, Zenon
    <3>. QED
      BY <3>1, <3>2
  <2>3. \A n \in 1 .. d : n - 1 \in T => n \in T
    BY <2>2
  <2>. HIDE DEF T
  <2>. QED
    BY <2>1, <2>3, UpTo
<1>13. Total(s) = f[d]
  <2>1. d \in 0 .. d
    OBVIOUS
  <2>. QED
    BY <1>8, <1>12, <2>1
<1>14. Sums(f, s, d)
  BY <1>4, <1>5, Zenon DEF Sums
<1>. QED
  BY <1>13, <1>14

LEMMA TotalNat ==
  ASSUME NEW s \in Seq(Nat)
  PROVE  Total(s) \in Nat
<1>1. PICK d \in Nat : d = Len(s)
  OBVIOUS
<1>2. PICK f : Sums(f, s, d) /\ Total(s) = f[d]
  BY <1>1, TotalIs
<1>3. f \in [0 .. d -> Nat]
  BY <1>2, Zenon DEF Sums
<1>4. d \in 0 .. d
  OBVIOUS
<1>. QED
  BY <1>2, <1>3, <1>4

\* The same numbers have the same sums.
Same(s, r, e) == \A n \in 1 .. e : s[n] = r[n]

LEMMA SameSums ==
  ASSUME NEW s, NEW r, NEW d \in Nat, NEW e \in 0 .. d, NEW f, NEW g,
         Sums(f, s, d), Sums(g, r, e), Same(s, r, e)
  PROVE  f[e] = g[e]
<1> DEFINE T == {n \in 0 .. e : f[n] = g[n]}
<1>1. 0 \in T
  <2>1. f[0] = g[0]
    BY Zenon DEF Sums
  <2>. QED
    BY <2>1
<1>2. ASSUME NEW n \in 1 .. e, n - 1 \in T PROVE n \in T
  <2>1. n \in 1 .. d /\ n \in 0 .. e
    OBVIOUS
  <2>2. f[n - 1] = g[n - 1]
    BY <1>2
  <2>3. f[n] = f[n - 1] + s[n] /\ g[n] = g[n - 1] + r[n]
    BY <2>1, Zenon DEF Sums
  <2>4. f[n] = g[n]
    BY <2>2, <2>3, Zenon DEF Same
  <2>. QED
    BY <2>1, <2>4
<1>3. \A n \in 1 .. e : n - 1 \in T => n \in T
  BY <1>2
<1>4. e \in Nat /\ e \in 0 .. e
  OBVIOUS
<1>. HIDE DEF T
<1>5. \A n \in 0 .. e : n \in T
  BY <1>1, <1>3, <1>4, UpTo
<1>6. e \in T
  BY <1>4, <1>5
<1>. QED
  BY <1>6 DEF T

\* The sum of g over a sequence.
SumOf(g, s) == Total([i \in DOMAIN s |-> g[s[i]]])

Values(v, g, s) == /\ v \in Seq(Nat) /\ Len(v) = Len(s)
                   /\ \A i \in 1 .. Len(s) : v[i] = g[s[i]]

LEMMA ValuesAre ==
  ASSUME NEW S, NEW g \in [S -> Nat], NEW s \in Seq(S)
  PROVE  Values([i \in DOMAIN s |-> g[s[i]]], g, s)
<1> DEFINE v == [i \in DOMAIN s |-> g[s[i]]]
           l == Len(s)
<1>1. l \in Nat /\ DOMAIN s = 1 .. l /\ \A i \in 1 .. l : s[i] \in S
  OBVIOUS
<1>. HIDE DEF l
<1>2. v \in [1 .. l -> Nat]
  BY <1>1
<1>3. v \in Seq(Nat)
  BY <1>1, <1>2, SeqDef
<1>4. Len(v) = l
  <2>1. DOMAIN v = 1 .. l
    BY <1>2
  <2>2. Len(v) \in Nat /\ DOMAIN v = 1 .. Len(v)
    BY <1>3, LenProperties
  <2>. HIDE DEF v
  <2>. QED
    BY <1>1, <2>1, <2>2
<1>5. \A i \in 1 .. l : v[i] = g[s[i]]
  BY <1>1
<1>. QED
  BY <1>3, <1>4, <1>5, Zenon DEF l, Values

LEMMA SumConcat ==
  ASSUME NEW S, NEW g \in [S -> Nat], NEW s \in Seq(S), NEW r \in Seq(S)
  PROVE  /\ SumOf(g, s) \in Nat /\ SumOf(g, r) \in Nat
         /\ SumOf(g, s \o r) = SumOf(g, s) + SumOf(g, r)
<1> DEFINE a == Len(s)
           b == Len(r)
           u == s \o r
           vs == [i \in DOMAIN s |-> g[s[i]]]
           vr == [i \in DOMAIN r |-> g[r[i]]]
           vu == [i \in DOMAIN u |-> g[u[i]]]
<1>1. /\ a \in Nat /\ b \in Nat /\ u \in Seq(S) /\ Len(u) = a + b
      /\ \A i \in 1 .. a : u[i] = s[i]
      /\ \A i \in 1 .. b : u[a + i] = r[i]
  <2>1. a \in Nat /\ b \in Nat /\ u \in Seq(S) /\ Len(u) = a + b
    BY ConcatProperties, LenProperties
  <2>2. \A i \in 1 .. a + b : u[i] = IF i <= a THEN s[i] ELSE r[i - a]
    BY ConcatProperties
  <2>. HIDE DEF a, b, u
  <2>3. \A i \in 1 .. b : a + i \in 1 .. a + b /\ ~(a + i <= a) /\ (a + i) - a = i
    BY <2>1
  <2>4. \A i \in 1 .. b : u[a + i] = r[i]
    BY <2>2, <2>3
  <2>5. \A i \in 1 .. a : u[i] = s[i]
    BY <2>1, <2>2
  <2>. QED
    BY <2>1, <2>4, <2>5
<1>2. /\ vs \in Seq(Nat) /\ Len(vs) = a /\ \A i \in 1 .. a : vs[i] = g[s[i]]
      /\ vr \in Seq(Nat) /\ Len(vr) = b /\ \A i \in 1 .. b : vr[i] = g[r[i]]
  <2>1. Values(vs, g, s) /\ Values(vr, g, r)
    BY ValuesAre, Zenon
  <2>. QED
    BY <2>1, Zenon DEF Values
<1>3. vu \in Seq(Nat) /\ Len(vu) = a + b /\ \A i \in 1 .. a + b : vu[i] = g[u[i]]
  <2>1. Values(vu, g, u)
    BY <1>1, ValuesAre, Zenon
  <2>. QED
    BY <1>1, <2>1, Zenon DEF Values
<1>4. SumOf(g, s) = Total(vs) /\ SumOf(g, r) = Total(vr) /\ SumOf(g, u) = Total(vu)
  BY Zenon DEF SumOf
<1>. HIDE DEF a, b, u, vs, vr, vu
<1>5. PICK f : Sums(f, vs, a) /\ Total(vs) = f[a]
  BY <1>1, <1>2, TotalIs
<1>6. PICK h : Sums(h, vr, b) /\ Total(vr) = h[b]
  BY <1>1, <1>2, TotalIs
<1>7. a + b \in Nat
  BY <1>1
<1>8. PICK c : Sums(c, vu, a + b) /\ Total(vu) = c[a + b]
  BY <1>3, <1>7, TotalIs
<1>9. f[a] \in Nat /\ h[b] \in Nat /\ h \in [0 .. b -> Nat] /\ h[0] = 0
  <2>1. f \in [0 .. a -> Nat] /\ h \in [0 .. b -> Nat] /\ h[0] = 0
    BY <1>5, <1>6, Zenon DEF Sums
  <2>. QED
    BY <1>1, <2>1
<1>10. c[a] = f[a]
  <2>1. a \in 0 .. a + b
    BY <1>1
  <2>2. ASSUME NEW n \in 1 .. a PROVE vu[n] = vs[n]
    <3>1. n \in 1 .. a + b
      BY <1>1
    <3>2. u[n] = s[n] /\ vs[n] = g[s[n]]
      BY <1>1, <1>2
    <3>3. vu[n] = g[u[n]]
      BY <1>3, <3>1
    <3>. QED
      BY <3>2, <3>3, Zenon
  <2>3. Same(vu, vs, a)
    BY <2>2 DEF Same
  <2>4. Sums(c, vu, a + b) /\ Sums(f, vs, a)
    BY <1>5, <1>8
  <2>. QED
    BY <1>7, <2>1, <2>3, <2>4, SameSums
<1>11. \A n \in 1 .. b : c[a + n] = c[a + (n - 1)] + vr[n]
  <2> TAKE n \in 1 .. b
  <2>1. a + n \in 1 .. a + b /\ (a + n) - 1 = a + (n - 1)
    BY <1>1
  <2>2. c[a + n] = c[(a + n) - 1] + vu[a + n]
    BY <1>8, <2>1, Zenon DEF Sums
  <2>3. u[a + n] = r[n] /\ vr[n] = g[r[n]] /\ vu[a + n] = g[u[a + n]]
    BY <1>1, <1>2, <1>3, <2>1
  <2>. QED
    BY <2>1, <2>2, <2>3, Zenon
<1> DEFINE T == {n \in 0 .. b : c[a + n] = f[a] + h[n]}
<1>12. 0 \in T
  <2>1. a + 0 = a /\ f[a] + h[0] = f[a]
    BY <1>1, <1>9
  <2>. QED
    BY <1>1, <1>10, <2>1
<1>13. ASSUME NEW n \in 1 .. b, n - 1 \in T PROVE n \in T
  <2>1. c[a + (n - 1)] = f[a] + h[n - 1]
    BY <1>13
  <2>2. h[n] = h[n - 1] + vr[n]
    BY <1>6, Zenon DEF Sums
  <2>3. n \in 0 .. b /\ n - 1 \in 0 .. b
    BY <1>1
  <2>4. h[n - 1] \in Nat /\ vr[n] \in Nat
    <3>1. vr[n] \in Nat
      BY <1>2
    <3>. QED
      BY <1>9, <2>3, <3>1
  <2>5. c[a + n] = (f[a] + h[n - 1]) + vr[n]
    BY <1>11, <2>1
  <2>6. c[a + n] = f[a] + h[n]
    BY <1>9, <2>2, <2>4, <2>5
  <2>. QED
    BY <2>3, <2>6
<1>14. c[a + b] = f[a] + h[b]
  <2>1. \A n \in 1 .. b : n - 1 \in T => n \in T
    BY <1>13
  <2>2. b \in 0 .. b
    BY <1>1
  <2>3. b \in T
    <3>. HIDE DEF T
    <3>1. \A n \in 0 .. b : n \in T
      BY <1>1, <1>12, <2>1, UpTo
    <3>. QED
      BY <2>2, <3>1
  <2>. QED
    BY <2>3
<1>15. SumOf(g, s) \in Nat /\ SumOf(g, r) \in Nat /\ SumOf(g, u) = SumOf(g, s) + SumOf(g, r)
  BY <1>4, <1>5, <1>6, <1>8, <1>9, <1>14
<1>. QED
  BY <1>15 DEF u

LEMMA SumEmpty ==
  ASSUME NEW S, NEW g \in [S -> Nat]
  PROVE  SumOf(g, <<>>) = 0
<1> DEFINE v == [i \in DOMAIN <<>> |-> g[<<>>[i]]]
<1>1. <<>> \in Seq(S) /\ Len(<<>>) = 0
  OBVIOUS
<1>2. Values(v, g, <<>>)
  BY <1>1, ValuesAre, Zenon
<1>3. SumOf(g, <<>>) = Total(v)
  BY Zenon DEF SumOf
<1>. HIDE DEF v
<1>4. v \in Seq(Nat) /\ Len(v) = 0
  BY <1>1, <1>2, Zenon DEF Values
<1>5. PICK f : Sums(f, v, 0) /\ Total(v) = f[0]
  <2>1. 0 \in Nat /\ 0 = Len(v) /\ v \in Seq(Nat)
    BY <1>4
  <2>. QED
    BY <2>1, TotalIs, Zenon
<1>. QED
  BY <1>3, <1>5, Zenon DEF Sums

LEMMA SumOne ==
  ASSUME NEW S, NEW g \in [S -> Nat], NEW x \in S
  PROVE  SumOf(g, <<x>>) = g[x]
<1> DEFINE s == <<x>>
           v == [i \in DOMAIN s |-> g[s[i]]]
<1>1. s \in Seq(S) /\ Len(s) = 1 /\ s[1] = x
  OBVIOUS
<1>. HIDE DEF s
<1>2. Values(v, g, s)
  BY <1>1, ValuesAre, Zenon
<1>3. SumOf(g, s) = Total(v)
  BY Zenon DEF SumOf
<1>. HIDE DEF v
<1>4. v \in Seq(Nat) /\ Len(v) = 1 /\ v[1] = g[x]
  <2>1. 1 \in 1 .. 1
    OBVIOUS
  <2>. QED
    BY <1>1, <1>2, <2>1, Zenon DEF Values
<1>5. PICK f : Sums(f, v, 1) /\ Total(v) = f[1]
  <2>1. 1 \in Nat /\ 1 = Len(v) /\ v \in Seq(Nat)
    BY <1>4
  <2>. QED
    BY <2>1, TotalIs, Zenon
<1>6. f[0] = 0 /\ f[1] = f[1 - 1] + v[1]
  <2>1. 1 \in 1 .. 1
    OBVIOUS
  <2>. QED
    BY <1>5, <2>1, Zenon DEF Sums
<1>7. Total(v) = g[x]
  <2>1. g[x] \in Nat
    OBVIOUS
  <2>. QED
    BY <1>4, <1>5, <1>6, <2>1
<1>. QED
  BY <1>3, <1>7, Zenon DEF s

SumsEach(v, g, b) == Len(v) = Len(b) /\ \A j \in 1 .. Len(b) : v[j] = SumOf(g, b[j])

\* A sum over sequences put together is the sum of the sums over each.
LEMMA SumFlatten ==
  ASSUME NEW S, NEW g \in [S -> Nat], NEW b \in Seq(Seq(S)), NEW v \in Seq(Nat),
         SumsEach(v, g, b)
  PROVE  SumOf(g, FlattenSeq(b)) = Total(v)
<1> DEFINE d == Len(b)
<1>1. d \in Nat /\ d = Len(b) /\ Len(v) = d /\ \A j \in 1 .. d : b[j] \in Seq(S)
  BY DEF SumsEach
<1>3. \A j \in 1 .. d : v[j] = SumOf(g, b[j])
  BY DEF SumsEach
<1>. HIDE DEF d
<1>2. PICK f \in [0 .. d -> Seq(S)] :
         /\ f[0] = <<>>
         /\ \A n \in 1 .. d : f[n] = f[n - 1] \o b[n]
         /\ FlattenSeq(b) = f[d]
  <2>1. b \in Seq(Seq(S)) /\ d \in Nat /\ d = Len(b)
    BY <1>1
  <2>. QED
    BY <2>1, FlattenIs, Zenon
<1>4. PICK h : Sums(h, v, d) /\ Total(v) = h[d]
  BY <1>1, TotalIs
<1>5. h[0] = 0 /\ \A n \in 1 .. d : h[n] = h[n - 1] + v[n]
  BY <1>4, Zenon DEF Sums
<1> DEFINE T == {n \in 0 .. d : SumOf(g, f[n]) = h[n]}
<1>6. 0 \in T
  <2>1. SumOf(g, f[0]) = h[0]
    BY <1>2, <1>5, SumEmpty, Zenon
  <2>2. 0 \in 0 .. d
    BY <1>1
  <2>. QED
    BY <2>1, <2>2
<1>7. ASSUME NEW n \in 1 .. d, n - 1 \in T PROVE n \in T
  <2>1. n \in 0 .. d /\ n - 1 \in 0 .. d
    BY <1>1
  <2>2. SumOf(g, f[n - 1]) = h[n - 1]
    BY <1>7
  <2>3. f[n - 1] \in Seq(S) /\ b[n] \in Seq(S)
    BY <1>1, <1>2, <2>1
  <2>4. SumOf(g, f[n - 1] \o b[n]) = SumOf(g, f[n - 1]) + SumOf(g, b[n])
    BY <2>3, SumConcat, Zenon
  <2>5. SumOf(g, f[n]) = h[n]
    BY <1>2, <1>3, <1>5, <2>2, <2>4, Zenon
  <2>. QED
    BY <2>1, <2>5
<1>8. SumOf(g, f[d]) = h[d]
  <2>1. \A n \in 1 .. d : n - 1 \in T => n \in T
    BY <1>7
  <2>2. d \in 0 .. d
    BY <1>1
  <2>3. d \in T
    <3>. HIDE DEF T
    <3>1. \A n \in 0 .. d : n \in T
      BY <1>1, <1>6, <2>1, UpTo
    <3>. QED
      BY <2>2, <3>1
  <2>. QED
    BY <2>3
<1>9. FlattenSeq(b) = f[d] /\ Total(v) = h[d]
  BY <1>2, <1>4, Zenon
<1>. QED
  BY <1>8, <1>9, Zenon

LEMMA SumNat ==
  ASSUME NEW S, NEW g \in [S -> Nat], NEW s \in Seq(S)
  PROVE  SumOf(g, s) \in Nat
<1> DEFINE v == [i \in DOMAIN s |-> g[s[i]]]
<1>1. Values(v, g, s)
  BY ValuesAre, Zenon
<1>2. SumOf(g, s) = Total(v)
  BY Zenon DEF SumOf
<1>. HIDE DEF v
<1>3. v \in Seq(Nat)
  BY <1>1, Zenon DEF Values
<1>. QED
  BY <1>2, <1>3, TotalNat

--------------------------------------------------------------------------------
(* The count over the types *)

\* The types that the pointers of x lead to.
Pointees(x) == [i \in DOMAIN PointersOf(x) |-> Struct[x][PointersOf(x)[i]].type]

LEMMA PointeesAre ==
  ASSUME NEW x
  PROVE  /\ Pointees(x) \in Seq(Types)
         /\ DOMAIN Pointees(x) = DOMAIN PointersOf(x)
         /\ \A i \in DOMAIN PointersOf(x) : Pointees(x)[i] = Struct[x][PointersOf(x)[i]].type
<1> DEFINE q == PointersOf(x)
           l == Len(q)
<1>1. q \in Seq(Nat)
  BY PointersAre
<1>2. l \in Nat /\ DOMAIN q = 1 .. l
  <2>. HIDE DEF q
  <2>. QED
    BY <1>1
<1>3. \A i \in DOMAIN q : Struct[x][q[i]].type \in Types
  BY PointerField, Zenon
<1>4. Pointees(x) = [i \in DOMAIN q |-> Struct[x][q[i]].type]
  BY Zenon DEF Pointees
<1>. HIDE DEF q, l
<1>5. Pointees(x) \in [1 .. l -> Types]
  BY <1>2, <1>3, <1>4
<1>6. Pointees(x) \in Seq(Types)
  BY <1>2, <1>5, SeqDef
<1>7. DOMAIN Pointees(x) = DOMAIN q /\ \A i \in DOMAIN q : Pointees(x)[i] = Struct[x][q[i]].type
  BY <1>4
<1>. QED
  BY <1>6, <1>7 DEF q

KeptAt(c, g, k) == \A y \in Types : c[<<y, k>>] = g[y]

\* Sums over the pointers of a type, of numbers kept by type and level.
LEMMA PointeeSum ==
  ASSUME NEW x, NEW g, NEW c, NEW k, KeptAt(c, g, k)
  PROVE  Total([i \in DOMAIN PointersOf(x) |-> c[<<Struct[x][PointersOf(x)[i]].type, k>>]])
           = SumOf(g, Pointees(x))
<1> DEFINE q == PointersOf(x)
           e == Pointees(x)
           a == [i \in DOMAIN q |-> c[<<Struct[x][q[i]].type, k>>]]
           b == [i \in DOMAIN e |-> g[e[i]]]
<1>1. DOMAIN e = DOMAIN q
      /\ \A i \in DOMAIN q : e[i] = Struct[x][q[i]].type /\ Struct[x][q[i]].type \in Types
  BY PointeesAre, PointerField, Zenon
<1>2. SumOf(g, e) = Total(b)
  BY Zenon DEF SumOf
<1>. HIDE DEF q, e
<1>3. \A i \in DOMAIN q : a[i] = b[i]
  BY <1>1 DEF KeptAt
<1>4. a = [i \in DOMAIN q |-> a[i]] /\ b = [i \in DOMAIN q |-> b[i]]
  BY <1>1
<1>5. a = b
  <2>. HIDE DEF a, b
  <2>. QED
    BY <1>3, <1>4
<1>. QED
  BY <1>2, <1>5, Zenon DEF q, e

\* f[n][x] is the number of fields that aggregates n levels below an x have.
Counts(f, d) == /\ f \in [0 .. d -> [Types -> Nat]]
                /\ \A x \in Types : f[0][x] = Len(FieldsOf(x))
                /\ \A n \in 1 .. d : \A x \in Types : f[n][x] = SumOf(f[n - 1], Pointees(x))

LEMMA FieldsAreCounted ==
  ASSUME NEW x
  PROVE  Len(FieldsOf(x)) \in Nat
<1>1. CASE x \in DOMAIN Struct
  BY <1>1, Member
<1>2. CASE x \notin DOMAIN Struct
  BY <1>2 DEF FieldsOf, Aggregate
<1>. QED
  BY <1>1, <1>2

LEMMA CountsExist ==
  ASSUME NEW d \in Nat
  PROVE  \E f : Counts(f, d)
<1> DEFINE V == [Types -> Nat]
           v == [x \in Types |-> Len(FieldsOf(x))]
           G(h) == [x \in Types |-> SumOf(h, Pointees(x))]
           F == [z \in (1 .. d) \X V |-> G(z[2])]
<1>1. v \in V
  BY FieldsAreCounted
<1>2. ASSUME NEW h \in V PROVE G(h) \in V
  <2>1. \A x \in Types : SumOf(h, Pointees(x)) \in Nat
    BY SumNat, PointeesAre, Zenon
  <2>. QED
    BY <2>1
<1>3. \A n \in 1 .. d : \A h \in V : F[<<n, h>>] = G(h)
  <2>. HIDE DEF G, V
  <2>. QED
    OBVIOUS
<1>. HIDE DEF F
<1>4. PICK f : Defines(f, V, v, d, F)
  <2>. HIDE DEF V, v, G
  <2>1. \A n \in 1 .. d : \A h \in V : F[<<n, h>>] \in V
    BY <1>2, <1>3, Zenon
  <2>. QED
    BY <1>1, <2>1, Recursion
<1>5. f \in [0 .. d -> V] /\ f[0] = v
  BY <1>4, Zenon DEF Defines
<1>6. ASSUME NEW n \in 1 .. d PROVE f[n] = G(f[n - 1])
  <2>1. n - 1 \in 0 .. d
    OBVIOUS
  <2>2. f[n - 1] \in V
    <3>. HIDE DEF V, v
    <3>. QED
      BY <1>5, <2>1
  <2>3. f[n] = F[<<n, f[n - 1]>>]
    BY <1>4, Zenon DEF Defines
  <2>. QED
    BY <1>3, <2>2, <2>3, Zenon
<1>7. \A n \in 1 .. d : \A x \in Types : f[n][x] = SumOf(f[n - 1], Pointees(x))
  <2> TAKE n \in 1 .. d
  <2>1. f[n] = G(f[n - 1])
    BY <1>6
  <2> DEFINE h == f[n - 1]
  <2>. HIDE DEF h
  <2>2. \A x \in Types : G(h)[x] = SumOf(h, Pointees(x))
    OBVIOUS
  <2>. QED
    BY <2>1, <2>2, Zenon DEF h
<1>8. \A x \in Types : f[0][x] = Len(FieldsOf(x))
  <2>1. \A x \in Types : v[x] = Len(FieldsOf(x))
    OBVIOUS
  <2>. QED
    BY <1>5, <2>1, Zenon
<1>9. Counts(f, d)
  BY <1>5, <1>7, <1>8, Zenon DEF Counts
<1>. QED
  BY <1>9

LEMMA LevelCountIs ==
  ASSUME NEW d \in Nat, NEW f, Counts(f, d), NEW n \in 0 .. d, NEW t \in Types
  PROVE  LevelCount(t, n) = f[n][t]
<1> DEFINE Value(c, x, k) ==
             IF k = 0 THEN Len(FieldsOf(x))
             ELSE Total([i \in DOMAIN PointersOf(x) |-> c[<<Struct[x][PointersOf(x)[i]].type, k - 1>>]])
           Step(c) == [z \in Types \X (0 .. n) |-> Value(c, z[1], z[2])]
           c == CHOOSE c : c = Step(c)
           h == [z \in Types \X (0 .. n) |-> f[z[2]][z[1]]]
<1>1. LevelCount(t, n) = c[<<t, n>>]
  BY DEF LevelCount
<1>. HIDE DEF c
<1>2. /\ \A x \in Types : f[0][x] = Len(FieldsOf(x))
      /\ \A k \in 1 .. d : \A x \in Types : f[k][x] = SumOf(f[k - 1], Pointees(x))
  BY Zenon DEF Counts
<1>3. ASSUME NEW k \in 1 .. n, NEW x \in Types, NEW e, \A y \in Types : e[<<y, k - 1>>] = f[k - 1][y]
      PROVE  Value(e, x, k) = f[k][x]
  <2>1. k # 0 /\ k \in 1 .. d
    OBVIOUS
  <2>2. Value(e, x, k) = Total([i \in DOMAIN PointersOf(x) |-> e[<<Struct[x][PointersOf(x)[i]].type, k - 1>>]])
    BY <2>1, Zenon
  <2>3. Value(e, x, k) = SumOf(f[k - 1], Pointees(x))
    <3>1. KeptAt(e, f[k - 1], k - 1)
      BY <1>3 DEF KeptAt
    <3>. HIDE DEF Value
    <3>. QED
      BY <2>2, <3>1, PointeeSum, Zenon
  <2>. HIDE DEF Value
  <2>. QED
    BY <1>2, <2>1, <2>3, Zenon
<1>4. \A e : \A x : Value(e, x, 0) = Len(FieldsOf(x))
  OBVIOUS
<1>. HIDE DEF Value
<1>5. \A x \in Types : \A k \in 0 .. n : h[<<x, k>>] = f[k][x]
  OBVIOUS
<1>6. h = Step(h)
  <2> DEFINE s == Step(h)
  <2>1. \A x \in Types : \A k \in 0 .. n : s[<<x, k>>] = Value(h, x, k)
    <3>. HIDE DEF h
    <3>. QED
      OBVIOUS
  <2>2. h = [z \in Types \X (0 .. n) |-> h[z]] /\ s = [z \in Types \X (0 .. n) |-> s[z]]
    <3>1. h = [z \in Types \X (0 .. n) |-> h[z]]
      OBVIOUS
    <3>2. s = [z \in Types \X (0 .. n) |-> s[z]]
      <4>. HIDE DEF h
      <4>. QED
        OBVIOUS
    <3>. QED
      BY <3>1, <3>2, Zenon
  <2>. HIDE DEF h, s
  <2>3. ASSUME NEW x \in Types, NEW k \in 0 .. n PROVE s[<<x, k>>] = h[<<x, k>>]
    <3>1. CASE k = 0
      <4>1. s[<<x, 0>>] = Value(h, x, 0) /\ h[<<x, 0>>] = f[0][x]
        BY <1>5, <2>1, <3>1
      <4>. QED
        BY <1>2, <1>4, <3>1, <4>1, Zenon
    <3>2. CASE k \in 1 .. n
      <4>1. k - 1 \in 0 .. n
        BY <3>2
      <4>2. \A y \in Types : h[<<y, k - 1>>] = f[k - 1][y]
        BY <1>5, <4>1
      <4>3. Value(h, x, k) = f[k][x]
        BY <1>3, <3>2, <4>2, Zenon
      <4>. QED
        BY <1>5, <2>1, <4>3, Zenon
    <3>3. k = 0 \/ k \in 1 .. n
      OBVIOUS
    <3>. QED
      BY <3>1, <3>2, <3>3
  <2>4. \A z \in Types \X (0 .. n) : s[z] = h[z]
    BY <2>3
  <2>5. h = s
    BY <2>2, <2>4
  <2>. QED
    BY <2>5 DEF s
<1>7. c = Step(c)
  BY <1>6, Zenon DEF c
<1> DEFINE r == Step(c)
<1>8. \A x \in Types : \A k \in 0 .. n : r[<<x, k>>] = Value(c, x, k)
  OBVIOUS
<1>9. \A x \in Types : \A k \in 0 .. n : c[<<x, k>>] = Value(c, x, k)
  <2>. HIDE DEF Step, r
  <2>. QED
    BY <1>7, <1>8, Zenon DEF r
<1>. HIDE DEF Step, h, r
<1> DEFINE T == {k \in 0 .. n : \A x \in Types : c[<<x, k>>] = f[k][x]}
<1>10. 0 \in T
  <2>1. 0 \in 0 .. n
    OBVIOUS
  <2>2. \A x \in Types : c[<<x, 0>>] = f[0][x]
    BY <1>2, <1>4, <1>9, <2>1, Zenon
  <2>. QED
    BY <2>1, <2>2
<1>11. ASSUME NEW k \in 1 .. n, k - 1 \in T PROVE k \in T
  <2>1. k \in 0 .. n
    OBVIOUS
  <2>2. \A x \in Types : c[<<x, k - 1>>] = f[k - 1][x]
    BY <1>11
  <2>3. \A x \in Types : c[<<x, k>>] = f[k][x]
    <3> TAKE x \in Types
    <3>1. Value(c, x, k) = f[k][x]
      BY <1>3, <2>2
    <3>. QED
      BY <1>9, <2>1, <3>1, Zenon
  <2>. QED
    BY <2>1, <2>3
<1>12. n \in T
  <2>1. \A k \in 1 .. n : k - 1 \in T => k \in T
    BY <1>11
  <2>2. n \in Nat /\ n \in 0 .. n
    OBVIOUS
  <2>. HIDE DEF T
  <2>3. \A k \in 0 .. n : k \in T
    BY <1>10, <2>1, <2>2, UpTo
  <2>. QED
    BY <2>2, <2>3
<1>. QED
  BY <1>1, <1>12

--------------------------------------------------------------------------------
(* The count over the nodes *)

\* The paths that lead to a type, and the fields n levels below each.
Typed(t) == {p \in Seq(Nat) : TypeAt(t, p) \in Types}
NodeCount(f, t, n) == [p \in Typed(t) |-> f[n][TypeAt(t, p)]]

LEMMA NodeCountIs ==
  ASSUME NEW d \in Nat, NEW f, Counts(f, d), NEW n \in 0 .. d, NEW t
  PROVE  /\ NodeCount(f, t, n) \in [Typed(t) -> Nat]
         /\ \A p \in Typed(t) : NodeCount(f, t, n)[p] = f[n][TypeAt(t, p)]
<1>1. f \in [0 .. d -> [Types -> Nat]]
  BY Zenon DEF Counts
<1>2. f[n] \in [Types -> Nat]
  BY <1>1
<1>3. \A p \in Typed(t) : TypeAt(t, p) \in Types
  BY Zenon DEF Typed
<1>4. \A p \in Typed(t) : f[n][TypeAt(t, p)] \in Nat
  BY <1>2, <1>3
<1>5. NodeCount(f, t, n) = [p \in Typed(t) |-> f[n][TypeAt(t, p)]]
  BY Zenon DEF NodeCount
<1>. QED
  BY <1>4, <1>5

LEMMA ChildrenTyped ==
  ASSUME NEW t, NEW p \in Typed(t)
  PROVE  /\ Children(t, p) \in Seq(Typed(t))
         /\ \A i \in DOMAIN Children(t, p) :
              TypeAt(t, Children(t, p)[i]) = Pointees(TypeAt(t, p))[i]
<1> DEFINE x == TypeAt(t, p)
           q == PointersOf(x)
           s == Children(t, p)
           l == Len(s)
<1>1. p \in Seq(Nat)
  BY Zenon DEF Typed
<1>2. /\ s \in Seq(Seq(Nat)) /\ DOMAIN s = DOMAIN q
      /\ \A i \in DOMAIN s : s[i] = Append(p, q[i])
  BY <1>1, ChildrenAre, Zenon
<1>3. \A i \in DOMAIN q : q[i] \in Nat /\ Struct[x][q[i]].type \in Types
  BY PointerField, Zenon
<1>4. \A i \in DOMAIN q : Pointees(x)[i] = Struct[x][q[i]].type
  BY PointeesAre, Zenon
<1>5. \A i \in DOMAIN s : TypeAt(t, s[i]) = Struct[x][q[i]].type
  <2> TAKE i \in DOMAIN s
  <2>1. q[i] \in Nat /\ s[i] = Append(p, q[i])
    BY <1>2, <1>3, Zenon
  <2>2. TypeAt(t, Append(p, q[i])) = Struct[x][q[i]].type
    BY <1>1, <2>1, ChildType
  <2>. QED
    BY <2>1, <2>2, Zenon
<1>6. l \in Nat /\ DOMAIN s = 1 .. l /\ \A i \in DOMAIN s : s[i] \in Seq(Nat)
  <2>. HIDE DEF s
  <2>. QED
    BY <1>2
<1>7. \A i \in DOMAIN s : s[i] \in Typed(t)
  BY <1>2, <1>3, <1>5, <1>6, Zenon DEF Typed
<1>8. s \in Seq(Typed(t))
  <2>. HIDE DEF s, l
  <2>1. s = [i \in 1 .. l |-> s[i]]
    BY <1>2, <1>6
  <2>2. s \in [1 .. l -> Typed(t)]
    BY <1>6, <1>7, <2>1
  <2>. QED
    BY <1>6, <2>2, SeqDef
<1>. QED
  BY <1>2, <1>4, <1>5, <1>8, Zenon

LEMMA LevelTyped ==
  ASSUME NEW t \in Roots, NEW n \in 0 .. Depth[t]
  PROVE  Levels[t][n] \in Seq(Typed(t))
<1> DEFINE s == Levels[t][n]
           l == Len(s)
<1>1. s \in Seq(Seq(Nat))
  BY LevelsAre, RootsAreDeep
<1>2. \A i \in DOMAIN s : s[i] \in Typed(t)
  BY LevelIsGood, Zenon DEF GoodLevel, Typed
<1>. HIDE DEF s
<1>3. l \in Nat /\ DOMAIN s = 1 .. l /\ s = [i \in 1 .. l |-> s[i]]
  BY <1>1
<1>. HIDE DEF l
<1>4. s \in [1 .. l -> Typed(t)]
  BY <1>2, <1>3
<1>5. s \in Seq(Typed(t))
  BY <1>3, <1>4, SeqDef
<1>. QED
  BY <1>5 DEF s

\* What lies n levels below a node lies n - 1 levels below its children.
LEMMA ChildrenCount ==
  ASSUME NEW d \in Nat, NEW f, Counts(f, d), NEW n \in 1 .. d, NEW t, NEW p \in Typed(t)
  PROVE  SumOf(NodeCount(f, t, n - 1), Children(t, p)) = NodeCount(f, t, n)[p]
<1> DEFINE g == NodeCount(f, t, n - 1)
           s == Children(t, p)
           x == TypeAt(t, p)
           e == Pointees(x)
           a == [i \in DOMAIN s |-> g[s[i]]]
           b == [i \in DOMAIN e |-> f[n - 1][e[i]]]
<1>1. n - 1 \in 0 .. d /\ n \in 0 .. d
  OBVIOUS
<1>2. \A q \in Typed(t) : g[q] = f[n - 1][TypeAt(t, q)]
  BY <1>1, NodeCountIs
<1>3. s \in Seq(Typed(t)) /\ \A i \in DOMAIN s : TypeAt(t, s[i]) = e[i]
  BY ChildrenTyped, Zenon
<1>4. DOMAIN s = DOMAIN e
  <2>1. p \in Seq(Nat)
    BY Zenon DEF Typed
  <2>. QED
    BY <2>1, ChildrenAre, PointeesAre, Zenon
<1>5. SumOf(g, s) = Total(a) /\ SumOf(f[n - 1], e) = Total(b)
  BY Zenon DEF SumOf
<1>6. x \in Types
  BY Zenon DEF Typed
<1>7. f[n][x] = SumOf(f[n - 1], e)
  BY <1>6, Zenon DEF Counts
<1>8. NodeCount(f, t, n)[p] = f[n][x]
  BY <1>1, NodeCountIs
<1>. HIDE DEF g, s, x, e
<1>9. \A i \in DOMAIN s : s[i] \in Typed(t)
  BY <1>3
<1>10. \A i \in DOMAIN s : g[s[i]] = f[n - 1][e[i]]
  BY <1>2, <1>3, <1>9, Zenon
<1>11. a = b
  <2> DEFINE w == f[n - 1]
  <2>1. \A i \in DOMAIN s : g[s[i]] = w[e[i]]
    BY <1>10
  <2>2. b = [i \in DOMAIN e |-> w[e[i]]]
    OBVIOUS
  <2>. HIDE DEF w, b
  <2>. QED
    BY <1>4, <2>1, <2>2
<1>. HIDE DEF a, b
<1>12. SumOf(g, s) = NodeCount(f, t, n)[p]
  BY <1>5, <1>7, <1>8, <1>11, Zenon
<1>. QED
  BY <1>12, Zenon DEF g, s

LEMMA LevelStep ==
  ASSUME NEW t \in Roots, NEW d \in Nat, d = Depth[t], NEW f, Counts(f, d),
         NEW n \in 1 .. d, NEW m \in 1 .. d
  PROVE  SumOf(NodeCount(f, t, n - 1), Levels[t][m]) = SumOf(NodeCount(f, t, n), Levels[t][m - 1])
<1> DEFINE g == NodeCount(f, t, n - 1)
           h == NodeCount(f, t, n)
           up == Levels[t][m - 1]
           l == Len(up)
           b == Below(t, up)
           v == [j \in DOMAIN up |-> h[up[j]]]
<1>1. n - 1 \in 0 .. d /\ n \in 0 .. d /\ m - 1 \in 0 .. Depth[t]
  OBVIOUS
<1>2. Levels[t][m] = FlattenSeq(b) /\ up \in Seq(Seq(Nat))
  <2>1. /\ Levels[t] \in [0 .. d -> Seq(Seq(Nat))]
        /\ \A k \in 1 .. d : Levels[t][k] = FlattenSeq(Below(t, Levels[t][k - 1]))
    BY LevelsAre
  <2>. QED
    BY <1>1, <2>1
<1>3. up \in Seq(Typed(t))
  BY <1>1, LevelTyped, Zenon
<1>4. g \in [Typed(t) -> Nat] /\ h \in [Typed(t) -> Nat]
  BY <1>1, NodeCountIs, Zenon
<1>5. \A p \in Typed(t) : SumOf(g, Children(t, p)) = h[p] /\ Children(t, p) \in Seq(Typed(t))
  BY ChildrenCount, ChildrenTyped
<1>6. SumOf(h, up) = Total(v) /\ Values(v, h, up)
  BY <1>3, <1>4, ValuesAre, Zenon DEF SumOf
<1>. HIDE DEF g, h, up, v
<1>7. DOMAIN b = DOMAIN up /\ \A j \in DOMAIN up : b[j] = Children(t, up[j])
  BY DEF Below
<1>8. l \in Nat /\ DOMAIN up = 1 .. l /\ \A j \in 1 .. l : up[j] \in Typed(t)
  BY <1>3
<1>9. b \in Seq(Seq(Typed(t))) /\ Len(b) = l
  <2>1. \A j \in 1 .. l : b[j] \in Seq(Typed(t))
    BY <1>5, <1>7, <1>8, Zenon
  <2>2. b = [j \in 1 .. l |-> b[j]]
    <3>1. b = [j \in DOMAIN up |-> b[j]]
      BY DEF Below
    <3>. QED
      BY <1>8, <3>1, Zenon
  <2>. HIDE DEF b, l
  <2>3. b \in [1 .. l -> Seq(Typed(t))]
    BY <2>1, <2>2
  <2>4. b \in Seq(Seq(Typed(t)))
    BY <1>8, <2>3, SeqDef
  <2>5. Len(b) \in Nat /\ DOMAIN b = 1 .. Len(b)
    BY <2>4, LenProperties, Zenon
  <2>6. Len(b) = l
    BY <1>7, <1>8, <2>5
  <2>. QED
    BY <2>4, <2>6
<1>. HIDE DEF b
<1>10. v \in Seq(Nat) /\ Len(v) = l /\ \A j \in 1 .. l : v[j] = h[up[j]]
  BY <1>6, Zenon DEF Values
<1>11. \A j \in 1 .. l : v[j] = SumOf(g, b[j])
  BY <1>5, <1>7, <1>8, <1>10, Zenon
<1>12. SumOf(g, FlattenSeq(b)) = Total(v)
  <2>1. SumsEach(v, g, b)
    BY <1>9, <1>10, <1>11, Zenon DEF SumsEach
  <2>. QED
    BY <1>4, <1>9, <1>10, <2>1, SumFlatten, Zenon
<1>13. SumOf(g, Levels[t][m]) = SumOf(h, up)
  BY <1>2, <1>6, <1>12, Zenon
<1>. QED
  BY <1>13, Zenon DEF g, h, up

\* The fields of a level, counted by node and counted by type.
LEMMA LevelTotal ==
  ASSUME NEW t \in Roots, NEW d \in Nat, d = Depth[t], NEW f, Counts(f, d), NEW n \in 0 .. d
  PROVE  SumOf(NodeCount(f, t, 0), Levels[t][n]) = LevelCount(t, n)
<1>1. t \in Types
  BY RootsValidated DEF Types, Aggregate
<1>2. LevelCount(t, n) = f[n][t]
  BY <1>1, LevelCountIs, Zenon
<1> DEFINE T == {m \in 0 .. n : SumOf(NodeCount(f, t, n - m), Levels[t][m]) = f[n][t]}
<1>3. 0 \in T
  <2>1. 0 \in 0 .. n /\ n - 0 = n /\ 0 \in 0 .. d
    OBVIOUS
  <2>2. Levels[t][0] = << <<>> >>
    BY LevelsAre
  <2>3. <<>> \in Typed(t)
    <3>1. <<>> \in Seq(Nat)
      OBVIOUS
    <3>. QED
      BY <1>1, <3>1, RootType, Zenon DEF Typed
  <2>4. /\ NodeCount(f, t, n) \in [Typed(t) -> Nat]
        /\ NodeCount(f, t, n)[<<>>] = f[n][TypeAt(t, <<>>)]
    BY <2>3, NodeCountIs
  <2>5. SumOf(NodeCount(f, t, n), << <<>> >>) = f[n][t]
    BY <2>3, <2>4, SumOne, RootType, Zenon
  <2>6. SumOf(NodeCount(f, t, n - 0), Levels[t][0]) = f[n][t]
    BY <2>1, <2>2, <2>5, Zenon
  <2>. QED
    BY <2>1, <2>6, Zenon
<1>4. ASSUME NEW m \in 1 .. n, m - 1 \in T PROVE m \in T
  <2>1. m \in 0 .. n /\ m \in 1 .. d /\ n - (m - 1) \in 1 .. d /\ (n - (m - 1)) - 1 = n - m
    OBVIOUS
  <2>2. SumOf(NodeCount(f, t, n - (m - 1)), Levels[t][m - 1]) = f[n][t]
    BY <1>4, Zenon
  <2>3. SumOf(NodeCount(f, t, (n - (m - 1)) - 1), Levels[t][m])
          = SumOf(NodeCount(f, t, n - (m - 1)), Levels[t][m - 1])
    BY <2>1, LevelStep
  <2>4. SumOf(NodeCount(f, t, n - m), Levels[t][m]) = f[n][t]
    BY <2>1, <2>2, <2>3, Zenon
  <2>. QED
    BY <2>1, <2>4, Zenon
<1>5. n \in T
  <2>1. \A m \in 1 .. n : m - 1 \in T => m \in T
    BY <1>4
  <2>2. n \in Nat /\ n \in 0 .. n
    OBVIOUS
  <2>. HIDE DEF T
  <2>3. \A m \in 0 .. n : m \in T
    BY <1>3, <2>1, <2>2, UpTo
  <2>. QED
    BY <2>2, <2>3
<1>6. n - n = 0
  OBVIOUS
<1>7. SumOf(NodeCount(f, t, n - n), Levels[t][n]) = f[n][t]
  BY <1>5, Zenon
<1>. QED
  BY <1>2, <1>6, <1>7, Zenon

--------------------------------------------------------------------------------
(* The count over the regions *)

\* The ones of a sequence, and its zeros.
AllOnes(v) == \A i \in DOMAIN v : v[i] = 1
ZeroOrOne(v) == \A i \in DOMAIN v : v[i] = 0 \/ v[i] = 1

LEMMA OnesTotal ==
  ASSUME NEW v \in Seq(Nat), AllOnes(v)
  PROVE  Total(v) = Len(v)
<1> DEFINE d == Len(v)
<1>1. d \in Nat /\ DOMAIN v = 1 .. d
  OBVIOUS
<1>2. PICK f : Sums(f, v, d) /\ Total(v) = f[d]
  BY <1>1, TotalIs
<1>. HIDE DEF d
<1>3. f[0] = 0 /\ \A n \in 1 .. d : f[n] = f[n - 1] + v[n]
  BY <1>2, Zenon DEF Sums
<1> DEFINE T == {n \in 0 .. d : f[n] = n}
<1>4. 0 \in T
  BY <1>1, <1>3
<1>5. ASSUME NEW n \in 1 .. d, n - 1 \in T PROVE n \in T
  <2>1. f[n - 1] = n - 1 /\ v[n] = 1 /\ n \in 0 .. d
    BY <1>1, <1>5 DEF AllOnes
  <2>2. f[n] = (n - 1) + 1
    BY <1>3, <2>1, Zenon
  <2>. QED
    BY <2>1, <2>2
<1>6. d \in T
  <2>1. \A n \in 1 .. d : n - 1 \in T => n \in T
    BY <1>5
  <2>2. d \in 0 .. d
    BY <1>1
  <2>. HIDE DEF T
  <2>3. \A n \in 0 .. d : n \in T
    BY <1>1, <1>4, <2>1, UpTo
  <2>. QED
    BY <2>2, <2>3
<1>7. f[d] = d
  BY <1>6
<1>. QED
  BY <1>2, <1>7, Zenon DEF d

ZerosTo(v, n) == {i \in 1 .. n : v[i] = 0}

LEMMA ZerosAndOnes ==
  ASSUME NEW v \in Seq(Nat), ZeroOrOne(v)
  PROVE  /\ IsFiniteSet({i \in DOMAIN v : v[i] = 0})
         /\ Cardinality({i \in DOMAIN v : v[i] = 0}) \in Nat
         /\ Len(v) = Total(v) + Cardinality({i \in DOMAIN v : v[i] = 0})
<1> DEFINE d == Len(v)
<1>1. d \in Nat /\ DOMAIN v = 1 .. d
  OBVIOUS
<1>2. PICK f : Sums(f, v, d) /\ Total(v) = f[d]
  BY <1>1, TotalIs
<1>. HIDE DEF d
<1>3. f \in [0 .. d -> Nat] /\ f[0] = 0 /\ \A n \in 1 .. d : f[n] = f[n - 1] + v[n]
  BY <1>2, Zenon DEF Sums
<1> DEFINE T == {n \in 0 .. d : /\ IsFiniteSet(ZerosTo(v, n))
                               /\ Cardinality(ZerosTo(v, n)) \in Nat
                               /\ n = f[n] + Cardinality(ZerosTo(v, n))}
<1>4. 0 \in T
  <2>1. ZerosTo(v, 0) = {} /\ 0 \in 0 .. d
    BY <1>1 DEF ZerosTo
  <2>2. IsFiniteSet({}) /\ Cardinality({}) = 0
    BY FS_EmptySet
  <2>. QED
    <3>1. 0 = f[0] + 0 /\ 0 \in Nat
      BY <1>3
    <3>. QED
      BY <2>1, <2>2, <3>1, Zenon
<1>5. ASSUME NEW n \in 1 .. d, n - 1 \in T PROVE n \in T
  <2>1. n \in 0 .. d /\ n - 1 \in 0 .. d /\ n \in Nat /\ n - 1 \in Nat
    BY <1>1
  <2>2. /\ IsFiniteSet(ZerosTo(v, n - 1)) /\ Cardinality(ZerosTo(v, n - 1)) \in Nat
        /\ n - 1 = f[n - 1] + Cardinality(ZerosTo(v, n - 1))
    BY <1>5
  <2>3. f[n] = f[n - 1] + v[n] /\ f[n - 1] \in Nat /\ (v[n] = 0 \/ v[n] = 1)
    BY <1>1, <1>3, <2>1 DEF ZeroOrOne
  <2>4. CASE v[n] = 0
    <3>1. ZerosTo(v, n) = ZerosTo(v, n - 1) \cup {n} /\ n \notin ZerosTo(v, n - 1)
      BY <2>1, <2>4 DEF ZerosTo
    <3>2. IsFiniteSet(ZerosTo(v, n)) /\ Cardinality(ZerosTo(v, n)) = Cardinality(ZerosTo(v, n - 1)) + 1
      <4> DEFINE z == ZerosTo(v, n - 1)
      <4>. HIDE DEF z
      <4>1. IsFiniteSet(z) => /\ IsFiniteSet(z \cup {n})
                              /\ n \notin z => Cardinality(z \cup {n}) = Cardinality(z) + 1
        BY FS_AddElement
      <4>. QED
        BY <2>2, <3>1, <4>1, Zenon DEF z
    <3>3. f[n] = f[n - 1]
      BY <2>3, <2>4
    <3>4. n = f[n] + Cardinality(ZerosTo(v, n)) /\ Cardinality(ZerosTo(v, n)) \in Nat
      <4>1. f[n - 1] \in Nat
        BY <2>3
      <4> DEFINE k == f[n - 1]
                 m == Cardinality(ZerosTo(v, n - 1))
                 c == Cardinality(ZerosTo(v, n))
      <4>2. k \in Nat /\ m \in Nat /\ n \in Nat /\ n - 1 = k + m /\ c = m + 1
        BY <2>1, <2>2, <3>2, <4>1, Zenon
      <4>. HIDE DEF k, m, c
      <4>3. n = k + c /\ c \in Nat
        BY <4>2
      <4>. QED
        BY <3>3, <4>3, Zenon DEF k, c
    <3>. QED
      BY <2>1, <3>2, <3>4
  <2>5. CASE v[n] = 1
    <3>1. ZerosTo(v, n) = ZerosTo(v, n - 1)
      BY <2>1, <2>5 DEF ZerosTo
    <3>2. f[n] = f[n - 1] + 1
      BY <2>3, <2>5
    <3>3. n = f[n] + Cardinality(ZerosTo(v, n))
      BY <2>1, <2>2, <2>3, <3>1, <3>2
    <3>. QED
      BY <2>1, <2>2, <3>1, <3>3
  <2>. QED
    BY <2>3, <2>4, <2>5
<1>6. d \in T
  <2>1. \A n \in 1 .. d : n - 1 \in T => n \in T
    BY <1>5
  <2>2. d \in 0 .. d
    BY <1>1
  <2>. HIDE DEF T
  <2>3. \A n \in 0 .. d : n \in T
    BY <1>1, <1>4, <2>1, UpTo
  <2>. QED
    BY <2>2, <2>3
<1>7. ZerosTo(v, d) = {i \in DOMAIN v : v[i] = 0}
  BY <1>1 DEF ZerosTo
<1>8. IsFiniteSet(ZerosTo(v, d)) /\ Cardinality(ZerosTo(v, d)) \in Nat /\ d = f[d] + Cardinality(ZerosTo(v, d))
  BY <1>6
<1>. QED
  BY <1>2, <1>7, <1>8, Zenon DEF d

\* A region counts 1, but that of a scalar nothing.
Marks(s) == [i \in DOMAIN s |-> IF s[i].to[2] = 0 THEN 0 ELSE 1]
Counted(s) == Total(Marks(s))
Mark == [r \in RegionSet |-> IF r.to[2] = 0 THEN 0 ELSE 1]

LEMMA MarksAre ==
  ASSUME NEW s \in Seq(RegionSet)
  PROVE  /\ Marks(s) \in Seq(Nat) /\ Len(Marks(s)) = Len(s)
         /\ \A i \in DOMAIN s : Marks(s)[i] = IF s[i].to[2] = 0 THEN 0 ELSE 1
         /\ Counted(s) = SumOf(Mark, s)
<1> DEFINE S == RegionSet
<1>1. Mark \in [S -> Nat] /\ \A r \in S : Mark[r] = IF r.to[2] = 0 THEN 0 ELSE 1
  <2>. HIDE DEF S
  <2>1. Mark = [r \in S |-> IF r.to[2] = 0 THEN 0 ELSE 1]
    BY Zenon DEF Mark, S
  <2>. QED
    BY <2>1
<1> DEFINE v == [i \in DOMAIN s |-> Mark[s[i]]]
<1>2. Values(v, Mark, s)
  BY <1>1, ValuesAre, Zenon
<1>3. s \in Seq(S)
  OBVIOUS
<1>. HIDE DEF S
<1>4. DOMAIN s = 1 .. Len(s) /\ \A i \in DOMAIN s : s[i] \in S
  BY <1>3
<1>5. \A i \in DOMAIN s : v[i] = IF s[i].to[2] = 0 THEN 0 ELSE 1
  BY <1>1, <1>4
<1>6. v = Marks(s)
  BY <1>1, <1>4 DEF Marks
<1>7. SumOf(Mark, s) = Total(v)
  BY Zenon DEF SumOf
<1>. HIDE DEF v
<1>. QED
  BY <1>2, <1>5, <1>6, <1>7, Zenon DEF Values, Counted

LEMMA SameLast ==
  ASSUME NEW a \in Nat, NEW b \in Nat, 1 .. a = 1 .. b
  PROVE  a = b
<1>1. \A i \in 1 .. a : i \in 1 .. b
  OBVIOUS
<1>2. \A i \in 1 .. b : i \in 1 .. a
  OBVIOUS
<1>3. CASE a < b
  BY <1>2, <1>3
<1>4. CASE b < a
  BY <1>1, <1>4
<1>. QED
  BY <1>3, <1>4

\* The regions of a node are counted as its type's fields.
LEMMA FillCount ==
  ASSUME root \in Roots, NEW n \in 0 .. Depth[root], NEW j \in DOMAIN Levels[root][n],
         NEW base \in Nat
  PROVE  /\ Fill(Levels[root][n][j], base) \in Seq(RegionSet)
         /\ Counted(Fill(Levels[root][n][j], base)) = Len(FieldsOf(NodeType(Levels[root][n][j])))
<1> DEFINE p == Levels[root][n][j]
           x == NodeType(p)
           s == Fill(p, base)
<1>1. s \in Seq(RegionSet)
  BY FillIs, Zenon DEF RegionsOf
<1>2. /\ Marks(s) \in Seq(Nat) /\ Len(Marks(s)) = Len(s)
      /\ \A i \in DOMAIN s : Marks(s)[i] = IF s[i].to[2] = 0 THEN 0 ELSE 1
  BY <1>1, MarksAre, Zenon
<1>3. s = IF x \in DOMAIN Struct
          THEN [i \in DOMAIN Struct[x] |->
                  [to |-> <<p, i>>, addr |-> base + Offsets[x][i], size |-> Sizes[root][<<p, i>>]]]
          ELSE << [to |-> <<p, 0>>, addr |-> base, size |-> Sizes[root][<<p, 0>>]] >>
  BY Zenon DEF Fill, Aggregate
<1>4. x \in DOMAIN Struct => Len(Struct[x]) \in Nat /\ DOMAIN Struct[x] = 1 .. Len(Struct[x])
  BY Member
<1>. HIDE DEF s, p, x
<1>5. DOMAIN Marks(s) = DOMAIN s /\ DOMAIN s = 1 .. Len(s) /\ Len(s) \in Nat
  <2>1. DOMAIN Marks(s) = DOMAIN s
    BY DEF Marks
  <2>2. DOMAIN s = 1 .. Len(s) /\ Len(s) \in Nat
    BY <1>1, LenProperties, Zenon
  <2>. QED
    BY <2>1, <2>2
<1>6. CASE x \in DOMAIN Struct
  <2>1. DOMAIN s = DOMAIN Struct[x] /\ \A i \in DOMAIN s : s[i].to[2] = i
    BY <1>3, <1>6
  <2>2. Len(s) = Len(Struct[x])
    <3>1. Len(Struct[x]) \in Nat /\ 1 .. Len(s) = 1 .. Len(Struct[x])
      BY <1>4, <1>5, <1>6, <2>1, Zenon
    <3>. QED
      BY <1>5, <3>1, SameLast
  <2>3. \A i \in DOMAIN s : i # 0
    BY <1>5
  <2>4. \A i \in DOMAIN Marks(s) : Marks(s)[i] = 1
    BY <1>2, <1>5, <2>1, <2>3, Zenon
  <2>5. Total(Marks(s)) = Len(Marks(s))
    BY <1>2, <2>4, OnesTotal, Zenon DEF AllOnes
  <2>6. FieldsOf(x) = Struct[x]
    BY <1>6 DEF FieldsOf, Aggregate
  <2>. QED
    BY <1>1, <1>2, <2>2, <2>5, <2>6, Zenon DEF Counted, s, x, p
<1>7. CASE x \notin DOMAIN Struct
  <2>1. Len(s) = 1 /\ s[1].to[2] = 0
    BY <1>3, <1>7
  <2>2. 1 \in DOMAIN s
    BY <1>5, <2>1
  <2>3. Marks(s)[1] = 0 /\ Len(Marks(s)) = 1
    BY <1>2, <2>1, <2>2, Zenon
  <2>4. PICK f : Sums(f, Marks(s), 1) /\ Total(Marks(s)) = f[1]
    BY <1>2, <2>3, TotalIs
  <2>5. f[0] = 0 /\ f[1] = f[1 - 1] + Marks(s)[1]
    <3>1. 1 \in 1 .. 1
      OBVIOUS
    <3>. QED
      BY <2>4, <3>1, Zenon DEF Sums
  <2>6. Total(Marks(s)) = 0
    BY <2>3, <2>4, <2>5
  <2>7. Len(FieldsOf(x)) = 0
    BY <1>7 DEF FieldsOf, Aggregate
  <2>. QED
    BY <1>1, <2>6, <2>7, Zenon DEF Counted, s, x, p
<1>. QED
  BY <1>6, <1>7

\* The regions of a level are counted as the types say.
LEMMA FillLevelCount ==
  ASSUME root \in Roots, ObjectInv, NEW n \in 1 .. Depth[root]
  PROVE  /\ FillLevel(n) \in Seq(RegionSet)
         /\ Counted(FillLevel(n)) = LevelCount(root, n)
<1> DEFINE nodes == Levels[root][n]
           l == Len(nodes)
           b == [j \in DOMAIN nodes |-> Fill(nodes[j], PointerTo(nodes[j]))]
<1>1. Depth[root] \in Nat /\ n \in 0 .. Depth[root] /\ 0 \in 0 .. Depth[root]
  BY RootsAreDeep
<1>2. PICK f : Counts(f, Depth[root])
  BY <1>1, CountsExist
<1> DEFINE g == NodeCount(f, root, 0)
           v == [j \in DOMAIN nodes |-> g[nodes[j]]]
<1>3. SumOf(g, nodes) = LevelCount(root, n)
  BY <1>1, <1>2, LevelTotal, Zenon
<1>4. nodes \in Seq(Typed(root))
  BY <1>1, LevelTyped, Zenon
<1>5. g \in [Typed(root) -> Nat] /\ \A p \in Typed(root) : g[p] = f[0][TypeAt(root, p)]
  <2> DEFINE d == Depth[root]
  <2>1. d \in Nat /\ 0 \in 0 .. d /\ Counts(f, d)
    BY <1>1, <1>2
  <2>. HIDE DEF d
  <2>. QED
    BY <2>1, NodeCountIs
<1>6. \A p \in Typed(root) : g[p] = Len(FieldsOf(NodeType(p)))
  <2>1. \A x \in Types : f[0][x] = Len(FieldsOf(x))
    BY <1>2, Zenon DEF Counts
  <2>. QED
    BY <1>5, <2>1, Zenon DEF Typed, NodeType
<1>7. SumOf(g, nodes) = Total(v) /\ Values(v, g, nodes)
  BY <1>4, <1>5, ValuesAre, Zenon DEF SumOf
<1>8. \A j \in DOMAIN nodes :
        /\ Fill(nodes[j], PointerTo(nodes[j])) \in Seq(RegionSet)
        /\ Counted(Fill(nodes[j], PointerTo(nodes[j]))) = Len(FieldsOf(NodeType(nodes[j])))
  BY <1>1, FillCount, PointersAreNumbers
<1>9. FillLevel(n) = FlattenSeq(b)
  BY Zenon DEF FillLevel
<1> DEFINE S == RegionSet
<1>. HIDE DEF nodes, g, v, S
<1>10. l \in Nat /\ DOMAIN nodes = 1 .. l /\ \A j \in 1 .. l : nodes[j] \in Typed(root)
  BY <1>4
<1>11. DOMAIN b = DOMAIN nodes /\ \A j \in DOMAIN nodes : b[j] = Fill(nodes[j], PointerTo(nodes[j]))
  OBVIOUS
<1>12. b \in Seq(Seq(S)) /\ Len(b) = l
  <2>1. \A j \in 1 .. l : b[j] \in Seq(S)
    BY <1>8, <1>10, <1>11, Zenon DEF S
  <2>2. b = [j \in 1 .. l |-> b[j]]
    <3>1. b = [j \in DOMAIN nodes |-> b[j]]
      OBVIOUS
    <3>. HIDE DEF b
    <3>. QED
      BY <1>10, <3>1, Zenon
  <2>. HIDE DEF b, l
  <2>3. b \in [1 .. l -> Seq(S)]
    BY <2>1, <2>2
  <2>4. b \in Seq(Seq(S))
    BY <1>10, <2>3, SeqDef
  <2>5. Len(b) \in Nat /\ DOMAIN b = 1 .. Len(b)
    BY <2>4, LenProperties, Zenon
  <2>6. Len(b) = l
    BY <1>10, <1>11, <2>5
  <2>. QED
    BY <2>4, <2>6
<1>. HIDE DEF b, l
<1>13. v \in Seq(Nat) /\ Len(v) = Len(b) /\ \A j \in 1 .. Len(b) : v[j] = g[nodes[j]]
  <2>1. l = Len(nodes)
    BY DEF l
  <2>. QED
    BY <1>7, <1>12, <2>1, Zenon DEF Values
<1>14. \A j \in 1 .. Len(b) : v[j] = SumOf(Mark, b[j])
  <2> TAKE j \in 1 .. Len(b)
  <2>1. j \in DOMAIN nodes /\ nodes[j] \in Typed(root)
    BY <1>10, <1>12, Zenon
  <2>2. b[j] \in Seq(RegionSet) /\ Counted(b[j]) = Len(FieldsOf(NodeType(nodes[j])))
    BY <1>8, <1>11, <2>1, Zenon
  <2>3. Counted(b[j]) = SumOf(Mark, b[j])
    BY <2>2, MarksAre, Zenon
  <2>. QED
    BY <1>6, <1>13, <2>1, <2>2, <2>3, Zenon
<1>15. Mark \in [S -> Nat]
  BY DEF Mark, S
<1>16. SumOf(Mark, FlattenSeq(b)) = Total(v)
  <2>1. SumsEach(v, Mark, b)
    BY <1>13, <1>14, Zenon DEF SumsEach
  <2>. QED
    BY <1>12, <1>13, <1>15, <2>1, SumFlatten, Zenon
<1>17. FlattenSeq(b) \in Seq(S)
  BY <1>12, FlattenPlaces, Zenon
<1>18. Counted(FlattenSeq(b)) = SumOf(Mark, FlattenSeq(b))
  BY <1>17, MarksAre, Zenon DEF S
<1>. QED
  BY <1>3, <1>7, <1>9, <1>16, <1>17, <1>18, Zenon DEF S

--------------------------------------------------------------------------------
(* The arrays suffice *)

\* No level has more fields than the most of any level.
LEMMA MaxIs ==
  ASSUME NEW t \in Roots, NEW n \in 0 .. Depth[t]
  PROVE  /\ LevelCount(t, n) \in Nat /\ MaxFieldCount(t) \in Nat
         /\ LevelCount(t, n) <= MaxFieldCount(t)
<1> DEFINE d == Depth[t]
           S == {LevelCount(t, m) : m \in 0 .. d}
<1>1. d \in Nat /\ t \in Types
  BY RootsAreDeep, RootsValidated DEF Types, Aggregate
<1>2. PICK f : Counts(f, d)
  BY <1>1, CountsExist
<1>3. \A m \in 0 .. d : LevelCount(t, m) = f[m][t]
  BY <1>1, <1>2, LevelCountIs, Zenon
<1>4. f \in [0 .. d -> [Types -> Nat]]
  BY <1>2, Zenon DEF Counts
<1>5. \A m \in 0 .. d : LevelCount(t, m) \in Nat
  <2>1. \A m \in 0 .. d : f[m][t] \in Nat
    BY <1>1, <1>4
  <2>. QED
    BY <1>3, <2>1, Zenon
<1> DEFINE T == {m \in 0 .. d : \E k \in 0 .. d : \A i \in 0 .. m : LevelCount(t, i) <= LevelCount(t, k)}
<1>6. 0 \in T
  <2>1. 0 \in 0 .. d /\ \A i \in 0 .. 0 : i = 0
    BY <1>1
  <2>2. LevelCount(t, 0) <= LevelCount(t, 0)
    BY <1>5, <2>1
  <2>. QED
    BY <2>1, <2>2
<1>7. ASSUME NEW m \in 1 .. d, m - 1 \in T PROVE m \in T
  <2>1. m \in 0 .. d /\ \A i \in 0 .. m : i \in 0 .. m - 1 \/ i = m
    BY <1>1
  <2>2. PICK k \in 0 .. d : \A i \in 0 .. m - 1 : LevelCount(t, i) <= LevelCount(t, k)
    BY <1>7
  <2>3. LevelCount(t, m) \in Nat /\ LevelCount(t, k) \in Nat
    BY <1>5, <2>1
  <2>4. \A i \in 0 .. m - 1 : LevelCount(t, i) \in Nat
    BY <1>1, <1>5
  <2>5. CASE LevelCount(t, m) <= LevelCount(t, k)
    BY <2>1, <2>2, <2>5
  <2>6. CASE LevelCount(t, k) <= LevelCount(t, m)
    <3>1. \A i \in 0 .. m - 1 : LevelCount(t, i) <= LevelCount(t, m)
      BY <2>2, <2>3, <2>4, <2>6
    <3>2. LevelCount(t, m) <= LevelCount(t, m)
      BY <2>3
    <3>. QED
      BY <2>1, <3>1, <3>2
  <2>. QED
    BY <2>3, <2>5, <2>6
<1>8. d \in T
  <2>1. \A m \in 1 .. d : m - 1 \in T => m \in T
    BY <1>7
  <2>2. d \in 0 .. d
    BY <1>1
  <2>. HIDE DEF T, d
  <2>3. \A m \in 0 .. d : m \in T
    BY <1>1, <1>6, <2>1, UpTo
  <2>. QED
    BY <2>2, <2>3
<1>9. \E x \in S : \A y \in S : x >= y
  <2>1. PICK k \in 0 .. d : \A i \in 0 .. d : LevelCount(t, i) <= LevelCount(t, k)
    BY <1>8
  <2>2. \A i \in 0 .. d : LevelCount(t, k) >= LevelCount(t, i)
    BY <2>1
  <2>. QED
    BY <2>2, Zenon
<1>10. MaxFieldCount(t) = Max(S)
  BY Zenon DEF MaxFieldCount
<1>11. Max(S) \in S /\ \A y \in S : Max(S) >= y
  <2>. HIDE DEF S
  <2>. QED
    BY <1>9, Zenon DEF Max
<1>12. S \subseteq Nat
  BY <1>5
<1>13. LevelCount(t, n) \in S
  OBVIOUS
<1>. HIDE DEF S
<1>14. LevelCount(t, n) \in Nat /\ Max(S) \in Nat /\ Max(S) >= LevelCount(t, n)
  BY <1>11, <1>12, <1>13
<1>. QED
  BY <1>10, <1>14

\* The regions of the level, but for the scalars, are what the types count.
CountInv == level # -1 => Counted(regions) = LevelCount(root, level)

LEMMA RootCount ==
  ASSUME root \in Roots
  PROVE  Counted(Fill(<<>>, RootAddr)) = LevelCount(root, 0)
<1>1. 0 \in 0 .. Depth[root] /\ Depth[root] \in Nat /\ root \in Types
  BY RootsAreDeep, RootsValidated DEF Types, Aggregate
<1>2. Levels[root][0] = << <<>> >>
  BY <1>1, LevelsAre
<1>3. 1 \in DOMAIN Levels[root][0] /\ Levels[root][0][1] = <<>>
  BY <1>2
<1>4. RootAddr \in Nat
  BY MemoryAssumption
<1>5. Counted(Fill(<<>>, RootAddr)) = Len(FieldsOf(root))
  BY <1>1, <1>3, <1>4, FillCount, RootType, Zenon DEF NodeType
<1>6. PICK f : Counts(f, Depth[root])
  BY <1>1, CountsExist
<1>7. LevelCount(root, 0) = f[0][root]
  BY <1>1, <1>6, LevelCountIs, Zenon
<1>. QED
  BY <1>1, <1>5, <1>6, <1>7, Zenon DEF Counts

LEMMA CountKept == IInv /\ CountInv /\ [Next]_vars => CountInv'
<1> SUFFICES ASSUME IInv, CountInv, [Next]_vars PROVE CountInv'
  OBVIOUS
<1>1. CASE Call
  <2>1. regions' = Fill(<<>>, RootAddr) /\ level' = 0 /\ root' = root
    BY <1>1 DEF Call
  <2>2. Counted(Fill(<<>>, RootAddr)) = LevelCount(root, 0)
    BY RootCount DEF IInv, WalkInv
  <2>. QED
    BY <2>1, <2>2, Zenon DEF CountInv
<1>2. CASE Descend
  <2>1. regions' = FillLevel(level + 1) /\ level' = level + 1 /\ root' = root
        /\ level \in 0 .. Depth[root] - 1
    BY <1>2 DEF Descend
  <2>2. root \in Roots /\ ObjectInv
    BY DEF IInv, WalkInv
  <2>3. level + 1 \in 1 .. Depth[root]
    BY <2>1, <2>2, RootsAreDeep
  <2>4. Counted(FillLevel(level + 1)) = LevelCount(root, level + 1)
    BY <2>2, <2>3, FillLevelCount
  <2>. QED
    BY <2>1, <2>4, Zenon DEF CountInv
<1>3. CASE UNCHANGED <<regions, level, root>>
  BY <1>3, Zenon DEF CountInv
<1>4. Copy \/ Fault \/ TargetWrites \/ UNCHANGED vars => UNCHANGED <<regions, level, root>>
  BY DEF Copy, Fault, TargetWrites, vars
<1>. QED
  BY <1>1, <1>2, <1>3, <1>4 DEF Next

LEMMA InductiveCount == Spec => []CountInv
<1>1. Init => CountInv
  BY DEF Init, CountInv
<1>. QED
  BY <1>1, CountKept, Inductive, PTL DEF Spec

\* A level has as many regions as the count over its types says, and one for each
\* scalar; the arrays of manager<Mem>::read have places for what any level counts,
\* and for all that a level writes exactly where the scalars fit into the rest.
THEOREM RegionsFitCount == Spec => []RegionsCounted
<1>1. IInv /\ CountInv => RegionsCounted
  <2> SUFFICES ASSUME IInv, CountInv, level >= 0
               PROVE  LET scalars == Cardinality({i \in DOMAIN regions : regions[i].to[2] = 0})
                          free == Capacity[root] - LevelCount(root, level)
                      IN  /\ Len(regions) = LevelCount(root, level) + scalars
                          /\ free >= 0
                          /\ Fits <=> scalars <= free
    BY DEF RegionsCounted
  <2> DEFINE scalars == Cardinality({i \in DOMAIN regions : regions[i].to[2] = 0})
             v == Marks(regions)
             zeros == {i \in DOMAIN v : v[i] = 0}
  <2>1. root \in Roots /\ level \in 0 .. Depth[root] /\ level # -1
    BY RootsAreDeep DEF IInv, WalkInv
  <2>2. regions \in Seq(RegionSet)
    BY <2>1, Zenon DEF IInv, RegionsInv, FieldsOfLevel, RegionSet
  <2>3. /\ v \in Seq(Nat) /\ Len(v) = Len(regions)
        /\ \A i \in DOMAIN regions : v[i] = IF regions[i].to[2] = 0 THEN 0 ELSE 1
    BY <2>2, MarksAre, Zenon
  <2>4. DOMAIN v = DOMAIN regions
    BY DEF Marks
  <2>5. Total(v) = LevelCount(root, level)
    BY <2>1, Zenon DEF CountInv, Counted
  <2>. HIDE DEF v
  <2>6. zeros = {i \in DOMAIN regions : regions[i].to[2] = 0}
    BY <2>3, <2>4
  <2>7. \A i \in DOMAIN v : v[i] = 0 \/ v[i] = 1
    BY <2>3, <2>4, Zenon
  <2>8. Cardinality(zeros) \in Nat /\ Len(v) = Total(v) + Cardinality(zeros)
    BY <2>3, <2>7, ZerosAndOnes, Zenon DEF ZeroOrOne
  <2>9. Cardinality(zeros) = scalars
    BY <2>6, Zenon
  <2>10. /\ LevelCount(root, level) \in Nat /\ Capacity[root] \in Nat
         /\ LevelCount(root, level) <= Capacity[root]
    BY <2>1, MaxIs DEF Capacity
  <2>. HIDE DEF zeros, scalars
  <2>11. Len(regions) = LevelCount(root, level) + scalars /\ scalars \in Nat
    BY <2>3, <2>5, <2>8, <2>9, Zenon
  <2>12. /\ Capacity[root] - LevelCount(root, level) >= 0
         /\ Fits <=> scalars <= Capacity[root] - LevelCount(root, level)
    BY <2>10, <2>11 DEF Fits
  <2>. QED
    BY <2>11, <2>12 DEF scalars
<1>. QED
  BY <1>1, Inductive, InductiveCount, PTL
================================================================================

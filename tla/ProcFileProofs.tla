----------------------------- MODULE ProcFileProofs -----------------------------
(***************************************************************************)
(* Proofs about the two files of /proc that the library parses.              *)
(*                                                                         *)
(* Maps: wherever the buffer cuts the text, and whichever loops the client    *)
(* runs over it, the entries are the lines, none is missed, the cursor stays  *)
(* in the text, and the type of an entry fits the permissions of its line.    *)
(* Package: the values of a first load are those of the lines that came       *)
(* whole, later loads keep its numbers, and is_app means an app.             *)
(*                                                                         *)
(* The lemmas go from the cursor to the file: what a run of symbols and a     *)
(* token are, what lies where in a text, what a line is parsed into, where    *)
(* the lines of a file begin, what is left of the line that was cut.  For     *)
(* Maps the inductive invariant then says which line the cursor is at, for    *)
(* Package what of the first load the map still has.                        *)
(***************************************************************************)
EXTENDS Maps, Package, SequenceTheorems, WellFoundedInduction, TLAPS

--------------------------------------------------------------------------------
(* Induction and recursion *)

\* Every nonempty set of numbers has a least one.
LEMMA Least ==
  ASSUME NEW T, T \subseteq Nat, T # {}
  PROVE  \E n \in T : \A m \in T : n <= m
<1>1. IsWellFoundedOn(OpToRel(<, Nat), Nat)
  BY NatLessThanWellFounded
<1>2. PICK n \in T : \A m \in T : ~(<<m, n>> \in OpToRel(<, Nat))
  BY <1>1, WFMin
<1>3. \A k, m \in Nat : <<m, k>> \in OpToRel(<, Nat) <=> m < k
  BY DEF OpToRel
<1>4. \A m \in T : ~(m < n)
  BY <1>2, <1>3
<1>5. \A m \in T : n <= m
  BY <1>4
<1>. QED
  BY <1>5

\* Induction up to d, in terms of the set of numbers that it is about.
LEMMA UpTo ==
  ASSUME NEW d \in Nat, NEW T, 0 \in T, \A n \in 1 .. d : n - 1 \in T => n \in T
  PROVE  \A n \in 0 .. d : n \in T
<1> SUFFICES ASSUME NEW n \in 0 .. d, n \notin T PROVE FALSE
  OBVIOUS
<1> DEFINE R == {m \in 0 .. d : m \notin T}
<1>1. R # {} /\ R \subseteq Nat
  OBVIOUS
<1>2. PICK k \in R : \A m \in R : k <= m
  <2>. HIDE DEF R
  <2>. QED
    BY <1>1, Least
<1>3. k \in 1 .. d /\ k - 1 \in 0 .. d /\ k \notin T
  BY <1>2
<1>4. k - 1 \in T
  BY <1>2, <1>3
<1>. QED
  BY <1>3, <1>4

\* A function is defined by its value at 0 and by a step that stays in V.
Defines(f, V, v, d, F) == /\ f \in [0 .. d -> V]
                          /\ f[0] = v
                          /\ \A n \in 1 .. d : f[n] = F[<<n, f[n - 1]>>]

LEMMA Recursion ==
  ASSUME NEW V, NEW v \in V, NEW d \in Nat, NEW F,
         \A n \in 1 .. d : \A x \in V : F[<<n, x>>] \in V
  PROVE  \E f : Defines(f, V, v, d, F)
<1> DEFINE Q(f, k) == f \in [0 .. k -> V] /\ f[0] = v /\ \A n \in 1 .. k : f[n] = F[<<n, f[n - 1]>>]
           T == {k \in 0 .. d : \E f : Q(f, k)}
<1>1. 0 \in T
  <2> DEFINE f == [n \in 0 .. 0 |-> v]
  <2>1. Q(f, 0)
    OBVIOUS
  <2>. HIDE DEF Q
  <2>. QED
    BY <2>1
<1>2. ASSUME NEW k \in 1 .. d, k - 1 \in T PROVE k \in T
  <2>1. PICK f : Q(f, k - 1)
    BY <1>2
  <2> DEFINE g == [n \in 0 .. k |-> IF n = k THEN F[<<k, f[k - 1]>>] ELSE f[n]]
  <2>2. \A n \in 0 .. k - 1 : g[n] = f[n] /\ f[n] \in V
    BY <2>1
  <2>3. g[k] = F[<<k, f[k - 1]>>] /\ F[<<k, f[k - 1]>>] \in V
    <3>1. k - 1 \in 0 .. k - 1 /\ k \in 0 .. k
      OBVIOUS
    <3>2. f[k - 1] \in V
      BY <2>2, <3>1
    <3>. QED
      BY <3>1, <3>2
  <2>4. g \in [0 .. k -> V]
    <3>1. \A n \in 0 .. k : n \in 0 .. k - 1 \/ n = k
      OBVIOUS
    <3>2. g = [n \in 0 .. k |-> g[n]]
      OBVIOUS
    <3>. HIDE DEF g
    <3>3. \A n \in 0 .. k : g[n] \in V
      BY <2>2, <2>3, <3>1
    <3>. QED
      BY <3>2, <3>3, Zenon
  <2>. HIDE DEF g
  <2>5. ASSUME NEW n \in 1 .. k PROVE g[n] = F[<<n, g[n - 1]>>]
    <3>1. CASE n \in 1 .. k - 1
      <4>1. n \in 0 .. k - 1 /\ n - 1 \in 0 .. k - 1
        BY <3>1
      <4>. QED
        BY <2>1, <2>2, <3>1, <4>1
    <3>2. CASE n = k
      BY <2>2, <2>3, <3>2
    <3>. QED
      BY <3>1, <3>2
  <2>6. Q(g, k)
    BY <2>1, <2>2, <2>4, <2>5
  <2>. HIDE DEF Q
  <2>. QED
    BY <2>6
<1>3. d \in T
  <2>. HIDE DEF T
  <2>. QED
    BY <1>1, <1>2, UpTo
<1>. QED
  BY <1>3, Zenon DEF Defines

--------------------------------------------------------------------------------
(* FlattenSeq *)

\* FlattenSeq(s) is the last of the sequences f[n]: the first n of s put together.
LEMMA FlattenIs ==
  ASSUME NEW S, NEW s \in Seq(Seq(S)), NEW d \in Nat, d = Len(s)
  PROVE  \E f \in [0 .. d -> Seq(S)] :
            /\ f[0] = <<>>
            /\ \A n \in 1 .. d : f[n] = f[n - 1] \o s[n]
            /\ FlattenSeq(s) = f[d]
<1> DEFINE F == [z \in (1 .. d) \X Seq(S) |-> z[2] \o s[z[1]]]
<1>1. \A n \in 1 .. d : s[n] \in Seq(S)
  OBVIOUS
<1>2. \A n \in 1 .. d : \A x \in Seq(S) : F[<<n, x>>] = x \o s[n] /\ F[<<n, x>>] \in Seq(S)
  <2> TAKE n \in 1 .. d
  <2> TAKE x \in Seq(S)
  <2>1. F[<<n, x>>] = x \o s[n]
    OBVIOUS
  <2>2. x \o s[n] \in Seq(S)
    BY <1>1, ConcatProperties
  <2>. QED
    BY <2>1, <2>2
<1>3. <<>> \in Seq(S)
  BY EmptySeq
<1>4. PICK f : Defines(f, Seq(S), <<>>, d, F)
  <2>. HIDE DEF F
  <2>1. \A n \in 1 .. d : \A x \in Seq(S) : F[<<n, x>>] \in Seq(S)
    BY <1>2
  <2>. QED
    BY <1>3, <2>1, Recursion
<1>5. \A n \in 1 .. d : f[n - 1] \in Seq(S) /\ f[n] = f[n - 1] \o s[n]
  <2> TAKE n \in 1 .. d
  <2>1. f[n - 1] \in Seq(S)
    BY <1>4 DEF Defines
  <2>2. F[<<n, f[n - 1]>>] = f[n - 1] \o s[n]
    <3>. HIDE DEF F
    <3>. QED
      BY <1>2, <2>1
  <2>. QED
    BY <1>4, <2>1, <2>2, Zenon DEF Defines
<1>0. f \in [0 .. d -> Seq(S)] /\ f[0] = <<>>
  BY <1>4, Zenon DEF Defines
<1>6. CASE d = 0
  <2>1. s = <<>>
    BY <1>6, EmptySeq
  <2>2. FlattenSeq(s) = <<>>
    BY <1>6, <2>1 DEF FlattenSeq
  <2>. QED
    BY <1>0, <1>5, <1>6, <2>2
<1>7. CASE d # 0
  <2> DEFINE g == [n \in 1 .. d |-> f[n]]
             h == [i \in 1 .. d |-> IF i = 1 THEN s[i] ELSE g[i - 1] \o s[i]]
  <2>0. f[1] = s[1]
    <3>1. 1 \in 1 .. d /\ 1 - 1 = 0
      BY <1>7
    <3>2. f[1] = f[0] \o s[1]
      BY <1>5, <3>1
    <3>. QED
      BY <1>1, <1>0, <3>1, <3>2, ConcatEmptySeq
  <2>1. g = h
    <3>1. ASSUME NEW i \in 1 .. d PROVE g[i] = h[i]
      <4>1. CASE i = 1
        BY <2>0, <4>1
      <4>2. CASE i # 1
        <5>1. i - 1 \in 1 .. d
          BY <4>2
        <5>2. g[i] = f[i] /\ g[i - 1] = f[i - 1] /\ h[i] = g[i - 1] \o s[i]
          BY <4>2, <5>1
        <5>. QED
          BY <1>5, <5>2, Zenon
      <4>. QED
        BY <4>1, <4>2
    <3>2. g = [i \in 1 .. d |-> g[i]] /\ h = [i \in 1 .. d |-> h[i]]
      OBVIOUS
    <3>. HIDE DEF g, h
    <3>. QED
      BY <3>1, <3>2
  <2> DEFINE c == CHOOSE x : x = [i \in 1 .. d |-> IF i = 1 THEN s[i] ELSE x[i - 1] \o s[i]]
  <2>2. c = [i \in 1 .. d |-> IF i = 1 THEN s[i] ELSE c[i - 1] \o s[i]]
    BY <2>1, Zenon
  <2>3. FlattenSeq(s) = c[d]
    BY <1>7 DEF FlattenSeq
  <2>. HIDE DEF c
  <2> DEFINE k == [i \in 1 .. d |-> IF i = 1 THEN s[i] ELSE c[i - 1] \o s[i]]
  <2>4. k[1] = s[1] /\ \A i \in 2 .. d : k[i] = c[i - 1] \o s[i]
    <3>1. 1 \in 1 .. d /\ \A i \in 2 .. d : i \in 1 .. d /\ i # 1
      BY <1>7
    <3>. QED
      BY <3>1
  <2>. HIDE DEF k
  <2>5. c = k
    BY <2>2, Zenon DEF k
  <2> DEFINE T == {n \in 0 .. d : n = 0 \/ c[n] = f[n]}
  <2>6. 0 \in T
    OBVIOUS
  <2>7. ASSUME NEW n \in 1 .. d, n - 1 \in T PROVE n \in T
    <3>1. CASE n = 1
      BY <2>4, <2>5, <2>0, <3>1
    <3>2. CASE n # 1
      <4>1. n \in 2 .. d /\ n - 1 # 0
        BY <3>2
      <4>2. c[n - 1] = f[n - 1]
        BY <2>7, <4>1
      <4>3. c[n] = c[n - 1] \o s[n]
        BY <2>4, <2>5, <4>1
      <4>4. f[n] = f[n - 1] \o s[n]
        BY <1>5
      <4>5. c[n] = f[n]
        BY <4>2, <4>3, <4>4, Zenon
      <4>. QED
        BY <4>5
    <3>. QED
      BY <3>1, <3>2
  <2>8. d \in T
    <3>. HIDE DEF T
    <3>1. \A n \in 1 .. d : n - 1 \in T => n \in T
      BY <2>7
    <3>2. \A n \in 0 .. d : n \in T
      BY <2>6, <3>1, UpTo, Zenon
    <3>. QED
      BY <3>2
  <2>9. FlattenSeq(s) = f[d]
    BY <1>7, <2>3, <2>8
  <2>. QED
    BY <1>0, <1>5, <2>9
<1>. QED
  BY <1>6, <1>7

--------------------------------------------------------------------------------
(* The cursor *)

Text == Seq(Symbols)

\* From p to e the text has nothing but what is accepted.
Run(t, p, e, accepted) == \A q \in p .. e - 1 : At(t, q) \in accepted

\* The end of such a run.
RunEnd(t, e, accepted) == e = Len(t) \/ At(t, e) \notin accepted

LEMMA PastRuns ==
  ASSUME NEW t \in Text, NEW p \in 0 .. Len(t), NEW A
  PROVE  LET e == Past(t, p, A)
         IN  e \in p .. Len(t) /\ Run(t, p, e, A) /\ RunEnd(t, e, A)
<1> DEFINE R == {q \in p .. Len(t) : q = Len(t) \/ At(t, q) \notin A}
<1>1. Len(t) \in Nat
  BY DEF Text
<1>2. R # {} /\ R \subseteq Nat
  BY <1>1
<1>3. PICK e \in R : \A q \in R : e <= q
  <2>. HIDE DEF R
  <2>. QED
    BY <1>2, Least
<1>4. Min(R) \in R /\ \A q \in R : Min(R) <= q
  <2>. HIDE DEF R
  <2>. QED
    BY <1>3, Zenon DEF Min
<1> DEFINE m == Min(R)
<1>. HIDE DEF m
<1>5. m \in p .. Len(t) /\ RunEnd(t, m, A)
  BY <1>4 DEF m, RunEnd
<1>6. Run(t, p, m, A)
  <2> SUFFICES ASSUME NEW q \in p .. m - 1, At(t, q) \notin A PROVE FALSE
    BY DEF Run
  <2>1. q \in R
    BY <1>1, <1>5
  <2>2. m <= q
    BY <1>4, <2>1 DEF m
  <2>. QED
    BY <1>1, <1>5, <2>2
<1>7. CASE p >= Len(t)
  <2>1. Past(t, p, A) = p /\ p = Len(t)
    BY <1>1, <1>7 DEF Past
  <2>. QED
    BY <1>1, <2>1 DEF Run, RunEnd
<1>8. CASE ~(p >= Len(t))
  <2>1. Past(t, p, A) = m
    BY <1>8, Zenon DEF Past, m
  <2>. QED
    BY <1>5, <1>6, <2>1, Zenon
<1>. QED
  BY <1>7, <1>8

LEMMA PastIs ==
  ASSUME NEW t \in Text, NEW p \in 0 .. Len(t), NEW A, NEW e \in p .. Len(t),
         Run(t, p, e, A), RunEnd(t, e, A)
  PROVE  Past(t, p, A) = e
<1> DEFINE m == Past(t, p, A)
<1>1. m \in p .. Len(t) /\ Run(t, p, m, A) /\ RunEnd(t, m, A)
  BY PastRuns
<1>. HIDE DEF m
<1>2. Len(t) \in Nat
  BY DEF Text
<1>3. ASSUME m < e PROVE FALSE
  <2>1. m \in p .. e - 1 /\ m # Len(t)
    BY <1>1, <1>2, <1>3
  <2>. QED
    BY <1>1, <2>1 DEF Run, RunEnd
<1>4. ASSUME e < m PROVE FALSE
  <2>1. e \in p .. m - 1 /\ e # Len(t)
    BY <1>1, <1>2, <1>4
  <2>. QED
    BY <1>1, <2>1 DEF Run, RunEnd
<1>5. m = e
  <2>1. m \in Int /\ e \in Int
    BY <1>1
  <2>. QED
    BY <1>3, <1>4, <2>1
<1>. QED
  BY <1>5 DEF m

\* Beyond the end the cursor stays where it is.
LEMMA PastEnd ==
  ASSUME NEW t \in Text, NEW p \in Nat, p >= Len(t), NEW A
  PROVE  Past(t, p, A) = p
BY DEF Past

LEMMA NoBlank ==
  ASSUME NEW t \in Text, NEW p \in 0 .. Len(t), RunEnd(t, p, {Blank})
  PROVE  SkipWhitespace(t, p) = p
<1>1. p \in p .. Len(t) /\ Run(t, p, p, {Blank})
  BY DEF Text, Run
<1>. QED
  BY <1>1, PastIs DEF SkipWhitespace

LEMMA OneBlank ==
  ASSUME NEW t \in Text, NEW p \in Nat, p < Len(t), At(t, p) = Blank, RunEnd(t, p + 1, {Blank})
  PROVE  SkipWhitespace(t, p) = p + 1
<1>1. p \in 0 .. Len(t) /\ p + 1 \in p .. Len(t) /\ Run(t, p, p + 1, {Blank})
  BY DEF Text, Run
<1>. QED
  BY <1>1, PastIs DEF SkipWhitespace

\* A token lies behind the cursor and before the end of the text.
LEMMA TokenRuns ==
  ASSUME NEW t \in Text, NEW p \in 0 .. Len(t), NEW A
  PROVE  LET k == NextToken(t, p, A)
         IN  /\ k.from \in p .. Len(t) /\ k.to \in k.from .. Len(t)
             /\ Run(t, p, k.from, {Blank}) /\ Run(t, k.from, k.to, A)
             /\ RunEnd(t, k.from, {Blank}) /\ RunEnd(t, k.to, A)
             /\ k = [from |-> k.from, to |-> k.to]
<1> DEFINE f == SkipWhitespace(t, p)
           e == Past(t, f, A)
<1>1. f \in p .. Len(t) /\ Run(t, p, f, {Blank}) /\ RunEnd(t, f, {Blank})
  BY PastRuns DEF SkipWhitespace
<1>2. NextToken(t, p, A) = [from |-> f, to |-> e]
  BY Zenon DEF NextToken
<1>. HIDE DEF f
<1>3. f \in 0 .. Len(t)
  BY <1>1
<1>4. e \in f .. Len(t) /\ Run(t, f, e, A) /\ RunEnd(t, e, A)
  BY <1>3, PastRuns
<1>. HIDE DEF e
<1>5. NextToken(t, p, A).from = f /\ NextToken(t, p, A).to = e
  BY <1>2
<1>. QED
  BY <1>1, <1>2, <1>4, <1>5, Zenon

LEMMA TokenIs ==
  ASSUME NEW t \in Text, NEW p \in 0 .. Len(t), NEW A, NEW f \in p .. Len(t), NEW e \in f .. Len(t),
         SkipWhitespace(t, p) = f, Run(t, f, e, A), RunEnd(t, e, A)
  PROVE  NextToken(t, p, A) = [from |-> f, to |-> e]
<1>1. f \in 0 .. Len(t)
  OBVIOUS
<1>2. Past(t, f, A) = e
  BY <1>1, PastIs
<1>. QED
  BY <1>2, Zenon DEF NextToken

--------------------------------------------------------------------------------
(* What lies where in a text *)

\* The sequence s lies at p in t.
Lies(t, p, s) == p + Len(s) <= Len(t) /\ \A i \in 1 .. Len(s) : t[p + i] = s[i]

LEMMA LiesConcat ==
  ASSUME NEW S, NEW t, NEW p \in Nat, NEW a \in Seq(S), NEW b \in Seq(S), Len(t) \in Nat
  PROVE  /\ Len(a \o b) = Len(a) + Len(b) /\ a \o b \in Seq(S)
         /\ Lies(t, p, a \o b) <=> Lies(t, p, a) /\ Lies(t, p + Len(a), b)
<1> DEFINE m == Len(a)
           n == Len(b)
           c == a \o b
<1>1. m \in Nat /\ n \in Nat /\ c \in Seq(S) /\ Len(c) = m + n
      /\ \A i \in 1 .. m + n : c[i] = IF i <= m THEN a[i] ELSE b[i - m]
  BY ConcatProperties, LenProperties
<1>. HIDE DEF m, n, c
<1>2. \A i \in 1 .. m : i \in 1 .. m + n /\ c[i] = a[i]
  BY <1>1
<1>3. \A i \in 1 .. n : m + i \in 1 .. m + n /\ c[m + i] = b[i]
  <2> TAKE i \in 1 .. n
  <2>1. m + i \in 1 .. m + n /\ ~(m + i <= m) /\ (m + i) - m = i
    BY <1>1
  <2>. QED
    BY <1>1, <2>1
<1>4. ASSUME Lies(t, p, c) PROVE Lies(t, p, a) /\ Lies(t, p + m, b)
  <2>1. \A i \in 1 .. m : t[p + i] = a[i]
    BY <1>1, <1>2, <1>4 DEF Lies
  <2>2. \A i \in 1 .. n : t[(p + m) + i] = b[i]
    <3> TAKE i \in 1 .. n
    <3>1. (p + m) + i = p + (m + i)
      BY <1>1
    <3>2. t[p + (m + i)] = c[m + i]
      BY <1>1, <1>3, <1>4 DEF Lies
    <3>. QED
      BY <1>3, <3>1, <3>2
  <2>3. p + m <= Len(t) /\ (p + m) + n <= Len(t)
    BY <1>1, <1>4 DEF Lies
  <2>. QED
    BY <2>1, <2>2, <2>3 DEF Lies, m, n
<1>5. ASSUME Lies(t, p, a), Lies(t, p + m, b) PROVE Lies(t, p, c)
  <2>1. ASSUME NEW i \in 1 .. m + n PROVE t[p + i] = c[i]
    <3>1. CASE i <= m
      <4>1. i \in 1 .. m
        BY <1>1, <3>1
      <4>. QED
        BY <1>2, <1>5, <4>1 DEF Lies, m
    <3>2. CASE ~(i <= m)
      <4>1. i - m \in 1 .. n /\ (p + m) + (i - m) = p + i
        BY <1>1, <3>2
      <4>2. t[(p + m) + (i - m)] = b[i - m]
        BY <1>5, <4>1 DEF Lies, n
      <4>3. c[i] = b[i - m]
        BY <1>1, <3>2
      <4>. QED
        BY <4>1, <4>2, <4>3
    <3>. QED
      BY <3>1, <3>2
  <2>2. p + (m + n) <= Len(t)
    BY <1>1, <1>5 DEF Lies, n
  <2>. QED
    BY <1>1, <2>1, <2>2 DEF Lies
<1>. QED
  BY <1>1, <1>4, <1>5 DEF m, n, c

LEMMA LiesOne ==
  ASSUME NEW t \in Text, NEW p \in Nat, NEW x, Lies(t, p, <<x>>)
  PROVE  p < Len(t) /\ At(t, p) = x
<1>1. Len(<<x>>) = 1 /\ 1 \in 1 .. 1 /\ <<x>>[1] = x
  OBVIOUS
<1>. QED
  BY <1>1 DEF Lies, At, Text

\* What lies in the text is read as it is, and is a run of whatever it is made of.
LEMMA LiesPiece ==
  ASSUME NEW t \in Text, NEW p \in Nat, NEW A, NEW s \in Seq(A), Lies(t, p, s)
  PROVE  /\ p \in 0 .. Len(t) /\ p + Len(s) \in p .. Len(t)
         /\ Run(t, p, p + Len(s), A)
         /\ Piece(t, [from |-> p, to |-> p + Len(s)]) = s
<1>1. Len(t) \in Nat /\ Len(s) \in Nat /\ p + Len(s) <= Len(t) /\ DOMAIN s = 1 .. Len(s)
  BY LenProperties DEF Lies, Text
<1>2. Run(t, p, p + Len(s), A)
  <2> SUFFICES ASSUME NEW q \in p .. (p + Len(s)) - 1 PROVE At(t, q) \in A
    BY DEF Run
  <2>1. q + 1 - p \in 1 .. Len(s) /\ p + (q + 1 - p) = q + 1
    BY <1>1
  <2>2. t[p + (q + 1 - p)] = s[q + 1 - p] /\ s[q + 1 - p] \in A
    BY <2>1, ElementOfSeq DEF Lies
  <2>. QED
    BY <2>1, <2>2 DEF At
<1>3. Piece(t, [from |-> p, to |-> p + Len(s)]) = SubSeq(t, p + 1, p + Len(s))
  BY DEF Piece
<1> DEFINE u == SubSeq(t, p + 1, p + Len(s))
<1>4. u = [i \in 1 .. Len(s) |-> t[p + i]]
  <2>1. p + Len(s) - (p + 1) + 1 = Len(s)
    BY <1>1
  <2>2. u = [i \in 1 .. ((p + Len(s)) - (p + 1) + 1) |-> t[i + (p + 1) - 1]]
    OBVIOUS
  <2>3. \A i \in 1 .. Len(s) : i + (p + 1) - 1 = p + i
    BY <1>1
  <2>. QED
    BY <2>1, <2>2, <2>3
<1>5. s = [i \in 1 .. Len(s) |-> s[i]]
  BY <1>1
<1>6. u = s
  <2>1. \A i \in 1 .. Len(s) : t[p + i] = s[i]
    BY DEF Lies
  <2>. HIDE DEF u
  <2>. QED
    BY <1>4, <1>5, <2>1
<1>7. p \in 0 .. Len(t) /\ p + Len(s) \in p .. Len(t)
  BY <1>1
<1>. QED
  BY <1>2, <1>3, <1>6, <1>7, Zenon

\* What lies in a text lies in a longer one, and in a cut one that is long enough.
LEMMA LiesLonger ==
  ASSUME NEW S, NEW t \in Seq(S), NEW u \in Seq(S), NEW p \in Nat, NEW s, Len(s) \in Nat, Lies(t, p, s)
  PROVE  Lies(t \o u, p, s)
<1>1. /\ Len(t) \in Nat /\ Len(u) \in Nat /\ Len(t \o u) = Len(t) + Len(u)
      /\ \A i \in 1 .. Len(t) + Len(u) : (t \o u)[i] = IF i <= Len(t) THEN t[i] ELSE u[i - Len(t)]
  BY ConcatProperties, LenProperties
<1>2. p + Len(s) <= Len(t) + Len(u)
  BY <1>1 DEF Lies
<1>3. \A i \in 1 .. Len(s) : (t \o u)[p + i] = s[i]
  <2> TAKE i \in 1 .. Len(s)
  <2>1. p + i \in 1 .. Len(t) + Len(u) /\ p + i <= Len(t)
    BY <1>1 DEF Lies
  <2>. QED
    BY <1>1, <2>1 DEF Lies
<1>. QED
  BY <1>1, <1>2, <1>3 DEF Lies

\* How long the first n of some sequences are when put together.
Upto(s, n) == Len(FlattenSeq(SubSeq(s, 1, n)))

\* In the sequences put together each lies where those before it end.
Laid(S, s, n) == /\ Upto(s, n - 1) \in Nat /\ Len(s[n]) \in Nat
                 /\ Upto(s, n) = Upto(s, n - 1) + Len(s[n])
                 /\ Lies(FlattenSeq(s), Upto(s, n - 1), s[n])

\* The sequences that come of putting together the first of them.
Built(S, s, d, g) == /\ g \in [0 .. d -> Seq(S)]
                     /\ g[0] = <<>>
                     /\ \A n \in 1 .. d : g[n] = g[n - 1] \o s[n]

LEMMA FlattenBuilt ==
  ASSUME NEW S, NEW s \in Seq(Seq(S)), NEW d \in Nat, d = Len(s)
  PROVE  \E g : Built(S, s, d, g) /\ FlattenSeq(s) = g[d]
<1>1. PICK g \in [0 .. d -> Seq(S)] :
         /\ g[0] = <<>>
         /\ \A n \in 1 .. d : g[n] = g[n - 1] \o s[n]
         /\ FlattenSeq(s) = g[d]
  BY FlattenIs
<1>. QED
  BY <1>1, Zenon DEF Built

LEMMA FlattenLaid ==
  ASSUME NEW S, NEW s \in Seq(Seq(S)), NEW d \in Nat, d = Len(s)
  PROVE  /\ FlattenSeq(s) \in Seq(S) /\ Len(FlattenSeq(s)) \in Nat
         /\ Upto(s, 0) = 0 /\ Upto(s, d) = Len(FlattenSeq(s))
         /\ \A n \in 1 .. d : Laid(S, s, n)
<1>1. PICK g \in [0 .. d -> Seq(S)] :
         /\ g[0] = <<>>
         /\ \A n \in 1 .. d : g[n] = g[n - 1] \o s[n]
         /\ FlattenSeq(s) = g[d]
  BY FlattenIs
<1>2. \A n \in 0 .. d : g[n] \in Seq(S) /\ Len(g[n]) \in Nat
  <2> TAKE n \in 0 .. d
  <2>1. g[n] \in Seq(S)
    BY <1>1
  <2>. QED
    BY <2>1, LenProperties
<1>3. \A n \in 1 .. d : s[n] \in Seq(S) /\ Len(s[n]) \in Nat
  <2> TAKE n \in 1 .. d
  <2>1. s[n] \in Seq(S)
    BY ElementOfSeq
  <2>. QED
    BY <2>1, LenProperties
<1>4. ASSUME NEW n \in 0 .. d PROVE FlattenSeq(SubSeq(s, 1, n)) = g[n]
  <2> DEFINE r == SubSeq(s, 1, n)
  <2>1. r \in Seq(Seq(S)) /\ Len(r) = n /\ \A i \in 1 .. n : r[i] = s[i]
    OBVIOUS
  <2>. HIDE DEF r
  <2>2. n \in Nat /\ n = Len(r) /\ r \in Seq(Seq(S))
    BY <2>1
  <2>0. PICK h : Built(S, r, n, h) /\ FlattenSeq(r) = h[n]
    BY <2>2, FlattenBuilt, Zenon
  <2>3. /\ h[0] = <<>>
        /\ \A k \in 1 .. n : h[k] = h[k - 1] \o r[k]
        /\ FlattenSeq(r) = h[n]
    BY <2>0, Zenon DEF Built
  <2> DEFINE T == {k \in 0 .. n : h[k] = g[k]}
  <2>4. 0 \in T
    <3>1. 0 \in 0 .. n
      BY <2>2
    <3>. QED
      BY <1>1, <2>3, <3>1, Zenon
  <2>5. ASSUME NEW k \in 1 .. n, k - 1 \in T PROVE k \in T
    <3>1. k \in 0 .. n /\ k \in 1 .. d
      OBVIOUS
    <3>2. h[k] = h[k - 1] \o r[k] /\ g[k] = g[k - 1] \o s[k] /\ r[k] = s[k] /\ h[k - 1] = g[k - 1]
      BY <1>1, <2>1, <2>3, <2>5, <3>1, Zenon
    <3>. QED
      BY <3>1, <3>2, Zenon
  <2>6. n \in T
    <3>1. \A k \in 1 .. n : k - 1 \in T => k \in T
      BY <2>5
    <3>2. n \in 0 .. n
      BY <2>2
    <3>. HIDE DEF T
    <3>3. \A k \in 0 .. n : k \in T
      BY <2>2, <2>4, <3>1, UpTo
    <3>. QED
      BY <3>2, <3>3
  <2>. QED
    BY <2>3, <2>6, Zenon DEF r
<1>5. \A n \in 0 .. d : Upto(s, n) = Len(g[n])
  BY <1>4, Zenon DEF Upto
<1>6. ASSUME NEW n \in 1 .. d PROVE Laid(S, s, n)
  <2>1. n - 1 \in 0 .. d /\ n \in 0 .. d
    OBVIOUS
  <2>2. g[n] = g[n - 1] \o s[n] /\ g[n - 1] \in Seq(S) /\ s[n] \in Seq(S)
    BY <1>1, <1>2, <1>3, <2>1
  <2> DEFINE p == Len(g[n - 1])
  <2>3. p \in Nat /\ Len(g[n]) = p + Len(s[n]) /\ Len(g[n]) \in Nat
    BY <1>2, <2>1, <2>2, ConcatProperties
  <2>. HIDE DEF p
  <2>4. Lies(g[n], p, s[n])
    <3>1. Lies(g[n], 0, g[n])
      BY <2>3 DEF Lies
    <3>2. Lies(g[n - 1] \o s[n], 0, g[n - 1] \o s[n])
      BY <2>2, <3>1
    <3>3. Len(g[n]) \in Nat /\ 0 \in Nat /\ 0 + p = p
      BY <2>3
    <3>4. Len(g[n - 1] \o s[n]) \in Nat
      BY <2>2, <3>3
    <3>5. Lies(g[n - 1] \o s[n], 0 + Len(g[n - 1]), s[n])
      BY <2>2, <3>2, <3>3, <3>4, LiesConcat
    <3>. QED
      BY <2>2, <3>3, <3>5, Zenon DEF p
  <2> DEFINE T == {m \in 0 .. d : n <= m => Lies(g[m], p, s[n])}
  <2>5. 0 \in T
    OBVIOUS
  <2>6. ASSUME NEW m \in 1 .. d, m - 1 \in T PROVE m \in T
    <3>1. m \in 0 .. d /\ m - 1 \in 0 .. d
      OBVIOUS
    <3>2. CASE m < n
      BY <3>1, <3>2
    <3>3. CASE m = n
      BY <2>4, <3>1, <3>3
    <3>4. CASE n < m
      <4>1. Lies(g[m - 1], p, s[n])
        BY <2>6, <3>4
      <4>2. g[m] = g[m - 1] \o s[m] /\ g[m - 1] \in Seq(S) /\ s[m] \in Seq(S) /\ Len(s[n]) \in Nat
        BY <1>1, <1>2, <1>3, <3>1
      <4>3. Lies(g[m - 1] \o s[m], p, s[n])
        BY <2>3, <4>1, <4>2, LiesLonger
      <4>. QED
        BY <3>1, <4>2, <4>3
    <3>. QED
      BY <3>2, <3>3, <3>4
  <2>7. Lies(g[d], p, s[n])
    <3>1. \A m \in 1 .. d : m - 1 \in T => m \in T
      BY <2>6
    <3>2. d \in 0 .. d
      OBVIOUS
    <3>3. d \in T
      <4>. HIDE DEF T
      <4>1. \A m \in 0 .. d : m \in T
        BY <2>5, <3>1, UpTo
      <4>. QED
        BY <3>2, <4>1
    <3>. QED
      BY <3>3
  <2>8. Upto(s, n - 1) = p /\ Upto(s, n) = p + Len(s[n])
    BY <1>5, <2>1, <2>3 DEF p
  <2>. QED
    BY <1>1, <1>3, <2>3, <2>7, <2>8, Zenon DEF Laid
<1>7. Upto(s, 0) = 0 /\ Upto(s, d) = Len(FlattenSeq(s)) /\ FlattenSeq(s) \in Seq(S) /\ Len(FlattenSeq(s)) \in Nat
  <2>1. 0 \in 0 .. d /\ d \in 0 .. d /\ Len(<<>>) = 0
    OBVIOUS
  <2>. QED
    BY <1>1, <1>2, <1>5, <2>1, Zenon
<1>. QED
  BY <1>6, <1>7

--------------------------------------------------------------------------------
(* A line of the file *)

\* Where the columns of a line begin, counted from its beginning.
EndAt(l) == Len(l.start) + 1
PermAt(l) == EndAt(l) + Len(l.end) + 1
OffsetAt(l) == PermAt(l) + PermSize + 1
DevAt(l) == OffsetAt(l) + Len(l.offset) + 1
InodeAt(l) == DevAt(l) + Len(l.dev) + 1
PathAt(l) == InodeAt(l) + Len(l.inode) + 1
FeedAt(l) == PathAt(l) + Len(l.path)

\* The columns of the line l, and what is between them, lie in t from p on.
ColumnsLie(t, p, l) ==
    /\ Lies(t, p, l.start) /\ Lies(t, p + Len(l.start), <<Dash>>)
    /\ Lies(t, p + EndAt(l), l.end) /\ Lies(t, p + (EndAt(l) + Len(l.end)), <<Blank>>)
    /\ Lies(t, p + PermAt(l), l.perm) /\ Lies(t, p + (PermAt(l) + PermSize), <<Blank>>)
    /\ Lies(t, p + OffsetAt(l), l.offset) /\ Lies(t, p + (OffsetAt(l) + Len(l.offset)), <<Blank>>)
    /\ Lies(t, p + DevAt(l), l.dev) /\ Lies(t, p + (DevAt(l) + Len(l.dev)), <<Blank>>)
    /\ Lies(t, p + InodeAt(l), l.inode) /\ Lies(t, p + (InodeAt(l) + Len(l.inode)), <<Blank>>)
    /\ Lies(t, p + PathAt(l), l.path) /\ Lies(t, p + FeedAt(l), <<NewLine>>)

LEMMA SymbolsDiffer ==
  /\ Blank \notin Digits /\ NewLine \notin Digits
  /\ Blank \notin Word /\ NewLine \notin Word /\ Blank \in Line /\ NewLine \notin Line
  /\ Digits \subseteq Word /\ Word \subseteq Line /\ Line \subseteq Symbols
  /\ Blank # NewLine
  /\ Symbols = Line \cup {NewLine}
BY SeparatorsAreNeither DEF Word, Line, Symbols, Blank, NewLine

\* The dash of an address range is a letter.
LEMMA DashDiffers ==
  Dash \notin Digits /\ Dash \in Word /\ Dash # Blank /\ Dash # NewLine
<1>1. Dash \in Letters /\ Dash \notin Digits
  BY FilesAreMappings, Zenon
<1>2. Dash # Blank /\ Dash # NewLine
  BY <1>1, SeparatorsAreNeither, Zenon
<1>3. Dash \in Word
  BY <1>1, <1>2, Zenon DEF Word, Symbols
<1>. QED
  BY <1>1, <1>2, <1>3

LEMMA ColumnsAre ==
  ASSUME NEW l, IsMapping(l)
  PROVE  /\ l.start \in Seq(Digits) /\ Len(l.start) \in Nat \ {0}
         /\ l.end \in Seq(Digits) /\ Len(l.end) \in Nat \ {0}
         /\ l.perm \in Seq(Word) /\ Len(l.perm) = PermSize
         /\ l.offset \in Seq(Word) /\ Len(l.offset) \in Nat \ {0}
         /\ l.dev \in Seq(Word) /\ Len(l.dev) \in Nat \ {0}
         /\ l.inode \in Seq(Word) /\ Len(l.inode) \in Nat \ {0}
         /\ l.path \in Seq(Line) /\ Len(l.path) \in Nat /\ (l.path # <<>> => l.path[1] # Blank)
<1>1. \A S : \A w \in Seq(S) \ {<<>>} : Len(w) \in Nat \ {0}
  BY EmptySeq
<1>2. /\ l.start \in Seq(Digits) \ {<<>>} /\ l.end \in Seq(Digits) \ {<<>>}
      /\ l.perm \in Seq(Word) /\ Len(l.perm) = PermSize
      /\ l.offset \in Seq(Word) \ {<<>>} /\ l.dev \in Seq(Word) \ {<<>>}
      /\ l.inode \in Seq(Word) \ {<<>>}
      /\ l.path \in Seq(Line) /\ (l.path # <<>> => l.path[1] # Blank)
  BY DEF IsMapping, IsWord, IsNumeral, IsPath
<1>3. Len(l.path) \in Nat
  BY <1>2, LenProperties
<1>. QED
  BY <1>1, <1>2, <1>3, Zenon

LEMMA ColumnsAreText ==
  ASSUME NEW l, IsMapping(l)
  PROVE  /\ l.start \in Text /\ l.end \in Text /\ l.perm \in Text /\ l.offset \in Text
         /\ l.dev \in Text /\ l.inode \in Text /\ l.path \in Text
         /\ <<Dash>> \in Text /\ <<Blank>> \in Text /\ <<NewLine>> \in Text
<1>1. Digits \subseteq Symbols /\ Word \subseteq Symbols /\ Line \subseteq Symbols
  BY SymbolsDiffer, DashDiffers
<1>2. Dash \in Symbols /\ Blank \in Symbols /\ NewLine \in Symbols
  BY SymbolsDiffer, DashDiffers
<1>3. <<Dash>> \in Text /\ <<Blank>> \in Text /\ <<NewLine>> \in Text
  BY <1>2 DEF Text
<1>4. Seq(Digits) \subseteq Text /\ Seq(Word) \subseteq Text /\ Seq(Line) \subseteq Text
  BY <1>1, SeqMonotonic DEF Text
<1>. QED
  BY <1>3, <1>4, ColumnsAre

LEMMA LineLies ==
  ASSUME NEW l, IsMapping(l)
  PROVE  /\ LineText(l) \in Text /\ Len(LineText(l)) = FeedAt(l) + 1
         /\ \A t \in Text : \A p \in Nat : Lies(t, p, LineText(l)) <=> ColumnsLie(t, p, l)
<1> DEFINE x1 == l.start
           x2 == x1 \o <<Dash>>
           x3 == x2 \o l.end
           x4 == x3 \o <<Blank>>
           x5 == x4 \o l.perm
           x6 == x5 \o <<Blank>>
           x7 == x6 \o l.offset
           x8 == x7 \o <<Blank>>
           x9 == x8 \o l.dev
           x10 == x9 \o <<Blank>>
           x11 == x10 \o l.inode
           x12 == x11 \o <<Blank>>
           x13 == x12 \o l.path
           x14 == x13 \o <<NewLine>>
<1>1. LineText(l) = x14
  BY Zenon DEF LineText
<1>2. /\ l.start \in Text /\ l.end \in Text /\ l.perm \in Text /\ l.offset \in Text
      /\ l.dev \in Text /\ l.inode \in Text /\ l.path \in Text
      /\ <<Dash>> \in Text /\ <<Blank>> \in Text /\ <<NewLine>> \in Text
  BY ColumnsAreText
<1>3. /\ Len(l.start) \in Nat /\ Len(l.end) \in Nat /\ Len(l.perm) = PermSize /\ Len(l.offset) \in Nat
      /\ Len(l.dev) \in Nat /\ Len(l.inode) \in Nat /\ Len(l.path) \in Nat
      /\ Len(<<Dash>>) = 1 /\ Len(<<Blank>>) = 1 /\ Len(<<NewLine>>) = 1 /\ PermSize \in Nat
  BY ColumnsAre DEF PermSize
<1>4. /\ EndAt(l) = Len(l.start) + 1 /\ PermAt(l) = (EndAt(l) + Len(l.end)) + 1
      /\ OffsetAt(l) = (PermAt(l) + PermSize) + 1 /\ DevAt(l) = (OffsetAt(l) + Len(l.offset)) + 1
      /\ InodeAt(l) = (DevAt(l) + Len(l.dev)) + 1 /\ PathAt(l) = (InodeAt(l) + Len(l.inode)) + 1
      /\ FeedAt(l) = PathAt(l) + Len(l.path)
  BY Zenon DEF EndAt, PermAt, OffsetAt, DevAt, InodeAt, PathAt, FeedAt
<1>5. /\ EndAt(l) \in Nat /\ PermAt(l) \in Nat /\ OffsetAt(l) \in Nat /\ DevAt(l) \in Nat
      /\ InodeAt(l) \in Nat /\ PathAt(l) \in Nat /\ FeedAt(l) \in Nat
  <2>1. 1 \in Nat /\ (\A i, j \in Nat : i + j \in Nat) /\ \A i, j \in Nat : (i + j) + 1 \in Nat
    OBVIOUS
  <2>2. EndAt(l) \in Nat
    BY <1>3, <1>4, <2>1, Zenon
  <2>3. PermAt(l) \in Nat
    BY <1>3, <1>4, <2>1, <2>2, Zenon
  <2>4. OffsetAt(l) \in Nat
    BY <1>3, <1>4, <2>1, <2>3, Zenon
  <2>5. DevAt(l) \in Nat
    BY <1>3, <1>4, <2>1, <2>4, Zenon
  <2>6. InodeAt(l) \in Nat
    BY <1>3, <1>4, <2>1, <2>5, Zenon
  <2>7. PathAt(l) \in Nat
    BY <1>3, <1>4, <2>1, <2>6, Zenon
  <2>8. FeedAt(l) \in Nat
    <3>1. FeedAt(l) = PathAt(l) + Len(l.path) /\ Len(l.path) \in Nat
      BY <1>3, <1>4
    <3>. QED
      BY <2>1, <2>7, <3>1, Zenon
  <2>. QED
    BY <2>2, <2>3, <2>4, <2>5, <2>6, <2>7, <2>8
<1> DEFINE Cut(x, n, y, b) == /\ y \in Text /\ Len(y) = n
                              /\ \A t \in Text : \A p \in Nat :
                                   Lies(t, p, y) <=> Lies(t, p, x) /\ Lies(t, p + Len(x), b)
<1>6. ASSUME NEW x \in Text, NEW b \in Text, NEW n, n = Len(x) + Len(b) PROVE Cut(x, n, x \o b, b)
  <2>1. \A t \in Text : Len(t) \in Nat
    BY LenProperties DEF Text
  <2>2. x \o b \in Text /\ Len(x \o b) = n
    BY <1>6, ConcatProperties DEF Text
  <2>3. \A t \in Text : \A p \in Nat : Lies(t, p, x \o b) <=> Lies(t, p, x) /\ Lies(t, p + Len(x), b)
    BY <2>1, LiesConcat DEF Text
  <2>. QED
    BY <2>2, <2>3
<1>. HIDE DEF Cut, x1, x2, x3, x4, x5, x6, x7, x8, x9, x10, x11, x12, x13, x14
<1>7. x1 = l.start
  BY DEF x1
<1>8. x2 \in Text /\ Len(x2) = EndAt(l)
      /\ \A t \in Text : \A p \in Nat : Lies(t, p, x2) <=> Lies(t, p, x1) /\ Lies(t, p + Len(l.start), <<Dash>>)
  <2>1. x1 \in Text /\ <<Dash>> \in Text /\ Len(x1) = Len(l.start) /\ EndAt(l) = Len(x1) + Len(<<Dash>>)
    BY <1>2, <1>3, <1>4, <1>5, <1>7
  <2>2. Cut(x1, EndAt(l), x2, <<Dash>>)
    BY <1>6, <2>1, Zenon DEF x2
  <2>. QED
    BY <2>1, <2>2, Zenon DEF Cut
<1>9. x3 \in Text /\ Len(x3) = EndAt(l) + Len(l.end)
      /\ \A t \in Text : \A p \in Nat : Lies(t, p, x3) <=> Lies(t, p, x2) /\ Lies(t, p + (EndAt(l)), l.end)
  <2>1. x2 \in Text /\ l.end \in Text /\ Len(x2) = EndAt(l) /\ EndAt(l) + Len(l.end) = Len(x2) + Len(l.end)
    BY <1>2, <1>3, <1>4, <1>5, <1>8
  <2>2. Cut(x2, EndAt(l) + Len(l.end), x3, l.end)
    BY <1>6, <2>1, Zenon DEF x3
  <2>. QED
    BY <2>1, <2>2, Zenon DEF Cut
<1>10. x4 \in Text /\ Len(x4) = PermAt(l)
      /\ \A t \in Text : \A p \in Nat : Lies(t, p, x4) <=> Lies(t, p, x3) /\ Lies(t, p + (EndAt(l) + Len(l.end)), <<Blank>>)
  <2>1. x3 \in Text /\ <<Blank>> \in Text /\ Len(x3) = EndAt(l) + Len(l.end) /\ PermAt(l) = Len(x3) + Len(<<Blank>>)
    BY <1>2, <1>3, <1>4, <1>5, <1>9
  <2>2. Cut(x3, PermAt(l), x4, <<Blank>>)
    BY <1>6, <2>1, Zenon DEF x4
  <2>. QED
    BY <2>1, <2>2, Zenon DEF Cut
<1>11. x5 \in Text /\ Len(x5) = PermAt(l) + PermSize
      /\ \A t \in Text : \A p \in Nat : Lies(t, p, x5) <=> Lies(t, p, x4) /\ Lies(t, p + (PermAt(l)), l.perm)
  <2>1. x4 \in Text /\ l.perm \in Text /\ Len(x4) = PermAt(l) /\ PermAt(l) + PermSize = Len(x4) + Len(l.perm)
    BY <1>2, <1>3, <1>4, <1>5, <1>10
  <2>2. Cut(x4, PermAt(l) + PermSize, x5, l.perm)
    BY <1>6, <2>1, Zenon DEF x5
  <2>. QED
    BY <2>1, <2>2, Zenon DEF Cut
<1>12. x6 \in Text /\ Len(x6) = OffsetAt(l)
      /\ \A t \in Text : \A p \in Nat : Lies(t, p, x6) <=> Lies(t, p, x5) /\ Lies(t, p + (PermAt(l) + PermSize), <<Blank>>)
  <2>1. x5 \in Text /\ <<Blank>> \in Text /\ Len(x5) = PermAt(l) + PermSize /\ OffsetAt(l) = Len(x5) + Len(<<Blank>>)
    BY <1>2, <1>3, <1>4, <1>5, <1>11
  <2>2. Cut(x5, OffsetAt(l), x6, <<Blank>>)
    BY <1>6, <2>1, Zenon DEF x6
  <2>. QED
    BY <2>1, <2>2, Zenon DEF Cut
<1>13. x7 \in Text /\ Len(x7) = OffsetAt(l) + Len(l.offset)
      /\ \A t \in Text : \A p \in Nat : Lies(t, p, x7) <=> Lies(t, p, x6) /\ Lies(t, p + (OffsetAt(l)), l.offset)
  <2>1. x6 \in Text /\ l.offset \in Text /\ Len(x6) = OffsetAt(l) /\ OffsetAt(l) + Len(l.offset) = Len(x6) + Len(l.offset)
    BY <1>2, <1>3, <1>4, <1>5, <1>12
  <2>2. Cut(x6, OffsetAt(l) + Len(l.offset), x7, l.offset)
    BY <1>6, <2>1, Zenon DEF x7
  <2>. QED
    BY <2>1, <2>2, Zenon DEF Cut
<1>14. x8 \in Text /\ Len(x8) = DevAt(l)
      /\ \A t \in Text : \A p \in Nat : Lies(t, p, x8) <=> Lies(t, p, x7) /\ Lies(t, p + (OffsetAt(l) + Len(l.offset)), <<Blank>>)
  <2>1. x7 \in Text /\ <<Blank>> \in Text /\ Len(x7) = OffsetAt(l) + Len(l.offset) /\ DevAt(l) = Len(x7) + Len(<<Blank>>)
    BY <1>2, <1>3, <1>4, <1>5, <1>13
  <2>2. Cut(x7, DevAt(l), x8, <<Blank>>)
    BY <1>6, <2>1, Zenon DEF x8
  <2>. QED
    BY <2>1, <2>2, Zenon DEF Cut
<1>15. x9 \in Text /\ Len(x9) = DevAt(l) + Len(l.dev)
      /\ \A t \in Text : \A p \in Nat : Lies(t, p, x9) <=> Lies(t, p, x8) /\ Lies(t, p + (DevAt(l)), l.dev)
  <2>1. x8 \in Text /\ l.dev \in Text /\ Len(x8) = DevAt(l) /\ DevAt(l) + Len(l.dev) = Len(x8) + Len(l.dev)
    BY <1>2, <1>3, <1>4, <1>5, <1>14
  <2>2. Cut(x8, DevAt(l) + Len(l.dev), x9, l.dev)
    BY <1>6, <2>1, Zenon DEF x9
  <2>. QED
    BY <2>1, <2>2, Zenon DEF Cut
<1>16. x10 \in Text /\ Len(x10) = InodeAt(l)
      /\ \A t \in Text : \A p \in Nat : Lies(t, p, x10) <=> Lies(t, p, x9) /\ Lies(t, p + (DevAt(l) + Len(l.dev)), <<Blank>>)
  <2>1. x9 \in Text /\ <<Blank>> \in Text /\ Len(x9) = DevAt(l) + Len(l.dev) /\ InodeAt(l) = Len(x9) + Len(<<Blank>>)
    BY <1>2, <1>3, <1>4, <1>5, <1>15
  <2>2. Cut(x9, InodeAt(l), x10, <<Blank>>)
    BY <1>6, <2>1, Zenon DEF x10
  <2>. QED
    BY <2>1, <2>2, Zenon DEF Cut
<1>17. x11 \in Text /\ Len(x11) = InodeAt(l) + Len(l.inode)
      /\ \A t \in Text : \A p \in Nat : Lies(t, p, x11) <=> Lies(t, p, x10) /\ Lies(t, p + (InodeAt(l)), l.inode)
  <2>1. x10 \in Text /\ l.inode \in Text /\ Len(x10) = InodeAt(l) /\ InodeAt(l) + Len(l.inode) = Len(x10) + Len(l.inode)
    BY <1>2, <1>3, <1>4, <1>5, <1>16
  <2>2. Cut(x10, InodeAt(l) + Len(l.inode), x11, l.inode)
    BY <1>6, <2>1, Zenon DEF x11
  <2>. QED
    BY <2>1, <2>2, Zenon DEF Cut
<1>18. x12 \in Text /\ Len(x12) = PathAt(l)
      /\ \A t \in Text : \A p \in Nat : Lies(t, p, x12) <=> Lies(t, p, x11) /\ Lies(t, p + (InodeAt(l) + Len(l.inode)), <<Blank>>)
  <2>1. x11 \in Text /\ <<Blank>> \in Text /\ Len(x11) = InodeAt(l) + Len(l.inode) /\ PathAt(l) = Len(x11) + Len(<<Blank>>)
    BY <1>2, <1>3, <1>4, <1>5, <1>17
  <2>2. Cut(x11, PathAt(l), x12, <<Blank>>)
    BY <1>6, <2>1, Zenon DEF x12
  <2>. QED
    BY <2>1, <2>2, Zenon DEF Cut
<1>19. x13 \in Text /\ Len(x13) = FeedAt(l)
      /\ \A t \in Text : \A p \in Nat : Lies(t, p, x13) <=> Lies(t, p, x12) /\ Lies(t, p + (PathAt(l)), l.path)
  <2>1. x12 \in Text /\ l.path \in Text /\ Len(x12) = PathAt(l) /\ FeedAt(l) = Len(x12) + Len(l.path)
    BY <1>2, <1>3, <1>4, <1>5, <1>18
  <2>2. Cut(x12, FeedAt(l), x13, l.path)
    BY <1>6, <2>1, Zenon DEF x13
  <2>. QED
    BY <2>1, <2>2, Zenon DEF Cut
<1>20. x14 \in Text /\ Len(x14) = FeedAt(l) + 1
      /\ \A t \in Text : \A p \in Nat : Lies(t, p, x14) <=> Lies(t, p, x13) /\ Lies(t, p + (FeedAt(l)), <<NewLine>>)
  <2>1. x13 \in Text /\ <<NewLine>> \in Text /\ Len(x13) = FeedAt(l) /\ FeedAt(l) + 1 = Len(x13) + Len(<<NewLine>>)
    BY <1>2, <1>3, <1>4, <1>5, <1>19
  <2>2. Cut(x13, FeedAt(l) + 1, x14, <<NewLine>>)
    BY <1>6, <2>1, Zenon DEF x14
  <2>. QED
    BY <2>1, <2>2, Zenon DEF Cut
<1>21. ASSUME NEW t \in Text, NEW p \in Nat PROVE Lies(t, p, x14) <=> ColumnsLie(t, p, l)
  BY <1>7, <1>8, <1>9, <1>10, <1>11, <1>12, <1>13, <1>14, <1>15, <1>16, <1>17, <1>18, <1>19, <1>20, Zenon DEF ColumnsLie
<1>. QED
  BY <1>1, <1>20, <1>21

--------------------------------------------------------------------------------
(* Parsing a line *)

\* A word begins with something that is not a blank.
LEMMA WordBegins ==
  ASSUME NEW t \in Text, NEW p \in Nat, NEW A, NEW w \in Seq(A), Len(w) \in Nat \ {0}, Blank \notin A,
         Lies(t, p, w)
  PROVE  RunEnd(t, p, {Blank}) /\ p < Len(t)
<1>1. Len(t) \in Nat /\ p + Len(w) <= Len(t) /\ t[p + 1] = w[1]
  BY LenProperties DEF Lies, Text
<1>2. w[1] \in A
  BY ElementOfSeq
<1>. QED
  BY <1>1, <1>2 DEF RunEnd, At

\* The token that a column is, behind at most a blank.
LEMMA TokenAt ==
  ASSUME NEW t \in Text, NEW p \in Nat, NEW f \in Nat, p <= f, SkipWhitespace(t, p) = f,
         NEW A, NEW w \in Seq(A), Lies(t, f, w), NEW x, x \notin A, Lies(t, f + Len(w), <<x>>)
  PROVE  NextToken(t, p, A) = [from |-> f, to |-> f + Len(w)]
<1>1. Len(w) \in Nat /\ Len(t) \in Nat
  BY LenProperties DEF Text
<1>2. f \in 0 .. Len(t) /\ f + Len(w) \in f .. Len(t) /\ Run(t, f, f + Len(w), A)
  BY LiesPiece
<1>3. f + Len(w) \in Nat
  BY <1>1
<1>4. At(t, f + Len(w)) = x
  BY <1>3, LiesOne
<1>5. RunEnd(t, f + Len(w), A)
  BY <1>4 DEF RunEnd
<1>6. p \in 0 .. Len(t) /\ f \in p .. Len(t)
  BY <1>1, <1>2
<1>. QED
  BY <1>2, <1>5, <1>6, TokenIs

\* A word that the cursor stands on, and one with a blank before it.
LEMMA FirstWord ==
  ASSUME NEW t \in Text, NEW p \in Nat, NEW A, NEW w \in Seq(A), Len(w) \in Nat \ {0}, Blank \notin A,
         Lies(t, p, w), NEW x, x \notin A, Lies(t, p + Len(w), <<x>>)
  PROVE  NextToken(t, p, A) = [from |-> p, to |-> p + Len(w)]
<1>1. RunEnd(t, p, {Blank}) /\ p < Len(t) /\ Len(t) \in Nat
  BY WordBegins, LenProperties DEF Text
<1>2. SkipWhitespace(t, p) = p
  <2>1. p \in 0 .. Len(t)
    BY <1>1
  <2>. QED
    BY <1>1, <2>1, NoBlank, Zenon
<1>3. p <= p
  OBVIOUS
<1>. QED
  BY <1>2, <1>3, TokenAt

LEMMA BehindBlank ==
  ASSUME NEW t \in Text, NEW p \in Nat, Lies(t, p, <<Blank>>), RunEnd(t, p + 1, {Blank})
  PROVE  SkipWhitespace(t, p) = p + 1 /\ p + 1 \in Nat /\ p <= p + 1
<1>1. p < Len(t) /\ At(t, p) = Blank
  BY LiesOne
<1>2. SkipWhitespace(t, p) = p + 1
  BY <1>1, OneBlank, Zenon
<1>. QED
  BY <1>2

LEMMA NextWord ==
  ASSUME NEW t \in Text, NEW p \in Nat, Lies(t, p, <<Blank>>),
         NEW A, NEW w \in Seq(A), Len(w) \in Nat \ {0}, Blank \notin A,
         Lies(t, p + 1, w), NEW x, x \notin A, Lies(t, p + 1 + Len(w), <<x>>)
  PROVE  NextToken(t, p, A) = [from |-> p + 1, to |-> p + 1 + Len(w)]
<1>1. p + 1 \in Nat
  OBVIOUS
<1>2. RunEnd(t, p + 1, {Blank})
  BY <1>1, WordBegins
<1>3. SkipWhitespace(t, p) = p + 1 /\ p <= p + 1
  BY <1>2, BehindBlank
<1> DEFINE f == p + 1
<1>4. f \in Nat /\ p <= f /\ SkipWhitespace(t, p) = f /\ Lies(t, f, w) /\ Lies(t, f + Len(w), <<x>>)
  BY <1>1, <1>3
<1>. HIDE DEF f
<1>5. NextToken(t, p, A) = [from |-> f, to |-> f + Len(w)]
  BY <1>4, TokenAt
<1>. QED
  BY <1>5 DEF f

\* What parse_line makes of the line l at p.
ParsedAt(l, p) == [start |-> [from |-> p, to |-> p + Len(l.start)],
                   end |-> [from |-> p + EndAt(l), to |-> p + (EndAt(l) + Len(l.end))],
                   perm |-> [from |-> p + PermAt(l), to |-> p + (PermAt(l) + PermSize)],
                   path |-> [from |-> p + PathAt(l), to |-> p + FeedAt(l)],
                   pos |-> p + FeedAt(l),
                   throws |-> FALSE]

LEMMA MinIs ==
  ASSUME NEW S, S \subseteq Int, NEW e \in S, \A q \in S : e <= q
  PROVE  Min(S) = e
<1>1. \A m \in S : (\A q \in S : m <= q) => m = e
  OBVIOUS
<1>. QED
  BY <1>1 DEF Min

LEMMA NextLineIs ==
  ASSUME NEW t \in Text, NEW p \in Nat, Lies(t, p, <<NewLine>>)
  PROVE  NextLine(t, p) = p + 1
<1>1. p < Len(t) /\ At(t, p) = NewLine
  BY LiesOne
<1> DEFINE F == {q \in p .. Len(t) - 1 : At(t, q) = NewLine}
<1>2. p \in F /\ F \subseteq Int /\ \A q \in F : p <= q
  BY <1>1, LenProperties DEF Text
<1>3. NextLine(t, p) = IF p >= Len(t) THEN p ELSE IF F = {} THEN 0 ELSE Min(F) + 1
  BY Zenon DEF NextLine
<1>. HIDE DEF F
<1>4. Min(F) = p
  BY <1>2, MinIs
<1>. QED
  BY <1>1, <1>2, <1>3, <1>4, LenProperties DEF Text

LEMMA ParseLine ==
  ASSUME NEW t \in Text, NEW p \in Nat, NEW l, IsMapping(l), ColumnsLie(t, p, l)
  PROVE  ParseMaps(t, p) = ParsedAt(l, p) /\ NextLine(t, p + FeedAt(l)) = p + FeedAt(l) + 1
<1> DEFINE start == NextToken(t, p, Digits)
           end == NextToken(t, start.to + 1, Digits)
           perm == GetToken(t, end.to, PermSize)
           offset == NextToken(t, perm.to, Word)
           dev == NextToken(t, offset.to, Word)
           inode == NextToken(t, dev.to, Word)
           path == NextToken(t, inode.to, Line)
<1>1. ParseMaps(t, p) = [start |-> start, end |-> end, perm |-> perm, path |-> path, pos |-> path.to,
                         throws |-> Throws(t, start) \/ Throws(t, end)]
  BY Zenon DEF ParseMaps
<1>2. /\ Len(l.start) \in Nat \ {0} /\ Len(l.end) \in Nat \ {0} /\ Len(l.perm) = PermSize
      /\ Len(l.offset) \in Nat \ {0} /\ Len(l.dev) \in Nat \ {0} /\ Len(l.inode) \in Nat \ {0}
      /\ Len(l.path) \in Nat /\ PermSize \in Nat /\ PermSize \in Nat \ {0}
  BY ColumnsAre DEF PermSize
<1>3. /\ l.start \in Seq(Digits) /\ l.end \in Seq(Digits) /\ l.perm \in Seq(Word)
      /\ l.offset \in Seq(Word) /\ l.dev \in Seq(Word) /\ l.inode \in Seq(Word) /\ l.path \in Seq(Line)
  BY ColumnsAre
<1>4. Blank \notin Digits /\ Blank \notin Word /\ Dash \notin Digits /\ NewLine \notin Line
  BY SymbolsDiffer, DashDiffers
<1> DEFINE e1 == p + EndAt(l)
           e2 == p + (EndAt(l) + Len(l.end))
           m1 == p + PermAt(l)
           m2 == p + (PermAt(l) + PermSize)
           o1 == p + OffsetAt(l)
           o2 == p + (OffsetAt(l) + Len(l.offset))
           d1 == p + DevAt(l)
           d2 == p + (DevAt(l) + Len(l.dev))
           i1 == p + InodeAt(l)
           i2 == p + (InodeAt(l) + Len(l.inode))
           h1 == p + PathAt(l)
           h2 == p + FeedAt(l)
           s2 == p + Len(l.start)
<1>5. /\ s2 \in Nat /\ e1 \in Nat /\ e2 \in Nat /\ m1 \in Nat /\ m2 \in Nat /\ o1 \in Nat /\ o2 \in Nat
      /\ d1 \in Nat /\ d2 \in Nat /\ i1 \in Nat /\ i2 \in Nat /\ h1 \in Nat /\ h2 \in Nat
      /\ e1 = s2 + 1 /\ e2 = e1 + Len(l.end) /\ m1 = e2 + 1 /\ m2 = m1 + PermSize
      /\ o1 = m2 + 1 /\ o2 = o1 + Len(l.offset) /\ d1 = o2 + 1 /\ d2 = d1 + Len(l.dev)
      /\ i1 = d2 + 1 /\ i2 = i1 + Len(l.inode) /\ h1 = i2 + 1 /\ h2 = h1 + Len(l.path)
  <2> DEFINE n1 == Len(l.start)
             n2 == Len(l.end)
             n3 == PermSize
             n4 == Len(l.offset)
             n5 == Len(l.dev)
             n6 == Len(l.inode)
             n7 == Len(l.path)
             f1 == EndAt(l)
             f2 == PermAt(l)
             f3 == OffsetAt(l)
             f4 == DevAt(l)
             f5 == InodeAt(l)
             f6 == PathAt(l)
             f7 == FeedAt(l)
  <2>1. /\ n1 \in Nat /\ n2 \in Nat /\ n3 \in Nat /\ n4 \in Nat /\ n5 \in Nat /\ n6 \in Nat /\ n7 \in Nat
    BY <1>2
  <2>2. /\ f1 = n1 + 1 /\ f2 = f1 + n2 + 1 /\ f3 = f2 + n3 + 1 /\ f4 = f3 + n4 + 1
        /\ f5 = f4 + n5 + 1 /\ f6 = f5 + n6 + 1 /\ f7 = f6 + n7
    BY Zenon DEF EndAt, PermAt, OffsetAt, DevAt, InodeAt, PathAt, FeedAt
  <2>. HIDE DEF n1, n2, n3, n4, n5, n6, n7, f1, f2, f3, f4, f5, f6, f7
  <2>3. /\ f1 \in Nat /\ f2 \in Nat /\ f3 \in Nat /\ f4 \in Nat /\ f5 \in Nat /\ f6 \in Nat /\ f7 \in Nat
    BY <2>1, <2>2
  <2>4. /\ p + n1 \in Nat /\ p + f1 \in Nat /\ p + (f1 + n2) \in Nat /\ p + f2 \in Nat
        /\ p + (f2 + n3) \in Nat /\ p + f3 \in Nat /\ p + (f3 + n4) \in Nat
        /\ p + f4 \in Nat /\ p + (f4 + n5) \in Nat /\ p + f5 \in Nat /\ p + (f5 + n6) \in Nat
        /\ p + f6 \in Nat /\ p + f7 \in Nat
    BY <2>1, <2>3
  <2>5. /\ p + f1 = (p + n1) + 1 /\ p + (f1 + n2) = (p + f1) + n2 /\ p + f2 = (p + (f1 + n2)) + 1
        /\ p + (f2 + n3) = (p + f2) + n3 /\ p + f3 = (p + (f2 + n3)) + 1
        /\ p + (f3 + n4) = (p + f3) + n4 /\ p + f4 = (p + (f3 + n4)) + 1
        /\ p + (f4 + n5) = (p + f4) + n5 /\ p + f5 = (p + (f4 + n5)) + 1
        /\ p + (f5 + n6) = (p + f5) + n6 /\ p + f6 = (p + (f5 + n6)) + 1 /\ p + f7 = (p + f6) + n7
    BY <2>1, <2>2, <2>3
  <2>. QED
    BY <2>4, <2>5, Zenon DEF n1, n2, n3, n4, n5, n6, n7, f1, f2, f3, f4, f5, f6, f7
<1>6. /\ Lies(t, p, l.start) /\ Lies(t, p + Len(l.start), <<Dash>>)
      /\ Lies(t, e1, l.end) /\ Lies(t, e2, <<Blank>>)
      /\ Lies(t, m1, l.perm) /\ Lies(t, m2, <<Blank>>)
      /\ Lies(t, o1, l.offset) /\ Lies(t, o2, <<Blank>>)
      /\ Lies(t, d1, l.dev) /\ Lies(t, d2, <<Blank>>)
      /\ Lies(t, i1, l.inode) /\ Lies(t, i2, <<Blank>>)
      /\ Lies(t, h1, l.path) /\ Lies(t, h2, <<NewLine>>)
  BY Zenon DEF ColumnsLie
<1>7. ParsedAt(l, p) = [start |-> [from |-> p, to |-> s2], end |-> [from |-> e1, to |-> e2],
                        perm |-> [from |-> m1, to |-> m2], path |-> [from |-> h1, to |-> h2],
                        pos |-> h2, throws |-> FALSE]
  BY Zenon DEF ParsedAt
<1>. HIDE DEF e1, e2, m1, m2, o1, o2, d1, d2, i1, i2, h1, h2, s2
<1>8. start = [from |-> p, to |-> s2]
  BY <1>2, <1>3, <1>4, <1>6, FirstWord, Zenon DEF s2
<1>9. end = [from |-> e1, to |-> e2]
  <2>1. start.to + 1 = e1
    BY <1>5, <1>8
  <2>2. Lies(t, e1 + Len(l.end), <<Blank>>)
    BY <1>5, <1>6, Zenon
  <2>3. NextToken(t, e1, Digits) = [from |-> e1, to |-> e1 + Len(l.end)]
    BY <1>2, <1>3, <1>4, <1>5, <1>6, <2>2, FirstWord, Zenon
  <2>. QED
    BY <1>5, <2>1, <2>3, Zenon
<1>10. perm = [from |-> m1, to |-> m2]
  <2>1. end.to = e2
    BY <1>9
  <2>2. Lies(t, e2 + 1, l.perm)
    BY <1>5, <1>6, Zenon
  <2>3. RunEnd(t, m1, {Blank})
    BY <1>2, <1>3, <1>4, <1>5, <1>6, WordBegins
  <2>4. SkipWhitespace(t, e2) = m1
    BY <1>5, <1>6, <2>3, BehindBlank, Zenon
  <2>5. Len(t) \in Nat /\ m1 + PermSize <= Len(t)
    BY <1>2, <1>6, LenProperties DEF Lies, Text
  <2>6. Min({Len(t) - m1, PermSize}) = PermSize
    <3> DEFINE S == {Len(t) - m1, PermSize}
    <3>1. S \subseteq Int /\ PermSize \in S /\ \A q \in S : PermSize <= q
      <4>1. PermSize \in Nat /\ m1 \in Nat
        BY <1>2, <1>5
      <4>2. Len(t) - m1 \in Nat /\ PermSize <= Len(t) - m1 /\ PermSize <= PermSize
        BY <2>5, <4>1
      <4>. QED
        BY <4>1, <4>2
    <3>. HIDE DEF S
    <3>2. Min(S) = PermSize
      BY <3>1, MinIs
    <3>. QED
      BY <3>2 DEF S
  <2>7. perm = [from |-> m1, to |-> m1 + Min({Len(t) - m1, PermSize})]
    BY <2>1, <2>4, Zenon DEF GetToken
  <2>. QED
    BY <1>5, <2>6, <2>7, Zenon
<1>11. offset = [from |-> o1, to |-> o2]
  <2>1. perm.to = m2
    BY <1>10
  <2>2. /\ m2 \in Nat /\ Lies(t, m2, <<Blank>>) /\ Blank \notin Word
        /\ l.offset \in Seq(Word) /\ Len(l.offset) \in Nat \ {0}
        /\ Lies(t, m2 + 1, l.offset) /\ Lies(t, m2 + 1 + Len(l.offset), <<Blank>>)
    BY <1>2, <1>3, <1>4, <1>5, <1>6, Zenon
  <2>3. NextToken(t, m2, Word) = [from |-> m2 + 1, to |-> m2 + 1 + Len(l.offset)]
    BY <2>2, NextWord
  <2>. QED
    BY <1>5, <2>1, <2>3, Zenon
<1>12. dev = [from |-> d1, to |-> d2]
  <2>1. offset.to = o2
    BY <1>11
  <2>2. /\ o2 \in Nat /\ Lies(t, o2, <<Blank>>) /\ Blank \notin Word
        /\ l.dev \in Seq(Word) /\ Len(l.dev) \in Nat \ {0}
        /\ Lies(t, o2 + 1, l.dev) /\ Lies(t, o2 + 1 + Len(l.dev), <<Blank>>)
    BY <1>2, <1>3, <1>4, <1>5, <1>6, Zenon
  <2>3. NextToken(t, o2, Word) = [from |-> o2 + 1, to |-> o2 + 1 + Len(l.dev)]
    BY <2>2, NextWord
  <2>. QED
    BY <1>5, <2>1, <2>3, Zenon
<1>13. inode = [from |-> i1, to |-> i2]
  <2>1. dev.to = d2
    BY <1>12
  <2>2. /\ d2 \in Nat /\ Lies(t, d2, <<Blank>>) /\ Blank \notin Word
        /\ l.inode \in Seq(Word) /\ Len(l.inode) \in Nat \ {0}
        /\ Lies(t, d2 + 1, l.inode) /\ Lies(t, d2 + 1 + Len(l.inode), <<Blank>>)
    BY <1>2, <1>3, <1>4, <1>5, <1>6, Zenon
  <2>3. NextToken(t, d2, Word) = [from |-> d2 + 1, to |-> d2 + 1 + Len(l.inode)]
    BY <2>2, NextWord
  <2>. QED
    BY <1>5, <2>1, <2>3, Zenon
<1>14. path = [from |-> h1, to |-> h2]
  <2>1. inode.to = i2
    BY <1>13
  <2>2. RunEnd(t, h1, {Blank})
    <3>1. CASE l.path = <<>>
      <4>1. At(t, h2) = NewLine /\ h2 = h1
        <5>1. Len(l.path) = 0 /\ h1 \in Nat /\ h2 \in Nat /\ h2 = h1 + Len(l.path)
          BY <1>5, <3>1
        <5>2. Lies(t, h2, <<NewLine>>)
          BY <1>6
        <5>. QED
          BY <5>1, <5>2, LiesOne
      <4>. QED
        BY <4>1, SymbolsDiffer, DashDiffers DEF RunEnd
    <3>2. CASE l.path # <<>>
      <4>1. l.path[1] # Blank
        BY <3>2, ColumnsAre
      <4>2. 1 \in 1 .. Len(l.path)
        BY <1>2, <1>3, <3>2, EmptySeq
      <4>3. t[h1 + 1] = l.path[1]
        BY <1>6, <4>2 DEF Lies
      <4>. QED
        BY <4>1, <4>3 DEF RunEnd, At
    <3>. QED
      BY <3>1, <3>2
  <2>3. SkipWhitespace(t, i2) = h1 /\ i2 <= h1
    BY <1>5, <1>6, <2>2, BehindBlank, Zenon
  <2>4. /\ i2 \in Nat /\ h1 \in Nat /\ l.path \in Seq(Line) /\ NewLine \notin Line
        /\ Lies(t, h1, l.path) /\ Lies(t, h1 + Len(l.path), <<NewLine>>)
    BY <1>3, <1>4, <1>5, <1>6, Zenon
  <2>5. NextToken(t, i2, Line) = [from |-> h1, to |-> h1 + Len(l.path)]
    BY <2>3, <2>4, TokenAt
  <2>. QED
    BY <1>5, <2>1, <2>5, Zenon
<1>15. (Throws(t, start) \/ Throws(t, end)) = FALSE
  <2>1. p <= Len(t) /\ e1 <= Len(t) /\ Len(t) \in Nat
    <3>1. e1 \in Nat /\ Len(l.start) \in Nat /\ Len(l.end) \in Nat /\ Len(t) \in Nat
      BY <1>2, <1>5, LenProperties DEF Text
    <3>2. p + Len(l.start) <= Len(t) /\ e1 + Len(l.end) <= Len(t)
      BY <1>6 DEF Lies
    <3>. QED
      BY <3>1, <3>2
  <2>2. start.from = p /\ end.from = e1
    BY <1>8, <1>9
  <2>. QED
    BY <1>5, <2>1, <2>2 DEF Throws
<1>16. path.to = h2
  BY <1>14
<1>17. ParseMaps(t, p) = ParsedAt(l, p)
  BY <1>1, <1>7, <1>8, <1>9, <1>10, <1>14, <1>15, <1>16, Zenon
<1>18. NextLine(t, h2) = h2 + 1
  BY <1>5, <1>6, NextLineIs
<1>. QED
  BY <1>17, <1>18 DEF h2

\* What an entry keeps of a line that was cut: permissions and a path within the
\* text, and no path if permissions are missing.
Within(e, n) == /\ e.perm.from \in 0 .. n /\ e.perm.to \in 0 .. n
                /\ e.perm.from <= e.perm.to /\ e.perm.to <= e.perm.from + PermSize
                /\ (e.perm.to < e.perm.from + PermSize => e.path.from = e.path.to)
                /\ e.path.from \in 0 .. n /\ e.path.to \in 0 .. n

LEMMA Tokens ==
  ASSUME NEW t \in Text, NEW p \in 0 .. Len(t), NEW A
  PROVE  LET k == NextToken(t, p, A)
         IN  /\ k.from \in 0 .. Len(t) /\ k.to \in 0 .. Len(t) /\ p <= k.from /\ k.from <= k.to
             /\ Run(t, p, k.from, {Blank}) /\ Run(t, k.from, k.to, A) /\ RunEnd(t, k.to, A)
<1>1. Len(t) \in Nat /\ p \in Nat
  BY LenProperties DEF Text
<1> DEFINE k == NextToken(t, p, A)
<1>2. /\ k.from \in p .. Len(t) /\ k.to \in k.from .. Len(t)
      /\ Run(t, p, k.from, {Blank}) /\ Run(t, k.from, k.to, A) /\ RunEnd(t, k.to, A)
  BY TokenRuns
<1>. HIDE DEF k
<1>3. /\ k.from \in 0 .. Len(t) /\ k.to \in 0 .. Len(t) /\ p <= k.from /\ k.from <= k.to
  BY <1>1, <1>2
<1>. QED
  BY <1>2, <1>3 DEF k

\* Where a parse of any text ends, and what it says of the text if it throws.
LEMMA ParseAnything ==
  ASSUME NEW t \in Text, NEW p \in 0 .. Len(t)
  PROVE  LET line == ParseMaps(t, p)
         IN  /\ line.throws \in BOOLEAN
             /\ line.throws => line.pos = Len(t) /\ \A q \in p .. Len(t) - 1 : At(t, q) # Dash
             /\ ~line.throws => /\ line.pos \in p .. Len(t) /\ RunEnd(t, line.pos, Line)
                                /\ Within(line, Len(t))
<1> DEFINE start == NextToken(t, p, Digits)
           end == NextToken(t, start.to + 1, Digits)
           perm == GetToken(t, end.to, PermSize)
           offset == NextToken(t, perm.to, Word)
           dev == NextToken(t, offset.to, Word)
           inode == NextToken(t, dev.to, Word)
           path == NextToken(t, inode.to, Line)
           line == [start |-> start, end |-> end, perm |-> perm, path |-> path, pos |-> path.to,
                    throws |-> Throws(t, start) \/ Throws(t, end)]
           n == Len(t)
<1>1. ParseMaps(t, p) = line
  BY Zenon DEF ParseMaps
<1>2. n \in Nat /\ p \in Nat
  BY LenProperties DEF Text
<1>3. /\ start.from \in 0 .. n /\ start.to \in 0 .. n /\ p <= start.from /\ start.from <= start.to
      /\ Run(t, p, start.from, {Blank}) /\ Run(t, start.from, start.to, Digits)
  BY Tokens
<1>. HIDE DEF start
<1>4. ASSUME start.to = n, NEW q \in p .. n - 1 PROVE At(t, q) # Dash
  <2>1. q \in p .. start.from - 1 \/ q \in start.from .. start.to - 1
    BY <1>2, <1>3, <1>4
  <2>2. At(t, q) \in {Blank} \/ At(t, q) \in Digits
    BY <1>3, <2>1 DEF Run
  <2>. QED
    BY <2>2, SymbolsDiffer, DashDiffers
<1>5. (Throws(t, start) \/ Throws(t, end)) => start.to = n
  <2>1. ~Throws(t, start)
    BY <1>2, <1>3 DEF Throws
  <2>2. ASSUME start.to # n PROVE ~Throws(t, end)
    <3>1. start.to + 1 \in 0 .. n
      BY <1>2, <1>3, <2>2
    <3>2. end.from \in 0 .. n
      BY <3>1, Tokens
    <3>. QED
      BY <1>2, <3>2 DEF Throws
  <2>. QED
    BY <2>1, <2>2
<1>6. ASSUME ~Throws(t, end) PROVE start.to # n
  <2>1. ASSUME start.to = n PROVE FALSE
    <3>1. start.to + 1 \in Nat /\ start.to + 1 >= Len(t) /\ start.to + 1 > n
      BY <1>2, <2>1
    <3>2. SkipWhitespace(t, start.to + 1) = start.to + 1
      BY <3>1, PastEnd DEF SkipWhitespace
    <3>3. end.from = start.to + 1
      BY <3>2 DEF NextToken
    <3>. QED
      BY <1>6, <3>1, <3>3 DEF Throws
  <2>. QED
    BY <2>1
<1>7. ASSUME start.to # n
      PROVE  path.to \in p .. n /\ RunEnd(t, path.to, Line) /\ Within(line, n)
  <2>1. start.to + 1 \in 0 .. n
    BY <1>2, <1>3, <1>7
  <2>2. end.to \in 0 .. n /\ start.to + 1 <= end.to
    BY <1>2, <1>3, <2>1, Tokens
  <2>. HIDE DEF end
  <2> DEFINE f == SkipWhitespace(t, end.to)
             S == {n - f, PermSize}
  <2>3. f \in 0 .. n /\ end.to <= f
    <3>1. f \in end.to .. n
      BY <2>2, PastRuns DEF SkipWhitespace
    <3>. QED
      BY <1>2, <2>2, <3>1
  <2>4. perm = [from |-> f, to |-> f + Min(S)]
    BY Zenon DEF GetToken
  <2>. HIDE DEF f
  <2>5. Min(S) = IF n - f < PermSize THEN n - f ELSE PermSize
    <3> DEFINE m == IF n - f < PermSize THEN n - f ELSE PermSize
    <3>1. S \subseteq Int /\ m \in S /\ \A q \in S : m <= q
      BY <1>2, <2>3 DEF PermSize
    <3>. HIDE DEF S, m
    <3>2. Min(S) = m
      BY <3>1, MinIs
    <3>. QED
      BY <3>2 DEF m
  <2>. HIDE DEF S
  <2>6. perm.from = f /\ perm.to = f + Min(S)
    BY <2>4
  <2>7. /\ perm.from \in 0 .. n /\ perm.to \in 0 .. n /\ perm.from <= perm.to
        /\ end.to <= perm.from /\ perm.to <= perm.from + PermSize
        /\ (perm.to < perm.from + PermSize => perm.to = n)
    BY <1>2, <2>2, <2>3, <2>5, <2>6 DEF PermSize
  <2>. HIDE DEF perm
  <2>8. offset.to \in 0 .. n /\ perm.to <= offset.from /\ offset.from <= offset.to
    BY <2>7, Tokens
  <2>8a. offset.from \in 0 .. n
    BY <2>7, Tokens
  <2>. HIDE DEF offset
  <2>9. dev.to \in 0 .. n /\ offset.to <= dev.from /\ dev.from <= dev.to /\ dev.from \in 0 .. n
    BY <2>8, Tokens
  <2>. HIDE DEF dev
  <2>10. inode.to \in 0 .. n /\ dev.to <= inode.from /\ inode.from <= inode.to /\ inode.from \in 0 .. n
    BY <2>9, Tokens
  <2>. HIDE DEF inode
  <2>11. /\ path.to \in 0 .. n /\ inode.to <= path.from /\ path.from <= path.to /\ path.from \in 0 .. n
         /\ RunEnd(t, path.to, Line)
    BY <2>10, Tokens
  <2>. HIDE DEF path
  <2>12. perm.to <= path.from
    BY <1>2, <2>7, <2>8, <2>8a, <2>9, <2>10, <2>11
  <2>13. p <= path.to
    BY <1>2, <1>3, <2>1, <2>2, <2>7, <2>11, <2>12
  <2>14. perm.to < perm.from + PermSize => path.from = path.to
    BY <1>2, <2>7, <2>11, <2>12
  <2>15. line.perm = perm /\ line.path = path
    OBVIOUS
  <2>16. Within(line, n)
    BY <2>7, <2>11, <2>14, <2>15, Zenon DEF Within
  <2>. QED
    BY <1>2, <2>11, <2>13, <2>16
<1>7a. ASSUME start.to = n PROVE path.to = n
  <2>1. start.to + 1 = n + 1 /\ n + 1 \in Nat /\ n + 1 >= Len(t) /\ n \in Nat /\ n >= Len(t)
    BY <1>2, <1>7a
  <2>2. \A A : Past(t, n + 1, A) = n + 1 /\ Past(t, n, A) = n
    BY <2>1, PastEnd
  <2>3. \A A : NextToken(t, n, A) = [from |-> n, to |-> n] /\ NextToken(t, n + 1, A) = [from |-> n + 1, to |-> n + 1]
    BY <2>2, Zenon DEF NextToken, SkipWhitespace
  <2>4. end.to = n + 1
    BY <2>1, <2>3
  <2> DEFINE S == {n - (n + 1), PermSize}
  <2>5. perm = [from |-> n + 1, to |-> n + 1 + Min(S)]
    BY <2>2, <2>4, Zenon DEF GetToken, SkipWhitespace
  <2>6. Min(S) = -1
    <3>1. S \subseteq Int /\ -1 \in S /\ \A q \in S : -1 <= q
      BY <1>2 DEF PermSize
    <3>. HIDE DEF S
    <3>. QED
      BY <3>1, MinIs
  <2>. HIDE DEF S, start
  <2>7. perm.to = n
    BY <1>2, <2>5, <2>6
  <2>. HIDE DEF perm
  <2>8. offset.to = n
    BY <2>3, <2>7
  <2>. HIDE DEF offset
  <2>9. dev.to = n
    BY <2>3, <2>8
  <2>. HIDE DEF dev
  <2>10. inode.to = n
    BY <2>3, <2>9
  <2>. HIDE DEF inode
  <2>. QED
    BY <2>3, <2>10
<1>8. line.throws = (Throws(t, start) \/ Throws(t, end)) /\ line.pos = path.to
  OBVIOUS
<1>9. line.throws \in BOOLEAN
  BY <1>8 DEF Throws
<1>. HIDE DEF end, path, line
<1>. QED
  BY <1>1, <1>4, <1>5, <1>6, <1>7, <1>7a, <1>8, <1>9

--------------------------------------------------------------------------------
(* The lines of a file *)

LEMMA MaxIs ==
  ASSUME NEW S, S \subseteq Int, NEW e \in S, \A q \in S : q <= e
  PROVE  Max(S) = e
<1>1. \A m \in S : (\A q \in S : m >= q) => m = e
  OBVIOUS
<1>. QED
  BY <1>1 DEF Max

\* Where the first n lines of a file end.
Ends(f, n) == Len(FileText(SubSeq(f, 1, n)))

\* The n-th line of the file lies where those before it end.
LineLaid(f, n) == /\ Ends(f, n - 1) \in Nat /\ FeedAt(f[n]) \in Nat /\ IsMapping(f[n])
                  /\ Ends(f, n) = Ends(f, n - 1) + (FeedAt(f[n]) + 1)
                  /\ Lies(FileText(f), Ends(f, n - 1), LineText(f[n]))
                  /\ Len(LineText(f[n])) = FeedAt(f[n]) + 1

LEMMA FeedIsNat ==
  ASSUME NEW l, IsMapping(l)
  PROVE  FeedAt(l) \in Nat
<1>1. LineText(l) \in Text /\ Len(LineText(l)) = FeedAt(l) + 1
  BY LineLies
<1>. DEFINE a == Len(l.start)
            b == Len(l.end)
            c == PermSize
            d == Len(l.offset)
            e == Len(l.dev)
            g == Len(l.inode)
            h == Len(l.path)
<1>2. /\ a \in Nat /\ b \in Nat /\ c \in Nat /\ d \in Nat /\ e \in Nat /\ g \in Nat /\ h \in Nat
  BY ColumnsAre DEF PermSize
<1>3. FeedAt(l) = (((((((a + 1) + b) + 1) + c + 1) + d + 1) + e + 1) + g + 1) + h
  BY Zenon DEF FeedAt, PathAt, InodeAt, DevAt, OffsetAt, PermAt, EndAt
<1>. HIDE DEF a, b, c, d, e, g, h
<1>. QED
  BY <1>2, <1>3

LEMMA FileLaid ==
  ASSUME NEW f, IsFile(f)
  PROVE  /\ Len(f) \in Nat /\ FileText(f) \in Text
         /\ Ends(f, 0) = 0 /\ Ends(f, Len(f)) = Len(FileText(f))
         /\ \A n \in 1 .. Len(f) : LineLaid(f, n)
<1> DEFINE d == Len(f)
           s == [i \in DOMAIN f |-> LineText(f[i])]
<1>1. f \in Seq(Range(f)) /\ d \in Nat /\ DOMAIN f = 1 .. d /\ \A i \in 1 .. d : f[i] \in Range(f)
  BY LenProperties DEF IsFile, Range
<1>2. \A i \in 1 .. d : IsMapping(f[i])
  BY <1>1 DEF IsFile
<1>3. \A i \in 1 .. d : /\ LineText(f[i]) \in Text /\ Len(LineText(f[i])) = FeedAt(f[i]) + 1
                        /\ FeedAt(f[i]) \in Nat
  BY <1>2, LineLies, FeedIsNat
<1>4. FileText(f) = FlattenSeq(s)
  BY Zenon DEF FileText
<1>5. s \in Seq(Text) /\ Len(s) = d /\ \A i \in 1 .. d : s[i] = LineText(f[i])
  BY <1>1, <1>3
<1>6. ASSUME NEW n \in 0 .. d PROVE Ends(f, n) = Upto(s, n)
  <2> DEFINE g == SubSeq(f, 1, n)
             r == [i \in DOMAIN g |-> LineText(g[i])]
  <2>1. DOMAIN g = 1 .. n /\ \A i \in 1 .. n : g[i] = f[i]
    BY <1>1
  <2>2. SubSeq(s, 1, n) = [i \in 1 .. n |-> s[i]]
    BY <1>1, <1>5
  <2>. HIDE DEF g
  <2>3. r = [i \in 1 .. n |-> LineText(f[i])]
    BY <2>1
  <2>4. [i \in 1 .. n |-> s[i]] = [i \in 1 .. n |-> LineText(f[i])]
    BY <1>1, <1>5
  <2>5. SubSeq(s, 1, n) = r
    BY <2>2, <2>3, <2>4, Zenon
  <2>. QED
    BY <2>5, Zenon DEF Ends, Upto, FileText, g
<1>. HIDE DEF d, s
<1>7. /\ FlattenSeq(s) \in Text /\ Upto(s, 0) = 0 /\ Upto(s, d) = Len(FlattenSeq(s))
      /\ \A n \in 1 .. d : Laid(Symbols, s, n)
  BY <1>1, <1>5, FlattenLaid, Zenon DEF Text
<1>8. ASSUME NEW n \in 1 .. d PROVE LineLaid(f, n)
  <2>1. n - 1 \in 0 .. d /\ n \in 0 .. d
    BY <1>1
  <2>2. Ends(f, n - 1) = Upto(s, n - 1) /\ Ends(f, n) = Upto(s, n)
    BY <1>6, <2>1, Zenon
  <2>3. s[n] = LineText(f[n])
    BY <1>5
  <2>4. Len(s[n]) = FeedAt(f[n]) + 1 /\ FeedAt(f[n]) \in Nat
    BY <1>3, <2>3
  <2>5. Laid(Symbols, s, n)
    BY <1>7
  <2>. QED
    BY <1>2, <1>4, <2>2, <2>3, <2>4, <2>5, Zenon DEF Laid, LineLaid
<1>9. Ends(f, 0) = 0 /\ Ends(f, d) = Len(FileText(f))
  <2>1. 0 \in 0 .. d /\ d \in 0 .. d
    BY <1>1
  <2>. QED
    BY <1>4, <1>6, <1>7, <2>1, Zenon
<1>. QED
  BY <1>1, <1>4, <1>7, <1>8, <1>9, Zenon DEF d

\* The lines end one after the other.
LEMMA EndsGrow ==
  ASSUME NEW f, IsFile(f)
  PROVE  /\ \A n \in 0 .. Len(f) : Ends(f, n) \in Nat
         /\ \A n \in 0 .. Len(f) : \A m \in 0 .. n : Ends(f, m) <= Ends(f, n)
<1> DEFINE d == Len(f)
           T == {n \in 0 .. d : \A m \in 0 .. n : Ends(f, m) \in Nat /\ Ends(f, m) <= Ends(f, n)}
<1>1. d \in Nat /\ Ends(f, 0) = 0 /\ \A n \in 1 .. d : LineLaid(f, n)
  BY FileLaid
<1>2. 0 \in T
  BY <1>1
<1>3. ASSUME NEW n \in 1 .. d, n - 1 \in T PROVE n \in T
  <2>1. /\ Ends(f, n - 1) \in Nat /\ FeedAt(f[n]) \in Nat
        /\ Ends(f, n) = Ends(f, n - 1) + (FeedAt(f[n]) + 1)
    BY <1>1 DEF LineLaid
  <2>2. Ends(f, n) \in Nat /\ Ends(f, n - 1) <= Ends(f, n) /\ Ends(f, n) <= Ends(f, n)
    BY <2>1
  <2>3. ASSUME NEW m \in 0 .. n PROVE Ends(f, m) \in Nat /\ Ends(f, m) <= Ends(f, n)
    <3>1. CASE m = n
      BY <2>2, <3>1
    <3>2. CASE m # n
      <4>1. m \in 0 .. n - 1
        BY <1>1, <3>2
      <4>2. Ends(f, m) \in Nat /\ Ends(f, m) <= Ends(f, n - 1)
        BY <1>3, <4>1
      <4>. QED
        BY <2>1, <2>2, <4>2
    <3>. QED
      BY <3>1, <3>2
  <2>4. n \in 0 .. d
    BY <1>1
  <2>. QED
    BY <2>2, <2>3, <2>4
<1>4. \A n \in 0 .. d : n \in T
  <2>. HIDE DEF T, d
  <2>. QED
    BY <1>1, <1>2, <1>3, UpTo, Zenon
<1>5. ASSUME NEW n \in 0 .. d PROVE Ends(f, n) \in Nat /\ \A m \in 0 .. n : Ends(f, m) <= Ends(f, n)
  <2>1. n \in 0 .. n
    BY <1>1
  <2>. QED
    BY <1>4, <2>1
<1>. QED
  BY <1>5

\* t is how u begins.
Prefix(t, u) == Len(t) <= Len(u) /\ \A i \in 1 .. Len(t) : t[i] = u[i]

LEMMA PrefixLies ==
  ASSUME NEW t \in Text, NEW u \in Text, Prefix(t, u), NEW p \in Nat, NEW s, Len(s) \in Nat
  PROVE  /\ Lies(t, p, s) => Lies(u, p, s)
         /\ Lies(u, p, s) /\ p + Len(s) <= Len(t) => Lies(t, p, s)
<1>1. Len(t) \in Nat /\ Len(u) \in Nat /\ Len(t) <= Len(u)
  BY LenProperties DEF Text, Prefix
<1>2. ASSUME p + Len(s) <= Len(t), NEW i \in 1 .. Len(s) PROVE t[p + i] = u[p + i]
  <2>1. p + i \in 1 .. Len(t)
    BY <1>1, <1>2
  <2>. QED
    BY <2>1 DEF Prefix
<1>. QED
  BY <1>1, <1>2 DEF Lies

\* A line but for its end has no line feed in it.
LEMMA LineHasNoFeed ==
  ASSUME NEW l, IsMapping(l)
  PROVE  \A i \in 1 .. FeedAt(l) : LineText(l)[i] \in Line
<1> DEFINE x == l.start \o <<Dash>> \o l.end \o <<Blank>> \o l.perm \o <<Blank>>
                \o l.offset \o <<Blank>> \o l.dev \o <<Blank>> \o l.inode \o <<Blank>> \o l.path
<1>1. LineText(l) = x \o <<NewLine>>
  BY Zenon DEF LineText
<1>2. /\ l.start \in Seq(Line) /\ l.end \in Seq(Line) /\ l.perm \in Seq(Line) /\ l.offset \in Seq(Line)
      /\ l.dev \in Seq(Line) /\ l.inode \in Seq(Line) /\ l.path \in Seq(Line)
      /\ <<Dash>> \in Seq(Line) /\ <<Blank>> \in Seq(Line)
  <2>1. Digits \subseteq Line /\ Word \subseteq Line /\ Dash \in Line /\ Blank \in Line
    BY SymbolsDiffer, DashDiffers
  <2>2. Seq(Digits) \subseteq Seq(Line) /\ Seq(Word) \subseteq Seq(Line)
    BY <2>1, SeqMonotonic
  <2>3. <<Dash>> \in Seq(Line) /\ <<Blank>> \in Seq(Line)
    BY <2>1
  <2>. QED
    BY <2>2, <2>3, ColumnsAre
<1>3. \A a, b \in Seq(Line) : a \o b \in Seq(Line)
  BY ConcatProperties
<1>4. x \in Seq(Line)
  BY <1>2, <1>3, Zenon
<1>. HIDE DEF x
<1>5. Len(LineText(l)) = FeedAt(l) + 1 /\ FeedAt(l) \in Nat
  BY LineLies, FeedIsNat
<1>6. Len(x) \in Nat /\ Len(x \o <<NewLine>>) = Len(x) + 1
  BY <1>4, LenProperties
<1>7. Len(x) = FeedAt(l)
  BY <1>1, <1>5, <1>6
<1>8. \A i \in 1 .. Len(x) : (x \o <<NewLine>>)[i] = x[i] /\ x[i] \in Line
  BY <1>4, <1>6, ElementOfSeq
<1>. QED
  BY <1>1, <1>7, <1>8, Zenon

\* How many lines of f lie whole in t.
WholeOf(f, t) == Max({n \in 0 .. Len(f) : Len(FileText(SubSeq(f, 1, n))) <= Len(t)})

LEMMA WholeIs ==
  ASSUME NEW f, IsFile(f), NEW t \in Text, Prefix(t, FileText(f))
  PROVE  /\ WholeOf(f, t) \in 0 .. Len(f)
         /\ \A n \in 0 .. Len(f) : n <= WholeOf(f, t) <=> Ends(f, n) <= Len(t)
         /\ WholeOf(f, t) = Len(f) => Ends(f, WholeOf(f, t)) = Len(t)
<1> DEFINE d == Len(f)
           n0 == Len(t)
           S == {n \in 0 .. d : Len(FileText(SubSeq(f, 1, n))) <= n0}
           K == {k \in 0 .. d : d - k \in S}
<1>1. /\ d \in Nat /\ n0 \in Nat /\ Ends(f, 0) = 0 /\ Ends(f, d) = Len(FileText(f))
  BY FileLaid, LenProperties DEF Text
<1>2. /\ \A n \in 0 .. d : Ends(f, n) \in Nat
      /\ \A n \in 0 .. d : \A m \in 0 .. n : Ends(f, m) <= Ends(f, n)
  BY EndsGrow
<1>3. \A n : n \in S <=> n \in 0 .. d /\ Ends(f, n) <= n0
  BY Zenon DEF Ends
<1>. HIDE DEF S
<1>4. K \subseteq Nat /\ K # {}
  <2>1. d \in 0 .. d /\ d - d = 0 /\ 0 \in 0 .. d /\ 0 <= n0
    BY <1>1
  <2>2. d \in K
    BY <1>1, <1>3, <2>1
  <2>. QED
    BY <1>1, <2>2
<1>5. PICK k \in K : \A m \in K : k <= m
  <2>. HIDE DEF K
  <2>. QED
    BY <1>4, Least
<1> DEFINE w == d - k
<1>6. w \in S /\ w \in 0 .. d /\ \A n \in S : n <= w
  <2>1. w \in S /\ w \in 0 .. d
    BY <1>1, <1>5
  <2>2. ASSUME NEW n \in S PROVE n <= w
    <3>1. n \in 0 .. d
      BY <1>3
    <3>2. d - n \in K
      <4>1. d - n \in 0 .. d /\ d - (d - n) = n
        BY <1>1, <3>1
      <4>. QED
        BY <2>2, <4>1
    <3>3. k <= d - n /\ k \in 0 .. d
      BY <1>5, <3>2
    <3>. QED
      BY <1>1, <3>1, <3>3
  <2>. QED
    BY <2>1, <2>2
<1>. HIDE DEF w, K
<1>7. Max(S) = w
  <2>1. S \subseteq Int
    BY <1>1, <1>3
  <2>. QED
    BY <1>6, <2>1, MaxIs
<1>8. WholeOf(f, t) = w
  BY <1>7, Zenon DEF WholeOf, S
<1>9. ASSUME NEW n \in 0 .. d PROVE n <= w <=> Ends(f, n) <= n0
  <2>1. ASSUME n <= w PROVE Ends(f, n) <= n0
    <3>1. n \in 0 .. w
      BY <1>1, <1>6, <2>1
    <3>2. Ends(f, n) <= Ends(f, w) /\ Ends(f, w) <= n0 /\ Ends(f, w) \in Nat /\ Ends(f, n) \in Nat
      BY <1>2, <1>3, <1>6, <3>1
    <3>. QED
      BY <1>1, <3>2
  <2>2. ASSUME Ends(f, n) <= n0 PROVE n <= w
    BY <1>3, <1>6, <2>2
  <2>. QED
    BY <2>1, <2>2
<1>10. ASSUME w = d PROVE Ends(f, w) = n0
  <2>1. Ends(f, d) <= n0
    BY <1>3, <1>6, <1>10
  <2>2. n0 <= Ends(f, d)
    BY <1>1 DEF Prefix
  <2>3. Ends(f, d) \in Nat
    BY <1>2, <1>6, <1>10
  <2>. QED
    BY <1>1, <1>10, <2>1, <2>2, <2>3
<1>. QED
  BY <1>6, <1>8, <1>9, <1>10

\* A line that lies whole in the text is there, and in what begins with the text.
LEMMA WholeLine ==
  ASSUME NEW f, IsFile(f), NEW t \in Text, Prefix(t, FileText(f)),
         NEW u \in Text, Prefix(t, u), NEW n \in 1 .. Len(f), n <= WholeOf(f, t)
  PROVE  /\ IsMapping(f[n]) /\ Ends(f, n - 1) \in Nat /\ FeedAt(f[n]) \in Nat
         /\ Ends(f, n) = Ends(f, n - 1) + (FeedAt(f[n]) + 1) /\ Ends(f, n) <= Len(t)
         /\ ColumnsLie(t, Ends(f, n - 1), f[n]) /\ ColumnsLie(u, Ends(f, n - 1), f[n])
<1>1. LineLaid(f, n) /\ Len(f) \in Nat /\ FileText(f) \in Text
  BY FileLaid
<1>2. Ends(f, n) <= Len(t)
  BY <1>1, WholeIs
<1> DEFINE p == Ends(f, n - 1)
           s == LineText(f[n])
<1>3. /\ p \in Nat /\ FeedAt(f[n]) \in Nat /\ Ends(f, n) = p + (FeedAt(f[n]) + 1)
      /\ Len(s) = FeedAt(f[n]) + 1 /\ Lies(FileText(f), p, s) /\ IsMapping(f[n])
  BY <1>1, Zenon DEF LineLaid
<1>4. Len(s) \in Nat /\ p + Len(s) <= Len(t)
  BY <1>2, <1>3
<1>. HIDE DEF p, s
<1>5. Lies(t, p, s)
  BY <1>1, <1>3, <1>4, PrefixLies
<1>6. Lies(u, p, s)
  BY <1>3, <1>4, <1>5, PrefixLies
<1>7. \A v \in Text : Lies(v, p, s) => ColumnsLie(v, p, f[n])
  BY <1>3, LineLies DEF s
<1>. QED
  BY <1>2, <1>3, <1>5, <1>6, <1>7 DEF p

\* The part of the text behind its whole lines has no line feed.
LEMMA CutLine ==
  ASSUME NEW f, IsFile(f), NEW t \in Text, Prefix(t, FileText(f)),
         NEW q \in Nat, Ends(f, WholeOf(f, t)) <= q, q < Len(t)
  PROVE  At(t, q) \in Line
<1> DEFINE w == WholeOf(f, t)
           n == w + 1
<1>1. /\ w \in 0 .. Len(f) /\ (w = Len(f) => Ends(f, w) = Len(t)) /\ Len(t) \in Nat /\ Len(f) \in Nat
      /\ \A m \in 0 .. Len(f) : m <= w <=> Ends(f, m) <= Len(t)
  BY WholeIs, FileLaid, LenProperties DEF Text
<1>2. Ends(f, w) \in Nat
  BY <1>1, EndsGrow
<1>. HIDE DEF w
<1>3. w # Len(f)
  BY <1>1, <1>2 DEF w
<1>4. n \in 1 .. Len(f) /\ n - 1 = w /\ ~(n <= w) /\ n \in 0 .. Len(f)
  BY <1>1, <1>3
<1>5. LineLaid(f, n) /\ FileText(f) \in Text
  BY <1>4, FileLaid
<1> DEFINE p == Ends(f, w)
           s == LineText(f[n])
<1>6. /\ FeedAt(f[n]) \in Nat /\ Ends(f, n) = p + (FeedAt(f[n]) + 1)
      /\ Len(s) = FeedAt(f[n]) + 1 /\ Lies(FileText(f), p, s) /\ IsMapping(f[n])
  BY <1>4, <1>5, Zenon DEF LineLaid
<1>7. Len(t) < Ends(f, n)
  <2>1. ~(Ends(f, n) <= Len(t))
    BY <1>1, <1>4
  <2>. QED
    BY <1>1, <1>2, <1>6, <2>1
<1>. DEFINE i == (q + 1) - p
<1>8. i \in 1 .. FeedAt(f[n]) /\ i \in 1 .. Len(s) /\ p + i = q + 1 /\ q + 1 \in 1 .. Len(t)
  BY <1>1, <1>2, <1>6, <1>7 DEF w
<1>. HIDE DEF i, n, p
<1>9. t[q + 1] = FileText(f)[p + i]
  BY <1>8 DEF Prefix
<1>10. FileText(f)[p + i] = s[i]
  BY <1>6, <1>8 DEF Lies
<1>11. s[i] \in Line
  BY <1>6, <1>8, LineHasNoFeed
<1>. QED
  BY <1>9, <1>10, <1>11 DEF At

--------------------------------------------------------------------------------
(* The inductive invariant *)

\* The client's entry for the line f[n], its views at the line's place.
EntryAt(f, n) == [start |-> f[n].start, end |-> f[n].end,
                  perm |-> ParsedAt(f[n], Ends(f, n - 1)).perm,
                  path |-> ParsedAt(f[n], Ends(f, n - 1)).path]

\* The text begins the file and the buffer the text.
TextOK(f, t, b) == /\ IsFile(f) /\ t \in Text /\ Prefix(t, FileText(f))
                   /\ b \in Text /\ Prefix(t, b)

\* The first n lines, or those that are whole and the one that was cut.
Passed(f, t, n) == \/ n <= WholeOf(f, t)
                   \/ n = WholeOf(f, t) + 1 /\ Ends(f, WholeOf(f, t)) < Len(t)

\* The entries handed out are those of the first lines.
GotOK(f, t, g) == /\ g \in Seq(Range(g))
                  /\ Passed(f, t, Len(g))
                  /\ \A n \in 1 .. Len(g) :
                       IF n <= WholeOf(f, t) THEN g[n] = EntryAt(f, n) ELSE Within(g[n], Len(t))

\* The cursor stands behind the n lines that were handed out, in a loop's body
\* on the feed of the last of them.
CursorOK(f, t, p, n, inBody) ==
    \/ /\ n <= WholeOf(f, t)
       /\ IF inBody THEN n >= 1 /\ p + 1 = Ends(f, n) ELSE p = Ends(f, n)
    \/ n = WholeOf(f, t) + 1 /\ Ends(f, WholeOf(f, t)) < Len(t) /\ p = Len(t)

\* Behind the whole lines there is something, and no dash in it.
NoDash(f, t) == /\ Ends(f, WholeOf(f, t)) < Len(t)
                /\ \A q \in Ends(f, WholeOf(f, t)) .. Len(t) - 1 : At(t, q) # Dash

IInv == /\ file \in (UNION Range(Files)) \cup {<<>>} /\ loads \in 0 .. Len(Files)
        /\ TextOK(file, text, buffer)
        /\ GotOK(file, text, got)
        /\ pos \in Nat /\ step \in Steps \cup {"ended"} /\ ended \in BOOLEAN
        /\ IF ended THEN step = "ended" /\ pos = Len(text) /\ NoDash(file, text)
           ELSE step # "ended" /\ CursorOK(file, text, pos, Len(got), step = "body")
        /\ step = "deref" => pos < Len(text)
        /\ step = "done" => pos >= Len(text)

\* What the client gets of a line that was parsed.
EntryFrom(t, line) == [start |-> Piece(t, line.start), end |-> Piece(t, line.end),
                       perm |-> line.perm, path |-> line.path]

\* What the client reads of an entry, in a buffer: the columns of the line.
ReadsAs(b, e, l) == Piece(b, e.perm) = l.perm /\ Piece(b, e.path) = l.path

LEMMA AppendEntry ==
  ASSUME NEW g, g \in Seq(Range(g)), NEW e
  PROVE  LET h == Append(g, e)
         IN  /\ h \in Seq(Range(h)) /\ Len(g) \in Nat /\ Len(h) = Len(g) + 1
             /\ \A n \in 1 .. Len(g) : h[n] = g[n]
             /\ h[Len(g) + 1] = e
<1> DEFINE h == Append(g, e)
           d == Len(g)
           S == Range(g) \cup {e}
<1>1. d \in Nat /\ g \in Seq(S)
  BY LenProperties, SeqMonotonic
<1>2. Len(h) = d + 1 /\ (\A n \in 1 .. d : h[n] = g[n]) /\ h[d + 1] = e /\ h \in Seq(S)
  BY <1>1, AppendProperties
<1>. HIDE DEF h, d, S
<1>3. DOMAIN h = 1 .. d + 1 /\ h = [n \in 1 .. d + 1 |-> h[n]]
  BY <1>1, <1>2
<1>4. \A n \in 1 .. d + 1 : h[n] \in Range(h)
  BY <1>3 DEF Range
<1>5. h \in Seq(Range(h))
  <2>1. d + 1 \in Nat
    BY <1>1
  <2>2. h \in [1 .. d + 1 -> Range(h)]
    BY <1>3, <1>4
  <2>. QED
    BY <2>1, <2>2, SeqDef
<1>. QED
  BY <1>1, <1>2, <1>5 DEF h, d

\* A whole line is parsed into its entry, and reads as what it is.
LEMMA EntryParsed ==
  ASSUME NEW f, NEW t, NEW b, TextOK(f, t, b), NEW n \in 1 .. Len(f), n <= WholeOf(f, t)
  PROVE  LET p == Ends(f, n - 1)
             line == ParseMaps(t, p)
         IN  /\ p < Len(t) /\ line.throws = FALSE /\ line.pos + 1 = Ends(f, n) /\ line.pos \in Nat
             /\ NextLine(t, line.pos) = Ends(f, n) /\ Ends(f, n) \in Nat /\ Ends(f, n) <= Len(t)
             /\ EntryFrom(t, line) = EntryAt(f, n)
             /\ ReadsAs(b, EntryAt(f, n), f[n])
             /\ EntryAt(f, n).perm.from \in Nat
             /\ EntryAt(f, n).perm.to = EntryAt(f, n).perm.from + PermSize
             /\ EntryAt(f, n).perm.to <= Len(b) /\ Lies(b, EntryAt(f, n).perm.from, f[n].perm)
<1>1. /\ IsFile(f) /\ t \in Text /\ Prefix(t, FileText(f)) /\ b \in Text /\ Prefix(t, b)
  BY DEF TextOK
<1> DEFINE p == Ends(f, n - 1)
           l == f[n]
           line == ParseMaps(t, p)
           e == EntryAt(f, n)
<1>2. /\ IsMapping(l) /\ p \in Nat /\ FeedAt(l) \in Nat /\ Ends(f, n) = p + (FeedAt(l) + 1)
      /\ Ends(f, n) <= Len(t) /\ ColumnsLie(t, p, l) /\ ColumnsLie(b, p, l)
  BY <1>1, WholeLine
<1>. HIDE DEF p, l
<1>3. line = ParsedAt(l, p) /\ NextLine(t, p + FeedAt(l)) = p + FeedAt(l) + 1
  BY <1>1, <1>2, ParseLine
<1>4. line.throws = FALSE /\ line.pos = p + FeedAt(l)
  BY <1>3 DEF ParsedAt
<1>5. Len(t) \in Nat
  BY <1>1, LenProperties DEF Text
<1>6. p < Len(t) /\ line.pos + 1 = Ends(f, n) /\ Ends(f, n) \in Nat /\ line.pos \in Nat
  BY <1>2, <1>4, <1>5
<1>7. NextLine(t, line.pos) = Ends(f, n)
  BY <1>2, <1>3, <1>4
<1>8. /\ l.start \in Seq(Digits) /\ l.end \in Seq(Digits) /\ l.perm \in Seq(Word) /\ l.path \in Seq(Line)
      /\ Len(l.start) \in Nat /\ Len(l.end) \in Nat /\ Len(l.perm) = PermSize /\ Len(l.path) \in Nat
      /\ PermSize \in Nat
  BY <1>2, ColumnsAre DEF PermSize
<1>9. /\ EndAt(l) \in Nat /\ PermAt(l) \in Nat /\ PathAt(l) \in Nat /\ FeedAt(l) = PathAt(l) + Len(l.path)
  <2> DEFINE n1 == Len(l.start)
             n2 == Len(l.end)
             n3 == PermSize
             n4 == Len(l.offset)
             n5 == Len(l.dev)
             n6 == Len(l.inode)
  <2>1. /\ n1 \in Nat /\ n2 \in Nat /\ n3 \in Nat /\ n4 \in Nat /\ n5 \in Nat /\ n6 \in Nat
    BY <1>2, ColumnsAre DEF PermSize
  <2>2. /\ EndAt(l) = n1 + 1 /\ PermAt(l) = n1 + 1 + n2 + 1
        /\ PathAt(l) = n1 + 1 + n2 + 1 + n3 + 1 + n4 + 1 + n5 + 1 + n6 + 1
        /\ FeedAt(l) = PathAt(l) + Len(l.path)
    BY Zenon DEF EndAt, PermAt, OffsetAt, DevAt, InodeAt, PathAt, FeedAt
  <2>. HIDE DEF n1, n2, n3, n4, n5, n6
  <2>. QED
    BY <2>1, <2>2
<1> DEFINE e1 == p + EndAt(l)
           m1 == p + PermAt(l)
           h1 == p + PathAt(l)
<1>10. /\ e1 \in Nat /\ m1 \in Nat /\ h1 \in Nat
       /\ p + (EndAt(l) + Len(l.end)) = e1 + Len(l.end) /\ p + (PermAt(l) + PermSize) = m1 + Len(l.perm)
       /\ p + FeedAt(l) = h1 + Len(l.path)
  <2> DEFINE a == EndAt(l)
             c == PermAt(l)
             h == PathAt(l)
             x == Len(l.end)
             y == PermSize
             z == Len(l.path)
  <2>1. a \in Nat /\ c \in Nat /\ h \in Nat /\ x \in Nat /\ y \in Nat /\ z \in Nat
    BY <1>8, <1>9
  <2>2. FeedAt(l) = h + z /\ Len(l.perm) = y
    BY <1>8, <1>9
  <2>. HIDE DEF a, c, h, x, y, z
  <2>3. /\ p + a \in Nat /\ p + c \in Nat /\ p + h \in Nat
        /\ p + (a + x) = (p + a) + x /\ p + (c + y) = (p + c) + y /\ p + (h + z) = (p + h) + z
    BY <1>2, <2>1
  <2>. QED
    BY <2>2, <2>3, Zenon DEF a, c, h, x, y, z
<1>11. /\ Lies(t, p, l.start) /\ Lies(t, e1, l.end) /\ Lies(b, m1, l.perm) /\ Lies(b, h1, l.path)
  BY <1>2, Zenon DEF ColumnsLie
<1>12. e = [start |-> l.start, end |-> l.end, perm |-> [from |-> m1, to |-> p + (PermAt(l) + PermSize)],
            path |-> [from |-> h1, to |-> p + FeedAt(l)]]
  <2>1. /\ ParsedAt(l, p).perm = [from |-> m1, to |-> p + (PermAt(l) + PermSize)]
        /\ ParsedAt(l, p).path = [from |-> h1, to |-> p + FeedAt(l)]
    BY DEF ParsedAt
  <2>. QED
    BY <2>1, Zenon DEF EntryAt, l, p
<1>13. /\ line.start = [from |-> p, to |-> p + Len(l.start)] /\ line.perm = e.perm /\ line.path = e.path
       /\ line.end = [from |-> e1, to |-> p + (EndAt(l) + Len(l.end))]
       /\ e.start = l.start /\ e.end = l.end
  BY <1>3, <1>12 DEF ParsedAt
<1>. HIDE DEF e1, m1, h1, line, e
<1>14. Piece(t, line.start) = l.start /\ Piece(t, line.end) = l.end
  <2>1. Piece(t, line.start) = l.start
    <3>1. t \in Text /\ p \in Nat /\ l.start \in Seq(Digits) /\ Lies(t, p, l.start)
      BY <1>1, <1>2, <1>8, <1>11
    <3>2. Piece(t, [from |-> p, to |-> p + Len(l.start)]) = l.start
      BY <3>1, LiesPiece
    <3>. QED
      BY <1>13, <3>2, Zenon
  <2>2. Piece(t, line.end) = l.end
    <3>1. t \in Text /\ e1 \in Nat /\ l.end \in Seq(Digits) /\ Lies(t, e1, l.end)
      BY <1>1, <1>8, <1>10, <1>11
    <3>2. Piece(t, [from |-> e1, to |-> e1 + Len(l.end)]) = l.end
      BY <3>1, LiesPiece
    <3>. QED
      BY <1>10, <1>13, <3>2, Zenon
  <2>. QED
    BY <2>1, <2>2
<1>15. EntryFrom(t, line) = e
  BY <1>12, <1>13, <1>14, Zenon DEF EntryFrom
<1>16. e.perm = [from |-> m1, to |-> m1 + Len(l.perm)] /\ e.path = [from |-> h1, to |-> h1 + Len(l.path)]
  BY <1>10, <1>12
<1>17. ReadsAs(b, e, l)
  <2>1. /\ b \in Text /\ m1 \in Nat /\ h1 \in Nat
        /\ l.perm \in Seq(Word) /\ Lies(b, m1, l.perm) /\ l.path \in Seq(Line) /\ Lies(b, h1, l.path)
    BY <1>1, <1>8, <1>10, <1>11
  <2>2. /\ Piece(b, [from |-> m1, to |-> m1 + Len(l.perm)]) = l.perm
        /\ Piece(b, [from |-> h1, to |-> h1 + Len(l.path)]) = l.path
    BY <2>1, LiesPiece
  <2>. QED
    BY <1>16, <2>2, Zenon DEF ReadsAs
<1>18. e.perm.from = m1 /\ e.perm.to = m1 + PermSize
  BY <1>8, <1>16
<1>19. e.perm.to <= Len(b)
  BY <1>8, <1>11, <1>18 DEF Lies
<1>. QED
  BY <1>2, <1>4, <1>6, <1>7, <1>10, <1>11, <1>15, <1>17, <1>18, <1>19, Zenon DEF e, line, p, l

\* At the end of the text next_line stays.
LEMMA NextLineAtEnd ==
  ASSUME NEW t
  PROVE  NextLine(t, Len(t)) = Len(t)
BY DEF NextLine

\* Another entry that is the next line's, or what the cut line leaves.
LEMMA OneMoreGot ==
  ASSUME NEW f, NEW t, NEW g, GotOK(f, t, g), Passed(f, t, Len(g) + 1), NEW e,
         IF Len(g) + 1 <= WholeOf(f, t) THEN e = EntryAt(f, Len(g) + 1) ELSE Within(e, Len(t))
  PROVE  GotOK(f, t, Append(g, e)) /\ Len(Append(g, e)) = Len(g) + 1
<1> DEFINE h == Append(g, e)
           w == WholeOf(f, t)
           Is(x, n) == IF n <= w THEN x = EntryAt(f, n) ELSE Within(x, Len(t))
<1>1. g \in Seq(Range(g)) /\ \A n \in 1 .. Len(g) : Is(g[n], n)
  BY DEF GotOK
<1>2. Is(e, Len(g) + 1)
  OBVIOUS
<1>3. /\ h \in Seq(Range(h)) /\ Len(g) \in Nat /\ Len(h) = Len(g) + 1
      /\ \A n \in 1 .. Len(g) : h[n] = g[n]
      /\ h[Len(g) + 1] = e
  BY <1>1, AppendEntry
<1>. HIDE DEF h, Is
<1>4. ASSUME NEW n \in 1 .. Len(h) PROVE Is(h[n], n)
  <2>1. n \in 1 .. Len(g) \/ n = Len(g) + 1
    BY <1>3
  <2>. QED
    BY <1>1, <1>2, <1>3, <2>1
<1>5. Passed(f, t, Len(h))
  BY <1>3
<1>. QED
  BY <1>3, <1>4, <1>5, Zenon DEF GotOK, h, Is, w

\* A parse of the next line, wherever the text is cut.
LEMMA OneMoreLine ==
  ASSUME NEW f, NEW t, NEW b, TextOK(f, t, b), NEW g, GotOK(f, t, g),
         NEW p \in Nat, CursorOK(f, t, p, Len(g), FALSE), p < Len(t)
  PROVE  LET line == ParseMaps(t, p)
             h == Append(g, EntryFrom(t, line))
         IN  /\ line.throws \in BOOLEAN /\ line.pos \in Nat /\ NextLine(t, line.pos) \in Nat
             /\ line.throws => /\ NoDash(f, t) /\ line.pos = Len(t) /\ NextLine(t, line.pos) = Len(t)
             /\ ~line.throws => /\ GotOK(f, t, h) /\ CursorOK(f, t, line.pos, Len(h), TRUE)
                                /\ CursorOK(f, t, NextLine(t, line.pos), Len(h), FALSE)
<1> DEFINE line == ParseMaps(t, p)
           e == EntryFrom(t, line)
           w == WholeOf(f, t)
           k == Len(g)
<1>1. IsFile(f) /\ t \in Text /\ Prefix(t, FileText(f))
  BY DEF TextOK
<1>2. /\ w \in 0 .. Len(f) /\ (w = Len(f) => Ends(f, w) = Len(t)) /\ Len(t) \in Nat /\ Len(f) \in Nat
      /\ \A m \in 0 .. Len(f) : m <= w <=> Ends(f, m) <= Len(t)
  BY <1>1, WholeIs, FileLaid, LenProperties DEF Text
<1>3. k \in Nat
  BY LenProperties DEF GotOK
<1>4. k <= w /\ p = Ends(f, k)
  BY DEF CursorOK
<1>. HIDE DEF w, k, line, e
<1>5. CASE k < w
  <2> DEFINE n == k + 1
  <2>1. n \in 1 .. Len(f) /\ n <= w /\ n - 1 = k
    BY <1>2, <1>3, <1>5
  <2>. HIDE DEF n
  <2>2. Ends(f, n - 1) = p
    BY <1>4, <2>1
  <2>3. /\ line.throws = FALSE /\ line.pos + 1 = Ends(f, n) /\ line.pos \in Nat
        /\ NextLine(t, line.pos) = Ends(f, n) /\ Ends(f, n) \in Nat
        /\ e = EntryAt(f, n)
    BY <2>1, <2>2, EntryParsed DEF line, e, w
  <2>4. Passed(f, t, k + 1) /\ (IF k + 1 <= w THEN e = EntryAt(f, k + 1) ELSE Within(e, Len(t)))
    BY <2>1, <2>3 DEF Passed, n, w
  <2>5. GotOK(f, t, Append(g, e)) /\ Len(Append(g, e)) = n
    BY <2>4, OneMoreGot DEF k, w, n
  <2>6. CursorOK(f, t, line.pos, n, TRUE) /\ CursorOK(f, t, Ends(f, n), n, FALSE)
    BY <1>2, <2>1, <2>3 DEF CursorOK, w
  <2>. QED
    BY <2>3, <2>5, <2>6, Zenon DEF line, e
<1>6. CASE k >= w
  <2>1. k = w /\ p = Ends(f, w) /\ p \in 0 .. Len(t)
    BY <1>2, <1>3, <1>4, <1>6
  <2>2. /\ line.throws \in BOOLEAN
        /\ line.throws => line.pos = Len(t) /\ \A q \in p .. Len(t) - 1 : At(t, q) # Dash
        /\ ~line.throws => /\ line.pos \in p .. Len(t) /\ RunEnd(t, line.pos, Line)
                           /\ Within(line, Len(t))
    BY <1>1, <2>1, ParseAnything, Zenon DEF line
  <2>3. ASSUME line.throws PROVE NoDash(f, t)
    BY <2>1, <2>2, <2>3 DEF NoDash, w
  <2>4. ASSUME ~line.throws PROVE line.pos = Len(t)
    <3>1. line.pos \in p .. Len(t) /\ (line.pos = Len(t) \/ At(t, line.pos) \notin Line)
      BY <2>2, <2>4 DEF RunEnd
    <3>2. ASSUME line.pos # Len(t) PROVE FALSE
      <4>1. line.pos \in Nat /\ p <= line.pos /\ line.pos < Len(t) /\ At(t, line.pos) \notin Line
        BY <1>2, <3>1, <3>2
      <4>2. At(t, line.pos) \in Line
        BY <1>1, <2>1, <4>1, CutLine DEF w
      <4>. QED
        BY <4>1, <4>2
    <3>. QED
      BY <3>2
  <2>5. line.pos = Len(t)
    BY <2>2, <2>4
  <2>6. NextLine(t, line.pos) = Len(t)
    BY <2>5, NextLineAtEnd
  <2>7. Passed(f, t, k + 1) /\ ~(k + 1 <= w)
    BY <1>2, <2>1 DEF Passed, w
  <2>8. ASSUME ~line.throws
        PROVE  /\ GotOK(f, t, Append(g, e)) /\ Len(Append(g, e)) = k + 1
               /\ CursorOK(f, t, Len(t), k + 1, TRUE) /\ CursorOK(f, t, Len(t), k + 1, FALSE)
    <3>1. Within(e, Len(t))
      <4>1. e.perm = line.perm /\ e.path = line.path /\ Within(line, Len(t))
        BY <2>2, <2>8 DEF e, EntryFrom
      <4>. QED
        BY <4>1, Zenon DEF Within
    <3>2. GotOK(f, t, Append(g, e)) /\ Len(Append(g, e)) = k + 1
      BY <2>7, <3>1, OneMoreGot DEF k, w
    <3>3. CursorOK(f, t, Len(t), k + 1, TRUE) /\ CursorOK(f, t, Len(t), k + 1, FALSE)
      BY <2>1 DEF CursorOK, w
    <3>. QED
      BY <3>2, <3>3
  <2>. QED
    BY <1>2, <2>2, <2>3, <2>5, <2>6, <2>8, Zenon DEF line, e
<1>7. k < w \/ k >= w
  BY <1>2, <1>3
<1>. QED
  BY <1>5, <1>6, <1>7

\* From a loop's body next_line leaves the line that was handed out.
LEMMA LineLeft ==
  ASSUME NEW f, NEW t, NEW b, TextOK(f, t, b), NEW n \in Nat, NEW p \in Nat, CursorOK(f, t, p, n, TRUE)
  PROVE  NextLine(t, p) \in Nat /\ CursorOK(f, t, NextLine(t, p), n, FALSE)
<1> DEFINE w == WholeOf(f, t)
<1>1. IsFile(f) /\ t \in Text /\ Prefix(t, FileText(f))
  BY DEF TextOK
<1>2. w \in 0 .. Len(f) /\ Len(t) \in Nat /\ Len(f) \in Nat
  BY <1>1, WholeIs, FileLaid, LenProperties DEF Text
<1>3. CASE n <= w /\ n >= 1 /\ p + 1 = Ends(f, n)
  <2>1. n \in 1 .. Len(f)
    BY <1>2, <1>3
  <2> DEFINE q == ParseMaps(t, Ends(f, n - 1)).pos
  <2>2. q + 1 = Ends(f, n) /\ NextLine(t, q) = Ends(f, n) /\ Ends(f, n) \in Nat /\ q \in Nat
    BY <1>3, <2>1, EntryParsed
  <2>. HIDE DEF q
  <2>3. p = q
    BY <1>3, <2>2
  <2>. QED
    BY <1>3, <2>2, <2>3 DEF CursorOK
<1>4. CASE n = w + 1 /\ Ends(f, w) < Len(t) /\ p = Len(t)
  BY <1>2, <1>4, NextLineAtEnd DEF CursorOK
<1>. QED
  BY <1>3, <1>4 DEF CursorOK

\* The whole number of lines is the same in terms of the state.
LEMMA WholeNow == /\ Whole = WholeOf(file, text)
                  /\ Rest = SubSeq(text, Ends(file, Whole) + 1, Len(text))
BY Zenon DEF Whole, WholeOf, Rest, Ends

LEMMA EmptyFile == IsFile(<<>>)
<1>1. DOMAIN <<>> = {}
  BY EmptySeq
<1>2. Range(<<>>) = {}
  BY <1>1 DEF Range
<1>3. <<>> \in Seq(Range(<<>>))
  BY EmptySeq
<1>. QED
  BY <1>2, <1>3 DEF IsFile

\* Nothing has been handed out and the cursor is where the text begins.
LEMMA Fresh ==
  ASSUME NEW f, NEW t, NEW b, TextOK(f, t, b)
  PROVE  GotOK(f, t, <<>>) /\ Len(<<>>) = 0 /\ CursorOK(f, t, 0, 0, FALSE)
<1>1. IsFile(f) /\ t \in Text /\ Prefix(t, FileText(f))
  BY DEF TextOK
<1>2. WholeOf(f, t) \in 0 .. Len(f) /\ Ends(f, 0) = 0 /\ Len(f) \in Nat
  BY <1>1, WholeIs, FileLaid
<1>3. 0 <= WholeOf(f, t)
  BY <1>2
<1>4. <<>> \in Seq(Range(<<>>)) /\ Len(<<>>) = 0
  BY EmptySeq
<1>5. \A n \in 1 .. 0 : FALSE
  OBVIOUS
<1>. QED
  BY <1>2, <1>3, <1>4, <1>5 DEF GotOK, CursorOK, Passed

\* load: the buffer has the beginning of the file, and what it had behind that.
LEMMA Loaded ==
  ASSUME NEW f, IsFile(f), NEW n \in 0 .. Len(FileText(f)), NEW b \in Text
  PROVE  LET t == SubSeq(FileText(f), 1, n)
         IN  TextOK(f, t, t \o SubSeq(b, Len(t) + 1, Len(b)))
<1> DEFINE u == FileText(f)
           t == SubSeq(u, 1, n)
           r == SubSeq(b, Len(t) + 1, Len(b))
<1>1. u \in Text /\ Len(u) \in Nat
  BY FileLaid, LenProperties DEF Text
<1>. HIDE DEF u
<1>2. t \in Text /\ Len(t) = n /\ \A i \in 1 .. n : t[i] = u[i]
  BY <1>1 DEF Text, u
<1>3. n <= Len(u) /\ n \in Nat
  BY <1>1 DEF u
<1>. HIDE DEF t
<1>4. r \in Text
  BY <1>2, <1>3 DEF Text
<1>. HIDE DEF r
<1>5. t \o r \in Text /\ Len(t \o r) = Len(t) + Len(r) /\ Len(r) \in Nat
      /\ \A i \in 1 .. Len(t) : (t \o r)[i] = t[i]
  <2>1. t \in Seq(Symbols) /\ r \in Seq(Symbols) /\ Len(r) \in Nat /\ Len(t) \in Nat
    BY <1>2, <1>4, LenProperties DEF Text
  <2>2. t \o r \in Seq(Symbols) /\ Len(t \o r) = Len(t) + Len(r)
    BY <2>1, ConcatProperties
  <2>3. \A i \in 1 .. Len(t) : (t \o r)[i] = t[i]
    BY <2>1
  <2>. QED
    BY <2>1, <2>2, <2>3 DEF Text
<1>6. Prefix(t, u) /\ Prefix(t, t \o r)
  BY <1>2, <1>3, <1>5 DEF Prefix
<1>. QED
  BY <1>2, <1>5, <1>6 DEF TextOK, t, r, u

LEMMA InvInit == Init => IInv
<1>. SUFFICES ASSUME Init PROVE IInv
  OBVIOUS
<1>1. /\ file = <<>> /\ text = <<>> /\ buffer = <<>> /\ pos = 0 /\ got = <<>> /\ step = "idle"
      /\ ended = FALSE /\ loads = 0
  BY DEF Init
<1>2. <<>> \in Text /\ Len(<<>>) = 0
  BY EmptySeq DEF Text
<1>3. Len(FileText(<<>>)) \in Nat
  BY EmptyFile, FileLaid, LenProperties DEF Text
<1>4. TextOK(<<>>, <<>>, <<>>)
  BY <1>2, <1>3, EmptyFile DEF TextOK, Prefix
<1>5. GotOK(<<>>, <<>>, <<>>) /\ CursorOK(<<>>, <<>>, 0, 0, FALSE)
  BY <1>4, Fresh
<1>6. Len(Files) \in Nat
  BY FilesAreMappings, LenProperties
<1>7. loads \in 0 .. Len(Files) /\ pos \in Nat
  BY <1>1, <1>6
<1>8. /\ step \in Steps \cup {"ended"} /\ step # "ended" /\ step # "body" /\ step # "deref" /\ step # "done"
  BY <1>1 DEF Steps
<1>9. CursorOK(file, text, pos, Len(got), step = "body")
  <2>1. (step = "body") = FALSE
    BY <1>8
  <2>. QED
    BY <1>1, <1>2, <1>5, <2>1, Zenon
<1>10. TextOK(file, text, buffer) /\ GotOK(file, text, got)
  BY <1>1, <1>4, <1>5, Zenon
<1>11. file \in (UNION Range(Files)) \cup {<<>>} /\ ended = FALSE
  BY <1>1
<1>. QED
  BY <1>7, <1>8, <1>9, <1>10, <1>11 DEF IInv

LEMMA LoadStep ==
  ASSUME IInv, loads < Len(Files), NEW f \in Files[loads + 1],
         NEW size \in 0 .. Len(FileText(f)), Load(f, size)
  PROVE  IInv'
<1>1. loads \in 0 .. Len(Files) /\ TextOK(file, text, buffer) /\ Len(Files) \in Nat
  BY FilesAreMappings, LenProperties DEF IInv
<1>2. /\ loads' = loads + 1 /\ file' = f /\ text' = SubSeq(FileText(f), 1, size)
      /\ buffer' = text' \o SubSeq(buffer, Len(text') + 1, Len(buffer))
      /\ pos' = 0 /\ got' = <<>> /\ step' = "idle"
      /\ ended' = ended /\ step \in {"idle", "done"}
  BY DEF Load
<1>3. f \in UNION Range(Files)
  <2>1. loads + 1 \in 1 .. Len(Files)
    BY <1>1
  <2>2. Files[loads + 1] \in Range(Files)
    BY <2>1, FilesAreMappings, ElementOfSeq
  <2>. QED
    BY <2>2
<1>4. IsFile(f)
  BY <1>3, FilesAreMappings
<1>5. TextOK(f, text', buffer')
  BY <1>1, <1>2, <1>4, Loaded DEF TextOK
<1>6. GotOK(f, text', <<>>) /\ CursorOK(f, text', 0, 0, FALSE) /\ Len(<<>>) = 0
  BY <1>5, Fresh
<1>7. ~ended
  BY <1>2 DEF IInv
<1>8. loads' \in 0 .. Len(Files)
  BY <1>1, <1>2
<1>9. file' \in (UNION Range(Files)) \cup {<<>>}
  BY <1>2, <1>3
<1>. QED
  BY <1>2, <1>5, <1>6, <1>7, <1>8, <1>9 DEF IInv, Steps

\* A parse, in a loop or by next().
LEMMA Parsed ==
  ASSUME IInv, step # "body", ~ended, pos < Len(text)
  PROVE  LET line == ParseMaps(text, pos)
             h == Append(got, EntryOf(line))
         IN  /\ line.throws \in BOOLEAN /\ line.pos \in Nat /\ NextLine(text, line.pos) \in Nat
             /\ line.throws => /\ NoDash(file, text) /\ line.pos = Len(text)
                               /\ NextLine(text, line.pos) = Len(text)
             /\ ~line.throws => /\ GotOK(file, text, h) /\ CursorOK(file, text, line.pos, Len(h), TRUE)
                                /\ CursorOK(file, text, NextLine(text, line.pos), Len(h), FALSE)
<1>1. TextOK(file, text, buffer) /\ GotOK(file, text, got) /\ pos \in Nat
      /\ CursorOK(file, text, pos, Len(got), FALSE)
  BY DEF IInv
<1>2. \A line : EntryOf(line) = EntryFrom(text, line)
  BY Zenon DEF EntryOf, EntryFrom
<1>. QED
  BY <1>1, <1>2, OneMoreLine, Zenon

LEMMA NextEntryStep == IInv /\ NextEntry => IInv'
<1>. SUFFICES ASSUME IInv, NextEntry PROVE IInv'
  OBVIOUS
<1> DEFINE line == ParseMaps(text, pos)
           h == Append(got, EntryOf(line))
<1>1. /\ step \in {"idle", "done"} /\ pos < Len(text) /\ ended' = line.throws
      /\ got' = IF line.throws THEN got ELSE h
      /\ pos' = NextLine(text, line.pos)
      /\ step' = IF line.throws THEN "ended" ELSE "idle"
      /\ file' = file /\ text' = text /\ buffer' = buffer /\ loads' = loads
  BY Zenon DEF NextEntry
<1>2. ~ended /\ step # "body"
  BY <1>1 DEF IInv
<1>3. /\ line.throws \in BOOLEAN /\ NextLine(text, line.pos) \in Nat
      /\ line.throws => NoDash(file, text) /\ NextLine(text, line.pos) = Len(text)
      /\ ~line.throws => /\ GotOK(file, text, h)
                         /\ CursorOK(file, text, NextLine(text, line.pos), Len(h), FALSE)
  BY <1>1, <1>2, Parsed
<1>. HIDE DEF line, h
<1>4. CASE line.throws
  BY <1>1, <1>3, <1>4 DEF IInv, Steps
<1>5. CASE ~line.throws
  BY <1>1, <1>3, <1>5 DEF IInv, Steps
<1>. QED
  BY <1>4, <1>5

LEMMA LoopStep == IInv /\ (BeginLoop \/ Loop) => IInv'
<1>. SUFFICES ASSUME IInv, BeginLoop \/ Loop PROVE IInv'
  OBVIOUS
<1>1. CASE BeginLoop
  BY <1>1 DEF IInv, BeginLoop, Steps
<1>2. CASE Test
  <2>1. pos \in Nat /\ Len(text) \in Nat
    BY LenProperties DEF IInv, TextOK, Text
  <2>. QED
    BY <1>2, <2>1 DEF IInv, Test, Steps
<1>3. CASE Dereference
  <2> DEFINE line == ParseMaps(text, pos)
             h == Append(got, EntryOf(line))
  <2>1. /\ step = "deref" /\ ended' = line.throws
        /\ got' = IF line.throws THEN got ELSE h
        /\ pos' = line.pos
        /\ step' = IF line.throws THEN "ended" ELSE "body"
        /\ file' = file /\ text' = text /\ buffer' = buffer /\ loads' = loads
    BY <1>3, Zenon DEF Dereference
  <2>2. ~ended /\ step # "body" /\ pos < Len(text)
    BY <2>1 DEF IInv
  <2>3. /\ line.throws \in BOOLEAN /\ line.pos \in Nat
        /\ line.throws => NoDash(file, text) /\ line.pos = Len(text)
        /\ ~line.throws => GotOK(file, text, h) /\ CursorOK(file, text, line.pos, Len(h), TRUE)
    BY <2>2, Parsed
  <2>. HIDE DEF line, h
  <2>4. CASE line.throws
    BY <2>1, <2>3, <2>4 DEF IInv, Steps
  <2>5. CASE ~line.throws
    BY <2>1, <2>3, <2>5 DEF IInv, Steps
  <2>. QED
    BY <2>4, <2>5
<1>4. CASE Increment
  <2>1. /\ step = "body" /\ pos' = NextLine(text, pos) /\ step' = "test"
        /\ file' = file /\ text' = text /\ buffer' = buffer /\ got' = got /\ ended' = ended /\ loads' = loads
    BY <1>4 DEF Increment
  <2>2. /\ TextOK(file, text, buffer) /\ pos \in Nat /\ ~ended /\ Len(got) \in Nat
        /\ CursorOK(file, text, pos, Len(got), TRUE)
    BY <2>1, LenProperties DEF IInv, GotOK
  <2>3. pos' \in Nat /\ CursorOK(file, text, pos', Len(got), FALSE)
    BY <2>1, <2>2, LineLeft
  <2>. QED
    BY <2>1, <2>2, <2>3 DEF IInv, Steps
<1>. QED
  BY <1>1, <1>2, <1>3, <1>4 DEF Loop

LEMMA Inductive == Spec => []IInv
<1>1. IInv /\ [Next]_vars => IInv'
  <2>. SUFFICES ASSUME IInv, [Next]_vars PROVE IInv'
    OBVIOUS
  <2>1. CASE UNCHANGED vars
    BY <2>1 DEF IInv, vars
  <2>2. CASE loads < Len(Files) /\ \E f \in Files[loads + 1] : \E size \in 0 .. Len(FileText(f)) : Load(f, size)
    BY <2>2, LoadStep
  <2>3. CASE NextEntry
    BY <2>3, NextEntryStep
  <2>4. CASE BeginLoop \/ Loop
    BY <2>4, LoopStep
  <2>. QED
    BY <2>1, <2>2, <2>3, <2>4 DEF Next
<1>. QED
  BY <1>1, InvInit, PTL DEF Spec

--------------------------------------------------------------------------------
(* The type of an entry *)

\* The thirteen rules in their order.
LEMMA RulesAre ==
  ASSUME NEW perm, NEW path
  PROVE  LET r == Rules(perm, path)
         IN  /\ DOMAIN r = 1 .. 13
             /\ r[1] = <<Has(path, {"[stack"}), "STACK">>
             /\ r[2] = <<path = <<>> /\ IsData(perm), "ANONYMOUS">>
             /\ r[3] = <<Has(path, {"/dev/ashmem"}), "ASHMEM">>
             /\ r[4] = <<path = <<"[heap]">>, "C_HEAP">>
             /\ r[5] = <<Java(path) /\ IsWritable(perm), "JAVA_HEAP">>
             /\ r[6] = <<Java(path), "JAVA">>
             /\ r[7] = <<IsExecutable(perm) /\ Has(path, {"/system", "/apex"}), "CODE_SYS">>
             /\ r[8] = <<IsExecutable(perm) /\ Has(path, {"/data"}), "CODE_APP">>
             /\ r[9] = <<IsData(perm) /\ Has(path, {":.bss"}), "C_BSS">>
             /\ r[10] = <<IsData(perm) /\ Has(path, {"/data"}), "C_DATA">>
             /\ r[11] = <<IsData(perm) /\ Has(path, {"malloc"}), "C_ALLOC">>
             /\ r[12] = <<Has(path, {"kgsl", "mali", "gpu"}), "VIDEO">>
             /\ r[13] = <<Has(path, {"ppsspp"}), "PPSSPP">>
<1> DEFINE c1 == <<Has(path, {"[stack"}), "STACK">>
           c2 == <<path = <<>> /\ IsData(perm), "ANONYMOUS">>
           c3 == <<Has(path, {"/dev/ashmem"}), "ASHMEM">>
           c4 == <<path = <<"[heap]">>, "C_HEAP">>
           c5 == <<Java(path) /\ IsWritable(perm), "JAVA_HEAP">>
           c6 == <<Java(path), "JAVA">>
           c7 == <<IsExecutable(perm) /\ Has(path, {"/system", "/apex"}), "CODE_SYS">>
           c8 == <<IsExecutable(perm) /\ Has(path, {"/data"}), "CODE_APP">>
           c9 == <<IsData(perm) /\ Has(path, {":.bss"}), "C_BSS">>
           c10 == <<IsData(perm) /\ Has(path, {"/data"}), "C_DATA">>
           c11 == <<IsData(perm) /\ Has(path, {"malloc"}), "C_ALLOC">>
           c12 == <<Has(path, {"kgsl", "mali", "gpu"}), "VIDEO">>
           c13 == <<Has(path, {"ppsspp"}), "PPSSPP">>
           a == <<c1, c2, c3, c4, c5, c6>>
           b == <<c7, c8, c9, c10, c11>>
           c == <<c12, c13>>
           S == {c1, c2, c3, c4, c5, c6, c7, c8, c9, c10, c11, c12, c13}
<1>1. Rules(perm, path) = (a \o b) \o c
  BY Zenon DEF Rules, DataRules
<1>. HIDE DEF c1, c2, c3, c4, c5, c6, c7, c8, c9, c10, c11, c12, c13
<1>2. a \in Seq(S) /\ b \in Seq(S) /\ c \in Seq(S) /\ Len(a) = 6 /\ Len(b) = 5 /\ Len(c) = 2
  OBVIOUS
<1>3. /\ a[1] = c1 /\ a[2] = c2 /\ a[3] = c3 /\ a[4] = c4 /\ a[5] = c5 /\ a[6] = c6
      /\ b[1] = c7 /\ b[2] = c8 /\ b[3] = c9 /\ b[4] = c10 /\ b[5] = c11 /\ c[1] = c12 /\ c[2] = c13
  OBVIOUS
<1>. HIDE DEF a, b, c, S
<1> DEFINE e == a \o b
           r == e \o c
<1>0. \A x, y \in Seq(S) : x \o y \in Seq(S) /\ Len(x \o y) = Len(x) + Len(y)
        /\ \A i \in 1 .. Len(x) + Len(y) : (x \o y)[i] = IF i <= Len(x) THEN x[i] ELSE y[i - Len(x)]
  BY ConcatProperties
<1>4a. e \in Seq(S) /\ Len(e) = Len(a) + Len(b)
        /\ \A i \in 1 .. Len(a) + Len(b) : e[i] = IF i <= Len(a) THEN a[i] ELSE b[i - Len(a)]
  BY <1>0, <1>2, Zenon
<1>. HIDE DEF e
<1>4. /\ e \in Seq(S) /\ Len(e) = 11
      /\ \A i \in 1 .. 11 : e[i] = IF i <= 6 THEN a[i] ELSE b[i - 6]
  BY <1>2, <1>4a
<1>5a. r \in Seq(S) /\ Len(r) = Len(e) + Len(c)
        /\ \A i \in 1 .. Len(e) + Len(c) : r[i] = IF i <= Len(e) THEN e[i] ELSE c[i - Len(e)]
  BY <1>0, <1>2, <1>4, Zenon
<1>. HIDE DEF r
<1>5. /\ r \in Seq(S) /\ Len(r) = 13
      /\ \A i \in 1 .. 13 : r[i] = IF i <= 11 THEN e[i] ELSE c[i - 11]
  BY <1>2, <1>4, <1>5a
<1>6. r[12] = c12 /\ r[13] = c13 /\ (\A i \in 1 .. 11 : r[i] = e[i]) /\ DOMAIN r = 1 .. 13
  <2>1. r[12] = c[1]
    BY <1>5
  <2>2. r[13] = c[2]
    BY <1>5
  <2>3. DOMAIN r = 1 .. 13
    BY <1>5
  <2>4. \A i \in 1 .. 11 : r[i] = e[i]
    BY <1>5
  <2>. QED
    BY <1>3, <2>1, <2>2, <2>3, <2>4
<1>7. /\ e[1] = c1 /\ e[2] = c2 /\ e[3] = c3 /\ e[4] = c4 /\ e[5] = c5 /\ e[6] = c6
      /\ e[7] = c7 /\ e[8] = c8 /\ e[9] = c9 /\ e[10] = c10 /\ e[11] = c11
  <2>1. e[1] = a[1] /\ e[2] = a[2] /\ e[3] = a[3] /\ e[4] = a[4] /\ e[5] = a[5] /\ e[6] = a[6]
    BY <1>4
  <2>2. e[7] = b[1] /\ e[8] = b[2] /\ e[9] = b[3]
    BY <1>4
  <2>3. e[10] = b[4] /\ e[11] = b[5]
    BY <1>4
  <2>. QED
    BY <1>3, <2>1, <2>2, <2>3
<1>8. /\ r[1] = c1 /\ r[2] = c2 /\ r[3] = c3 /\ r[4] = c4 /\ r[5] = c5 /\ r[6] = c6
      /\ r[7] = c7 /\ r[8] = c8 /\ r[9] = c9 /\ r[10] = c10 /\ r[11] = c11
  BY <1>6, <1>7
<1>. QED
  BY <1>1, <1>6, <1>8, Zenon DEF r, e, c1, c2, c3, c4, c5, c6, c7, c8, c9, c10, c11, c12, c13

\* The first rule that holds, if one does.
LEMMA FirstRule ==
  ASSUME NEW size, NEW perm, NEW path, size # 0
  PROVE  LET r == Rules(perm, path)
             type == MemoryTypeOf(size, perm, path)
         IN  \/ type = "OTHER"
             \/ \E m \in 1 .. 13 : r[m][1] /\ type = r[m][2] /\ \A j \in 1 .. m - 1 : ~r[j][1]
<1> DEFINE r == Rules(perm, path)
           holds == {i \in DOMAIN r : r[i][1]}
           type == MemoryTypeOf(size, perm, path)
<1>1. DOMAIN r = 1 .. 13
  BY RulesAre
<1>2. type = CASE size = 0 -> "BAD" [] size # 0 /\ holds = {} -> "OTHER"
               [] size # 0 /\ holds # {} -> r[Min(holds)][2]
  BY Zenon DEF MemoryTypeOf
<1>2a. type = IF holds = {} THEN "OTHER" ELSE r[Min(holds)][2]
  <2>. HIDE DEF r, type, holds
  <2>1. CASE holds = {}
    BY <1>2, <2>1
  <2>2. CASE holds # {}
    BY <1>2, <2>2
  <2>. QED
    BY <2>1, <2>2
<1>. HIDE DEF r, type
<1>3. CASE holds = {}
  <2>. HIDE DEF holds
  <2>. QED
    BY <1>2a, <1>3 DEF type
<1>4. CASE holds # {}
  <2>1. holds \subseteq Nat
    BY <1>1
  <2>2. PICK m \in holds : \A i \in holds : m <= i
    <3>. HIDE DEF holds
    <3>. QED
      BY <1>4, <2>1, Least
  <2>3. Min(holds) = m
    <3>1. holds \subseteq Int
      BY <2>1
    <3>. HIDE DEF holds
    <3>. QED
      BY <2>2, <3>1, MinIs
  <2>4. type = r[m][2]
    <3>. HIDE DEF holds
    <3>. QED
      BY <1>2a, <1>4, <2>3
  <2>5. m \in 1 .. 13 /\ r[m][1] /\ \A j \in 1 .. m - 1 : ~r[j][1]
    BY <1>1, <2>2
  <2>. QED
    BY <2>4, <2>5 DEF r, type
<1>. QED
  BY <1>3, <1>4

LEMMA TypeFits ==
  ASSUME NEW size, NEW perm, NEW path
  PROVE  LET type == MemoryTypeOf(size, perm, path)
         IN  /\ type = "BAD" <=> size = 0
             /\ type \in {"CODE_SYS", "CODE_APP"} => IsExecutable(perm)
             /\ type \in {"ANONYMOUS", "C_BSS", "C_DATA", "C_ALLOC"} => IsData(perm)
             /\ type = "JAVA_HEAP" => IsWritable(perm)
             /\ type = "JAVA" => ~IsWritable(perm)
             /\ path = <<>> => type \in {"BAD", "ANONYMOUS", "OTHER"}
<1> DEFINE type == MemoryTypeOf(size, perm, path)
           r == Rules(perm, path)
<1>1. CASE size = 0
  <2>1. type = "BAD"
    BY <1>1 DEF MemoryTypeOf
  <2>. QED
    BY <1>1, <2>1
<1>2. CASE size # 0
  <2>1. \/ type = "OTHER"
        \/ \E m \in 1 .. 13 : r[m][1] /\ type = r[m][2] /\ \A j \in 1 .. m - 1 : ~r[j][1]
    BY <1>2, FirstRule
  <2>. HIDE DEF type, r
  <2>2. CASE type = "OTHER"
    BY <1>2, <2>2 DEF type
  <2>3. ASSUME NEW m \in 1 .. 13, r[m][1], type = r[m][2], \A j \in 1 .. m - 1 : ~r[j][1]
        PROVE  /\ type # "BAD"
               /\ type \in {"CODE_SYS", "CODE_APP"} => IsExecutable(perm)
               /\ type \in {"ANONYMOUS", "C_BSS", "C_DATA", "C_ALLOC"} => IsData(perm)
               /\ type = "JAVA_HEAP" => IsWritable(perm)
               /\ type = "JAVA" => ~IsWritable(perm)
               /\ path = <<>> => type = "ANONYMOUS"
    <3>1. /\ r[1] = <<Has(path, {"[stack"}), "STACK">>
          /\ r[2] = <<path = <<>> /\ IsData(perm), "ANONYMOUS">>
          /\ r[3] = <<Has(path, {"/dev/ashmem"}), "ASHMEM">>
          /\ r[4] = <<path = <<"[heap]">>, "C_HEAP">>
          /\ r[5] = <<Java(path) /\ IsWritable(perm), "JAVA_HEAP">>
          /\ r[6] = <<Java(path), "JAVA">>
          /\ r[7] = <<IsExecutable(perm) /\ Has(path, {"/system", "/apex"}), "CODE_SYS">>
          /\ r[8] = <<IsExecutable(perm) /\ Has(path, {"/data"}), "CODE_APP">>
          /\ r[9] = <<IsData(perm) /\ Has(path, {":.bss"}), "C_BSS">>
          /\ r[10] = <<IsData(perm) /\ Has(path, {"/data"}), "C_DATA">>
          /\ r[11] = <<IsData(perm) /\ Has(path, {"malloc"}), "C_ALLOC">>
          /\ r[12] = <<Has(path, {"kgsl", "mali", "gpu"}), "VIDEO">>
          /\ r[13] = <<Has(path, {"ppsspp"}), "PPSSPP">>
      BY RulesAre DEF r
    <3>2. path = <<>> => (\A w : ~Has(path, w)) /\ ~Java(path) /\ path # <<"[heap]">>
      <4>1. path = <<>> => \A w : ~Has(path, w)
        BY EmptySeq DEF Has
      <4>. QED
        BY <4>1 DEF Java
    <3>3. m \in {1, 2, 3, 4, 5, 6, 7, 8, 9, 10, 11, 12, 13}
      OBVIOUS
    <3>4. CASE m = 1
      BY <2>3, <3>1, <3>2, <3>4
    <3>5. CASE m = 2
      <4>1. r[2][1] /\ type = r[2][2]
        BY <2>3, <3>5
      <4>2. r[2][1] = (path = <<>> /\ IsData(perm)) /\ r[2][2] = "ANONYMOUS"
        BY <3>1
      <4>. QED
        BY <3>2, <4>1, <4>2
    <3>6. CASE m = 3
      BY <2>3, <3>1, <3>2, <3>6
    <3>7. CASE m = 4
      <4>1. r[4][1] /\ type = r[4][2]
        BY <2>3, <3>7
      <4>2. r[4][1] = (path = <<"[heap]">>) /\ r[4][2] = "C_HEAP"
        BY <3>1
      <4>. QED
        BY <3>2, <4>1, <4>2
    <3>8. CASE m = 5
      BY <2>3, <3>1, <3>2, <3>8
    <3>9. CASE m = 6
      <4>1. ~r[5][1]
        BY <2>3, <3>9
      <4>2. r[6][1] /\ type = r[6][2]
        BY <2>3, <3>9
      <4>3. r[6][1] = Java(path) /\ r[6][2] = "JAVA" /\ r[5][1] = (Java(path) /\ IsWritable(perm))
        BY <3>1
      <4>. QED
        BY <3>2, <4>1, <4>2, <4>3
    <3>10. CASE m = 7
      BY <2>3, <3>1, <3>2, <3>10
    <3>11. CASE m = 8
      BY <2>3, <3>1, <3>2, <3>11
    <3>12. CASE m = 9
      BY <2>3, <3>1, <3>2, <3>12
    <3>13. CASE m = 10
      BY <2>3, <3>1, <3>2, <3>13
    <3>14. CASE m = 11
      BY <2>3, <3>1, <3>2, <3>14
    <3>15. CASE m = 12
      BY <2>3, <3>1, <3>2, <3>15
    <3>16. CASE m = 13
      BY <2>3, <3>1, <3>2, <3>16
    <3>. QED
      BY <3>3, <3>4, <3>5, <3>6, <3>7, <3>8, <3>9, <3>10, <3>11, <3>12, <3>13, <3>14, <3>15, <3>16
  <2>. QED
    BY <1>2, <2>1, <2>2, <2>3 DEF type
<1>. QED
  BY <1>1, <1>2

--------------------------------------------------------------------------------
(* The theorems *)

\* What the invariant says of the text, and of the rest behind its whole lines.
LEMMA TextNow ==
  ASSUME IInv
  PROVE  /\ IsFile(file) /\ text \in Text /\ buffer \in Text /\ Prefix(text, FileText(file))
         /\ Len(text) \in Nat /\ Len(file) \in Nat /\ Len(got) \in Nat
         /\ Whole \in 0 .. Len(file) /\ Ends(file, Whole) \in 0 .. Len(text)
         /\ DOMAIN Rest = 1 .. Len(text) - Ends(file, Whole)
         /\ \A i \in DOMAIN Rest : Rest[i] = At(text, Ends(file, Whole) + i - 1)
         /\ Rest = <<>> <=> Ends(file, Whole) = Len(text)
<1>1. TextOK(file, text, buffer) /\ GotOK(file, text, got)
  BY DEF IInv
<1>2. IsFile(file) /\ text \in Text /\ Prefix(text, FileText(file)) /\ buffer \in Text
  BY <1>1 DEF TextOK
<1>3. Len(text) \in Nat /\ Len(file) \in Nat /\ Len(got) \in Nat
  BY <1>1, <1>2, FileLaid, LenProperties DEF Text, GotOK
<1>4. Whole \in 0 .. Len(file) /\ \A n \in 0 .. Len(file) : n <= Whole <=> Ends(file, n) <= Len(text)
  BY <1>2, WholeIs, WholeNow
<1> DEFINE e == Ends(file, Whole)
<1>5. e \in 0 .. Len(text)
  <2>1. e \in Nat
    BY <1>2, <1>4, EndsGrow
  <2>2. Whole <= Whole
    BY <1>3, <1>4
  <2>3. e <= Len(text)
    BY <1>4, <2>2
  <2>. QED
    BY <1>3, <2>1, <2>3
<1>6. Rest = SubSeq(text, e + 1, Len(text))
  BY WholeNow
<1>. HIDE DEF e
<1>7. /\ Rest \in Seq(Symbols) /\ Len(Rest) = Len(text) - e
      /\ \A i \in 1 .. Len(text) - e : Rest[i] = text[e + i]
  <2>1. \A i \in e + 1 .. Len(text) : text[i] \in Symbols
    BY <1>2, <1>3, <1>5 DEF Text
  <2>2. e + 1 \in Int /\ Len(text) \in Int
    BY <1>3, <1>5
  <2>3. /\ Rest \in Seq(Symbols) /\ Len(Rest) = IF e + 1 <= Len(text) THEN Len(text) - (e + 1) + 1 ELSE 0
        /\ \A i \in 1 .. Len(text) - (e + 1) + 1 : Rest[i] = text[e + 1 + i - 1]
    BY <1>6, <2>1, <2>2, SubSeqProperties
  <2>. QED
    BY <1>3, <1>5, <2>3
<1>8. DOMAIN Rest = 1 .. Len(text) - e
  BY <1>7
<1>9. \A i \in DOMAIN Rest : Rest[i] = At(text, e + i - 1)
  BY <1>3, <1>5, <1>7, <1>8 DEF At
<1>10. Rest = <<>> <=> e = Len(text)
  <2>1. Rest = <<>> <=> Len(Rest) = 0
    BY <1>7, EmptySeq
  <2>. QED
    BY <1>3, <1>5, <1>7, <2>1
<1>. QED
  BY <1>2, <1>3, <1>4, <1>5, <1>8, <1>9, <1>10 DEF e

\* For all files and wherever the buffer cuts their text, the n-th entry that is
\* handed out is the n-th line, field by field, and at most one more is, of the
\* line that was cut (maps_impl, parse_maps::parse_line, parse_base::next_line).
THEOREM WholeLinesHandedOut == Spec => []EntriesAreLines
<1>1. IInv => EntriesAreLines
  <2>. SUFFICES ASSUME IInv PROVE EntriesAreLines
    OBVIOUS
  <2>1. TextOK(file, text, buffer) /\ GotOK(file, text, got)
    BY DEF IInv
  <2>2. TypeOK
    <3>1. Range(text) \cup Range(buffer) \subseteq Symbols
      BY TextNow DEF Text, Range
    <3>. QED
      BY <3>1 DEF IInv, TypeOK
  <2>3. ASSUME NEW n \in 1 .. Len(got), n <= Whole PROVE Reads(got[n]) = Fields(file[n])
    <3>1. n \in 1 .. Len(file)
      BY <2>3, TextNow
    <3>2. got[n] = EntryAt(file, n)
      BY <2>1, <2>3, WholeNow DEF GotOK
    <3>3. ReadsAs(buffer, EntryAt(file, n), file[n])
      <4>1. n <= WholeOf(file, text)
        BY <2>3, WholeNow
      <4>. QED
        BY <2>1, <3>1, <4>1, EntryParsed
    <3>4. EntryAt(file, n).start = file[n].start /\ EntryAt(file, n).end = file[n].end
      BY DEF EntryAt
    <3>. QED
      BY <3>2, <3>3, <3>4, Zenon DEF Reads, Fields, ReadsAs
  <2>4. Len(got) <= Whole + IF Rest = <<>> THEN 0 ELSE 1
    <3>1. \/ Len(got) <= Whole
          \/ Len(got) = Whole + 1 /\ Ends(file, Whole) < Len(text)
      BY <2>1, WholeNow DEF GotOK, Passed
    <3>2. /\ Len(got) \in Nat /\ Whole \in Nat /\ Len(text) \in Nat
          /\ Rest = <<>> => Ends(file, Whole) = Len(text)
      BY TextNow
    <3>. QED
      BY <3>1, <3>2
  <2>. QED
    BY <2>2, <2>3, <2>4 DEF EntriesAreLines
<1>. QED
  BY <1>1, Inductive, PTL

\* For all files and cuts, a loop that has come to its end has handed out every
\* line that lies whole in the text (basic_maps_iterator's operator==, which asks
\* empty()).
THEOREM LoopsMissNone == Spec => []NoLineMissed
<1>1. IInv => NoLineMissed
  <2>. SUFFICES ASSUME IInv, step = "done", ~(Len(got) >= Whole) PROVE FALSE
    BY DEF NoLineMissed
  <2>1. /\ TextOK(file, text, buffer) /\ pos >= Len(text) /\ CursorOK(file, text, pos, Len(got), FALSE)
    BY DEF IInv
  <2>2. /\ Len(text) \in Nat /\ Len(got) \in Nat /\ Whole \in 0 .. Len(file) /\ Len(file) \in Nat
    BY TextNow
  <2> DEFINE n == Len(got) + 1
  <2>3. n \in 1 .. Len(file) /\ n <= Whole /\ n - 1 = Len(got)
    BY <2>2
  <2>4. pos = Ends(file, n - 1)
    BY <2>1, <2>2, <2>3, WholeNow DEF CursorOK
  <2>. HIDE DEF n
  <2>5. Ends(file, n - 1) < Len(text)
    BY <2>1, <2>3, WholeNow, EntryParsed
  <2>6. pos \in Nat
    BY DEF IInv
  <2>. QED
    BY <2>1, <2>2, <2>4, <2>5, <2>6
<1>. QED
  BY <1>1, Inductive, PTL

\* For all files and cuts, the cursor stays in the text and a parse throws only
\* where the text was cut before the dash of a range (parse_base::next_token,
\* whose substr throws beyond the end).
THEOREM CursorStays == Spec => []CursorInText
<1>1. IInv => CursorInText
  <2>. SUFFICES ASSUME IInv PROVE CursorInText
    OBVIOUS
  <2>1. TextOK(file, text, buffer) /\ pos \in Nat /\ Len(text) \in Nat
    BY TextNow DEF IInv
  <2>2. ASSUME ended PROVE CutInStart
    <3>1. NoDash(file, text)
      BY <2>2 DEF IInv
    <3> DEFINE e == Ends(file, Whole)
    <3>2. e < Len(text) /\ \A q \in e .. Len(text) - 1 : At(text, q) # Dash
      BY <3>1, WholeNow DEF NoDash
    <3>3. /\ e \in 0 .. Len(text) /\ DOMAIN Rest = 1 .. Len(text) - e
          /\ (\A i \in DOMAIN Rest : Rest[i] = At(text, e + i - 1)) /\ (Rest = <<>> <=> e = Len(text))
      BY TextNow
    <3>. HIDE DEF e
    <3>4. ASSUME NEW i \in DOMAIN Rest PROVE Rest[i] # Dash
      <4>1. e + i - 1 \in e .. Len(text) - 1
        BY <2>1, <3>3
      <4>. QED
        BY <3>2, <3>3, <4>1
    <3>5. Rest # <<>>
      BY <2>1, <3>2, <3>3
    <3>. QED
      BY <3>4, <3>5 DEF CutInStart
  <2>3. ASSUME ~ended PROVE pos <= Len(text)
    <3>1. CursorOK(file, text, pos, Len(got), step = "body")
      BY <2>3 DEF IInv
    <3>2. CASE pos = Len(text)
      BY <2>1, <3>2
    <3>3. ASSUME Len(got) <= Whole, pos = Ends(file, Len(got)) \/ pos + 1 = Ends(file, Len(got))
          PROVE  pos <= Len(text)
      <4>1. Len(got) \in 0 .. Len(file)
        BY <3>3, TextNow
      <4>2. Ends(file, Len(got)) <= Len(text)
        BY <3>3, <4>1, TextNow, WholeIs, WholeNow
      <4>. QED
        BY <2>1, <3>3, <4>2
    <3>. QED
      BY <3>1, <3>2, <3>3, WholeNow DEF CursorOK
  <2>4. pos > Len(text) => ended
    BY <2>1, <2>3 DEF IInv
  <2>. QED
    BY <2>2, <2>4 DEF CursorInText
<1>. QED
  BY <1>1, Inductive, PTL

\* For all files and cuts, the type given to an entry agrees with the permissions
\* of its line, and a line cut in its permissions is never taken for code, for a
\* heap or for the data of a library, whatever earlier loads have left behind
\* it (memory_type_parse).
THEOREM TypesAgree == Spec => []TypesFitLines
<1>1. IInv => TypesFitLines
  <2>. SUFFICES ASSUME IInv, NEW n \in DOMAIN got, NEW b \in Behind(got[n])
                PROVE LET type == ToMemoryType(got[n], b)
                          size == got[n].perm.to - got[n].perm.from
                      IN  /\ n <= Whole =>
                               /\ type \in {"CODE_SYS", "CODE_APP"} => IsExecutable(file[n].perm)
                               /\ type \in {"ANONYMOUS", "C_BSS", "C_DATA", "C_ALLOC"} => IsData(file[n].perm)
                               /\ type = "JAVA_HEAP" => IsWritable(file[n].perm)
                               /\ type = "JAVA" => ~IsWritable(file[n].perm)
                               /\ type # "BAD"
                          /\ n > Whole /\ size < PermSize =>
                               /\ type = "BAD" <=> size = 0
                               /\ type \in {"BAD", "ANONYMOUS", "OTHER"}
    BY Zenon DEF TypesFitLines
  <2>1. TextOK(file, text, buffer) /\ GotOK(file, text, got)
    BY DEF IInv
  <2>2. n \in 1 .. Len(got) /\ Whole \in 0 .. Len(file) /\ Len(file) \in Nat /\ Len(got) \in Nat
    BY <2>1, TextNow, LenProperties DEF GotOK
  <2> DEFINE type == ToMemoryType(got[n], b)
             size == got[n].perm.to - got[n].perm.from
             seen == Seen(got[n], b)
             path == Piece(buffer, got[n].path)
  <2>3. type = MemoryTypeOf(size, seen, path)
    BY Zenon DEF ToMemoryType
  <2>4. CASE n <= Whole
    <3> DEFINE e == EntryAt(file, n)
               perm == file[n].perm
    <3>1. n \in 1 .. Len(file)
      BY <2>2, <2>4
    <3>2. got[n] = e
      BY <2>1, <2>2, <2>4, WholeNow DEF GotOK
    <3>3. /\ e.perm.from \in Nat /\ e.perm.to = e.perm.from + PermSize /\ e.perm.to <= Len(buffer)
          /\ Lies(buffer, e.perm.from, perm)
      BY <2>1, <2>4, <3>1, WholeNow, EntryParsed
    <3>4. Len(perm) = PermSize
      <4>1. IsMapping(file[n])
        BY <3>1, TextNow, FileLaid DEF LineLaid
      <4>. QED
        BY <4>1, ColumnsAre
    <3>. HIDE DEF e, perm
    <3> DEFINE m == e.perm.from
    <3>5. Len(buffer) \in Nat /\ m \in Nat /\ m + 4 <= Len(buffer)
      BY <3>3, TextNow, LenProperties DEF Text, PermSize
    <3>6. \A i \in 1 .. 4 : buffer[m + i] = perm[i]
      BY <3>3, <3>4 DEF Lies, PermSize
    <3>7. seen = [i \in 1 .. 4 |-> IF m + i <= Len(buffer) THEN At(buffer, m + i - 1) ELSE b[i]]
      BY <3>2, Zenon DEF Seen, PermSize
    <3>. HIDE DEF m, seen
    <3>8. \A i \in 1 .. 4 : seen[i] = perm[i]
      <4>1. ASSUME NEW i \in 1 .. 4 PROVE seen[i] = perm[i]
        <5>1. m + i <= Len(buffer) /\ m + i - 1 + 1 = m + i
          BY <3>5
        <5>2. seen[i] = buffer[m + i]
          BY <3>7, <5>1 DEF At
        <5>. QED
          BY <3>6, <5>2
      <4>. QED
        BY <4>1
    <3>9. seen[1] = perm[1] /\ seen[2] = perm[2] /\ seen[3] = perm[3]
      BY <3>8
    <3>10. /\ IsExecutable(seen) <=> IsExecutable(perm)
           /\ IsWritable(seen) <=> IsWritable(perm)
           /\ IsData(seen) <=> IsData(perm)
      BY <3>9 DEF IsExecutable, IsWritable, IsData, IsReadable
    <3>11. size # 0
      BY <3>2, <3>3 DEF PermSize
    <3>12. /\ type = "BAD" <=> size = 0
           /\ type \in {"CODE_SYS", "CODE_APP"} => IsExecutable(seen)
           /\ type \in {"ANONYMOUS", "C_BSS", "C_DATA", "C_ALLOC"} => IsData(seen)
           /\ type = "JAVA_HEAP" => IsWritable(seen)
           /\ type = "JAVA" => ~IsWritable(seen)
      BY <2>3, TypeFits
    <3>. HIDE DEF type, size
    <3>13. ~(n > Whole)
      BY <2>2, <2>4
    <3>. QED
      BY <3>10, <3>11, <3>12, <3>13 DEF type, size, perm
  <2>5. CASE n > Whole
    <3>1. Within(got[n], Len(text))
      <4>1. ~(n <= Whole)
        BY <2>2, <2>5
      <4>. QED
        BY <2>1, <2>2, <4>1, WholeNow DEF GotOK
    <3>2. ASSUME size < PermSize PROVE path = <<>>
      <4>1. got[n].path.from = got[n].path.to /\ got[n].path.from \in Nat
        <5> DEFINE from == got[n].perm.from
                   to == got[n].perm.to
        <5>1. from \in 0 .. Len(text) /\ to \in 0 .. Len(text) /\ Len(text) \in Nat
          BY <3>1, TextNow DEF Within
        <5>2. to - from < PermSize
          BY <3>2
        <5>3. to < from + PermSize => got[n].path.from = got[n].path.to
          BY <3>1 DEF Within
        <5>4. got[n].path.from \in Nat
          BY <3>1, <5>1 DEF Within
        <5>. HIDE DEF from, to
        <5>. QED
          BY <5>1, <5>2, <5>3, <5>4 DEF PermSize
      <4>2. got[n].path.from + 1 \in Int /\ got[n].path.to \in Int /\ got[n].path.to < got[n].path.from + 1
        BY <4>1
      <4>. QED
        BY <4>2, SubSeqEmpty DEF Piece
    <3>3. /\ type = "BAD" <=> size = 0
          /\ path = <<>> => type \in {"BAD", "ANONYMOUS", "OTHER"}
      BY <2>3, TypeFits
    <3>. HIDE DEF type, size, path
    <3>4. ~(n <= Whole)
      BY <2>2, <2>5
    <3>. QED
      BY <3>2, <3>3, <3>4 DEF type, size
  <2>. QED
    BY <2>2, <2>4, <2>5
<1>. QED
  BY <1>1, Inductive, PTL

--------------------------------------------------------------------------------
(* Recursion towards the end of a text *)

\* From every place but those in Z an item is read, and the place behind it is next.
Forward(S, d, Z, c, N) == d \in Z /\ \A p \in 0 .. d : p \notin Z => c[p] \in S /\ N[p] \in p + 1 .. d

\* g[p] are the items that are read from p on.
Chain(S, d, Z, c, N, g) ==
    /\ g \in [0 .. d -> Seq(S)]
    /\ \A p \in 0 .. d : g[p] = IF p \in Z THEN <<>> ELSE <<c[p]>> \o g[N[p]]

Follows(d, Z, c, N, f) == f = [p \in 0 .. d |-> IF p \in Z THEN <<>> ELSE <<c[p]>> \o f[N[p]]]

\* Such a recursion has a value: it is built up from the end.
LEMMA ChainExists ==
  ASSUME NEW S, NEW d \in Nat, NEW Z, NEW c, NEW N, Forward(S, d, Z, c, N)
  PROVE  \E g : Chain(S, d, Z, c, N, g)
<1> DEFINE V == [0 .. d -> Seq(S)]
           At2(p, x) == IF p \in Z THEN <<>> ELSE <<c[p]>> \o x[N[p]]
           F == [z \in (1 .. d) \X V |-> [p \in 0 .. d |-> IF p = d - z[1] THEN At2(p, z[2]) ELSE z[2][p]]]
           v == [p \in 0 .. d |-> <<>>]
<1>1. v \in V
  BY EmptySeq
<1>2. ASSUME NEW p \in 0 .. d, NEW x \in V PROVE At2(p, x) \in Seq(S)
  <2>1. CASE p \in Z
    BY <2>1, EmptySeq
  <2>2. CASE p \notin Z
    <3>1. c[p] \in S /\ N[p] \in 0 .. d
      BY <2>2 DEF Forward
    <3>2. x[N[p]] \in Seq(S) /\ <<c[p]>> \in Seq(S)
      BY <3>1
    <3>3. <<c[p]>> \o x[N[p]] \in Seq(S)
      BY <3>2, ConcatProperties
    <3>. QED
      BY <2>2, <3>3
  <2>. QED
    BY <2>1, <2>2
<1>3. ASSUME NEW n \in 1 .. d, NEW x \in V
      PROVE  /\ F[<<n, x>>] = [p \in 0 .. d |-> IF p = d - n THEN At2(p, x) ELSE x[p]]
             /\ F[<<n, x>>] \in V
  <2>1. F[<<n, x>>] = [p \in 0 .. d |-> IF p = d - n THEN At2(p, x) ELSE x[p]]
    <3>. HIDE DEF At2, V
    <3>. QED
      OBVIOUS
  <2>2. \A p \in 0 .. d : (IF p = d - n THEN At2(p, x) ELSE x[p]) \in Seq(S)
    <3>1. \A p \in 0 .. d : At2(p, x) \in Seq(S) /\ x[p] \in Seq(S)
      BY <1>2
    <3>. HIDE DEF At2
    <3>. QED
      BY <3>1
  <2>3. [p \in 0 .. d |-> IF p = d - n THEN At2(p, x) ELSE x[p]] \in V
    <3>. HIDE DEF At2
    <3>. QED
      BY <2>2
  <2>. QED
    BY <2>1, <2>3, Zenon
<1>4. PICK h : Defines(h, V, v, d, F)
  <2>1. \A n \in 1 .. d : \A x \in V : F[<<n, x>>] \in V
    BY <1>3
  <2>. HIDE DEF F, V, v
  <2>. QED
    BY <1>1, <2>1, Recursion
<1>5. h \in [0 .. d -> V] /\ h[0] = v /\ \A n \in 1 .. d : h[n] = F[<<n, h[n - 1]>>]
  BY <1>4, Zenon DEF Defines
<1>. HIDE DEF F, v
<1>6. \A n \in 0 .. d : h[n] \in V
  <2>. HIDE DEF V
  <2>. QED
    BY <1>5
<1>7. ASSUME NEW n \in 1 .. d, NEW p \in 0 .. d
      PROVE  /\ p = d - n => h[n][p] = At2(p, h[n - 1])
             /\ p # d - n => h[n][p] = h[n - 1][p]
  <2>1. n - 1 \in 0 .. d
    OBVIOUS
  <2>2. h[n - 1] \in V
    BY <1>6, <2>1
  <2>3. h[n] = [q \in 0 .. d |-> IF q = d - n THEN At2(q, h[n - 1]) ELSE h[n - 1][q]]
    BY <1>3, <1>5, <2>2, Zenon
  <2>. HIDE DEF At2, V
  <2>. QED
    BY <2>3
<1> DEFINE T == {n \in 0 .. d : \A p \in d - n .. d : h[n][p] = At2(p, h[n])}
<1>8. 0 \in T
  <2>1. \A p \in d - 0 .. d : p = d
    OBVIOUS
  <2>2. d \in Z
    BY DEF Forward
  <2>3. h[0][d] = <<>>
    BY <1>5 DEF v
  <2>. QED
    BY <2>1, <2>2, <2>3
<1>9. ASSUME NEW n \in 1 .. d, n - 1 \in T PROVE n \in T
  <2>1. \A p \in d - (n - 1) .. d : h[n - 1][p] = At2(p, h[n - 1])
    BY <1>9
  <2>2. ASSUME NEW p \in d - n .. d PROVE h[n][p] = At2(p, h[n])
    <3>1. p \in 0 .. d
      OBVIOUS
    <3>2. h[n][p] = At2(p, h[n - 1])
      <4>1. CASE p = d - n
        BY <1>7, <3>1, <4>1
      <4>2. CASE p # d - n
        <5>1. p \in d - (n - 1) .. d
          BY <4>2
        <5>2. h[n - 1][p] = At2(p, h[n - 1])
          BY <2>1, <5>1
        <5>3. h[n][p] = h[n - 1][p]
          BY <1>7, <3>1, <4>2
        <5>. QED
          BY <5>2, <5>3, Zenon
      <4>. QED
        BY <4>1, <4>2
    <3>3. ASSUME p \notin Z PROVE h[n][N[p]] = h[n - 1][N[p]]
      <4>1. N[p] \in p + 1 .. d
        BY <3>1, <3>3 DEF Forward
      <4>2. N[p] \in 0 .. d /\ N[p] # d - n
        BY <4>1
      <4>. QED
        BY <1>7, <4>2
    <3>. QED
      BY <3>2, <3>3, Zenon
  <2>. QED
    BY <2>2
<1>10. d \in T
  <2>. HIDE DEF T
  <2>1. \A n \in 1 .. d : n - 1 \in T => n \in T
    BY <1>9
  <2>2. \A n \in 0 .. d : n \in T
    BY <1>8, <2>1, UpTo, Zenon
  <2>. QED
    BY <2>2
<1>11. \A p \in 0 .. d : h[d][p] = At2(p, h[d])
  <2>1. d - d = 0
    OBVIOUS
  <2>. HIDE DEF At2
  <2>. QED
    BY <1>10, <2>1
<1>12. h[d] \in V
  BY <1>6
<1>13. Chain(S, d, Z, c, N, h[d])
  BY <1>11, <1>12 DEF Chain
<1>. QED
  BY <1>13

\* There is one such function only.
LEMMA ChainOne ==
  ASSUME NEW S, NEW d \in Nat, NEW Z, NEW c, NEW N, Forward(S, d, Z, c, N),
         NEW g, Chain(S, d, Z, c, N, g),
         NEW f, Follows(d, Z, c, N, f)
  PROVE  f = g
<1>1. g \in [0 .. d -> Seq(S)] /\ \A p \in 0 .. d : g[p] = IF p \in Z THEN <<>> ELSE <<c[p]>> \o g[N[p]]
  BY DEF Chain
<1>0. f = [p \in 0 .. d |-> IF p \in Z THEN <<>> ELSE <<c[p]>> \o f[N[p]]]
  BY DEF Follows
<1>2. \A p \in 0 .. d : f[p] = IF p \in Z THEN <<>> ELSE <<c[p]>> \o f[N[p]]
  <2> DEFINE b == [p \in 0 .. d |-> IF p \in Z THEN <<>> ELSE <<c[p]>> \o f[N[p]]]
  <2>1. \A p \in 0 .. d : b[p] = IF p \in Z THEN <<>> ELSE <<c[p]>> \o f[N[p]]
    OBVIOUS
  <2>2. f = b
    BY <1>0, Zenon
  <2>. HIDE DEF b
  <2>. QED
    BY <2>1, <2>2, Zenon
<1> DEFINE T == {n \in 0 .. d : \A p \in d - n .. d : f[p] = g[p]}
<1>3. 0 \in T
  <2>1. \A p \in d - 0 .. d : p = d /\ p \in 0 .. d
    OBVIOUS
  <2>2. d \in Z
    BY DEF Forward
  <2>3. d \in 0 .. d /\ 0 \in 0 .. d
    OBVIOUS
  <2>4. f[d] = g[d]
    BY <1>1, <1>2, <2>2, <2>3, Zenon
  <2>. QED
    BY <2>1, <2>3, <2>4
<1>4. ASSUME NEW n \in 1 .. d, n - 1 \in T PROVE n \in T
  <2>1. \A p \in d - (n - 1) .. d : f[p] = g[p]
    BY <1>4
  <2>2. ASSUME NEW p \in d - n .. d PROVE f[p] = g[p]
    <3>1. p \in 0 .. d
      OBVIOUS
    <3>2. CASE p \in Z
      BY <1>1, <1>2, <3>1, <3>2
    <3>3. CASE p \notin Z
      <4>1. N[p] \in p + 1 .. d
        BY <3>1, <3>3 DEF Forward
      <4>2. N[p] \in d - (n - 1) .. d
        BY <4>1
      <4>3. f[N[p]] = g[N[p]]
        BY <2>1, <4>2
      <4>. QED
        BY <1>1, <1>2, <3>1, <3>3, <4>3, Zenon
    <3>. QED
      BY <3>2, <3>3
  <2>3. \A p \in d - n .. d : f[p] = g[p]
    BY <2>2, Zenon
  <2>4. n \in 0 .. d
    OBVIOUS
  <2>. QED
    BY <2>3, <2>4, Zenon
<1>5. d \in T
  <2>. HIDE DEF T
  <2>1. \A n \in 1 .. d : n - 1 \in T => n \in T
    BY <1>4
  <2>2. \A n \in 0 .. d : n \in T
    BY <1>3, <2>1, UpTo, Zenon
  <2>. QED
    BY <2>2
<1>6. \A p \in 0 .. d : f[p] = g[p]
  <2>1. d - d = 0
    OBVIOUS
  <2>. QED
    BY <1>5, <2>1
<1>7. f = [p \in 0 .. d |-> f[p]] /\ g = [p \in 0 .. d |-> g[p]]
  <2> DEFINE b == [p \in 0 .. d |-> IF p \in Z THEN <<>> ELSE <<c[p]>> \o f[N[p]]]
  <2>1. b = [p \in 0 .. d |-> b[p]]
    OBVIOUS
  <2>2. f = b
    BY <1>0, Zenon
  <2>. HIDE DEF b
  <2>3. f = [p \in 0 .. d |-> f[p]]
    BY <2>1, <2>2, Zenon
  <2>4. g = [p \in 0 .. d |-> g[p]]
    BY <1>1
  <2>. QED
    BY <2>3, <2>4
<1>. QED
  BY <1>6, <1>7

--------------------------------------------------------------------------------
(* The lines of a status file *)

Spans == [from : Nat, to : Nat]
AtLineEnd(t, q) == q = Len(t) \/ At(t, q) = NewLine

\* A token that does not begin at the end of a line ends behind its beginning.
LEMMA TokenMoves ==
  ASSUME NEW t \in Text, NEW q \in 0 .. Len(t), ~AtLineEnd(t, q)
  PROVE  LET k == NextToken(t, q, Word)
         IN  k \in Spans /\ k.to \in q + 1 .. Len(t)
<1> DEFINE k == NextToken(t, q, Word)
<1>1. /\ k.from \in q .. Len(t) /\ k.to \in k.from .. Len(t)
      /\ RunEnd(t, k.from, {Blank}) /\ RunEnd(t, k.to, Word)
      /\ k = [from |-> k.from, to |-> k.to]
  BY TokenRuns
<1>2. Len(t) \in Nat
  BY LenProperties DEF Text
<1>3. q < Len(t) /\ At(t, q) # NewLine /\ At(t, q) \in Symbols
  BY <1>2 DEF AtLineEnd, At, Text
<1>. HIDE DEF k
<1>4. k.from \in Nat /\ k.to \in Nat /\ k.from >= q /\ k.to >= k.from /\ k.to <= Len(t)
  BY <1>1, <1>2
<1>5. k \in Spans
  BY <1>1, <1>4 DEF Spans
<1>6. k.to # q
  <2>1. CASE At(t, q) = Blank
    <3>1. k.from # q
      BY <1>1, <1>3, <2>1 DEF RunEnd
    <3>. QED
      BY <1>4, <3>1
  <2>2. CASE At(t, q) # Blank
    <3>1. At(t, q) \in Word
      BY <1>3, <2>2 DEF Word
    <3>. QED
      BY <1>1, <1>3, <3>1 DEF RunEnd
  <2>. QED
    BY <2>1, <2>2
<1>7. k.to \in q + 1 .. Len(t)
  BY <1>2, <1>4, <1>6
<1>. QED
  BY <1>5, <1>7 DEF k

\* What a function of places must be to give the tokens of the rest of the line.
TokensAre(t, g) ==
    /\ g \in [0 .. Len(t) -> Seq(Spans)]
    /\ \A q \in 0 .. Len(t) : TokensFrom(t, q) = g[q]
    /\ \A q \in 0 .. Len(t) : AtLineEnd(t, q) => g[q] = <<>>
    /\ \A q \in 0 .. Len(t) : ~AtLineEnd(t, q) =>
          g[q] = <<NextToken(t, q, Word)>> \o g[NextToken(t, q, Word).to]

\* So the tokens behind a place are a recursive function of it.
LEMMA TokensChain ==
  ASSUME NEW t \in Text
  PROVE  \E g : TokensAre(t, g)
<1> DEFINE d == Len(t)
           Z == {q \in 0 .. d : AtLineEnd(t, q)}
           c == [q \in 0 .. d |-> NextToken(t, q, Word)]
           N == [q \in 0 .. d |-> NextToken(t, q, Word).to]
<1>1. d \in Nat
  BY LenProperties DEF Text
<1>2. Forward(Spans, d, Z, c, N)
  <2>1. d \in Z
    BY <1>1 DEF AtLineEnd
  <2>2. ASSUME NEW q \in 0 .. d PROVE q \notin Z => c[q] \in Spans /\ N[q] \in q + 1 .. d
    <3>1. ~AtLineEnd(t, q) => NextToken(t, q, Word) \in Spans /\ NextToken(t, q, Word).to \in q + 1 .. Len(t)
      BY TokenMoves
    <3>2. q \in Z <=> AtLineEnd(t, q)
      OBVIOUS
    <3>3. c[q] = NextToken(t, q, Word) /\ N[q] = NextToken(t, q, Word).to
      OBVIOUS
    <3>. HIDE DEF Z, c, N
    <3>. QED
      BY <3>1, <3>2, <3>3, Zenon
  <2>. HIDE DEF Z, c, N, d
  <2>. QED
    BY <2>1, <2>2 DEF Forward
<1>3. PICK g : Chain(Spans, d, Z, c, N, g)
  <2>. HIDE DEF Z, c, N, d
  <2>. QED
    BY <1>1, <1>2, ChainExists
<1>4. g \in [0 .. d -> Seq(Spans)] /\ \A q \in 0 .. d : g[q] = IF q \in Z THEN <<>> ELSE <<c[q]>> \o g[N[q]]
  BY <1>3, Zenon DEF Chain
<1> DEFINE B(f) == [q \in 0 .. Len(t) |-> IF q = Len(t) \/ At(t, q) = NewLine THEN <<>>
                                         ELSE << NextToken(t, q, Word) >> \o f[NextToken(t, q, Word).to]]
           C(f) == [q \in 0 .. d |-> IF q \in Z THEN <<>> ELSE <<c[q]>> \o f[N[q]]]
<1>5. ASSUME NEW f PROVE B(f) = C(f)
  <2>1. ASSUME NEW q \in 0 .. d
        PROVE  (IF q = Len(t) \/ At(t, q) = NewLine THEN <<>>
                ELSE << NextToken(t, q, Word) >> \o f[NextToken(t, q, Word).to])
               = IF q \in Z THEN <<>> ELSE <<c[q]>> \o f[N[q]]
    <3>1. q \in Z <=> q = Len(t) \/ At(t, q) = NewLine
      BY DEF AtLineEnd
    <3>2. c[q] = NextToken(t, q, Word) /\ N[q] = NextToken(t, q, Word).to
      OBVIOUS
    <3>. HIDE DEF Z, c, N, d
    <3>. QED
      BY <3>1, <3>2, Zenon
  <2>. HIDE DEF Z, c, N
  <2>. QED
    BY <2>1, Zenon
<1>6. g = B(g)
  <2>1. g = C(g)
    <3>1. g = [q \in 0 .. d |-> g[q]]
      BY <1>4
    <3>. HIDE DEF Z, c, N, d
    <3>. QED
      BY <1>4, <3>1, Zenon
  <2>. HIDE DEF B, C
  <2>. QED
    BY <1>5, <2>1
<1> DEFINE k == CHOOSE f : f = B(f)
<1>7. k = B(k)
  <2>. HIDE DEF B
  <2>. QED
    BY <1>6, Zenon
<1>8. \A q \in 0 .. d : TokensFrom(t, q) = k[q]
  BY DEF TokensFrom
<1>. HIDE DEF k, B
<1>9. k = g
  <2>1. k = C(k)
    <3>. HIDE DEF C
    <3>. QED
      BY <1>5, <1>7
  <2>2. Follows(d, Z, c, N, k)
    <3>. HIDE DEF Z, c, N, d
    <3>. QED
      BY <2>1, Zenon DEF Follows
  <2>. HIDE DEF Z, c, N, d, C
  <2>. QED
    BY <1>1, <1>2, <1>3, <2>2, ChainOne, Zenon
<1>10. ASSUME NEW q \in 0 .. d
       PROVE  /\ AtLineEnd(t, q) => g[q] = <<>>
              /\ ~AtLineEnd(t, q) => g[q] = <<NextToken(t, q, Word)>> \o g[NextToken(t, q, Word).to]
  <2>1. q \in Z <=> AtLineEnd(t, q)
    OBVIOUS
  <2>2. c[q] = NextToken(t, q, Word) /\ N[q] = NextToken(t, q, Word).to
    OBVIOUS
  <2>. HIDE DEF Z, c, N, d
  <2>. QED
    BY <1>4, <2>1, <2>2, Zenon
<1>11. TokensAre(t, g)
  <2>1. g \in [0 .. d -> Seq(Spans)] /\ \A q \in 0 .. d : TokensFrom(t, q) = g[q]
    BY <1>4, <1>8, <1>9
  <2>. QED
    BY <1>10, <2>1, Zenon DEF TokensAre, d
<1>. QED
  BY <1>11

\* Where the tokens from q on end.
EndOf(q, tokens) == IF tokens = <<>> THEN q ELSE tokens[Len(tokens)].to

\* A token in front of others leaves their end where it is.
LEMMA FrontEnd ==
  ASSUME NEW a \in Spans, NEW s \in Seq(Spans), NEW q
  PROVE  EndOf(q, <<a>> \o s) = EndOf(a.to, s) /\ <<a>> \o s # <<>>
<1>1. <<a>> \in Seq(Spans) /\ Len(<<a>>) = 1 /\ <<a>>[1] = a
  OBVIOUS
<1> DEFINE b == <<a>>
           h == b \o s
<1>2. Len(h) = 1 + Len(s) /\ \A i \in 1 .. 1 + Len(s) : h[i] = IF i <= 1 THEN b[i] ELSE s[i - 1]
  <2>. HIDE DEF b
  <2>1. b \in Seq(Spans) /\ Len(b) = 1
    BY <1>1 DEF b
  <2>2. /\ Len(h) = Len(b) + Len(s)
        /\ \A i \in 1 .. Len(b) + Len(s) : h[i] = IF i <= Len(b) THEN b[i] ELSE s[i - Len(b)]
    BY <2>1, ConcatProperties
  <2>. HIDE DEF h
  <2>. QED
    BY <2>1, <2>2
<1>3. Len(s) \in Nat /\ (s = <<>> <=> Len(s) = 0)
  BY EmptySeq, LenProperties
<1>4. h # <<>>
  <2>1. Len(h) # 0
    BY <1>2, <1>3
  <2>2. Len(<<>>) = 0
    OBVIOUS
  <2>. HIDE DEF h
  <2>. QED
    BY <2>1, <2>2
<1>. HIDE DEF h
<1>5. CASE s = <<>>
  <2>1. Len(h) = 1 /\ 1 \in 1 .. 1 + Len(s)
    BY <1>2, <1>3, <1>5
  <2>2. h[1] = a
    BY <1>1, <1>2, <2>1
  <2>3. EndOf(q, h) = a.to
    BY <1>4, <2>1, <2>2, Zenon DEF EndOf
  <2>4. EndOf(a.to, s) = a.to
    BY <1>5, Zenon DEF EndOf
  <2>. QED
    BY <1>4, <2>3, <2>4, Zenon DEF h, b
<1>6. CASE s # <<>>
  <2> DEFINE n == Len(s)
  <2>1. n \in Nat /\ n # 0
    BY <1>3, <1>6
  <2>2. Len(h) = 1 + n /\ h[1 + n] = IF 1 + n <= 1 THEN b[1 + n] ELSE s[1 + n - 1]
    <3>1. 1 + n \in 1 .. 1 + n
      BY <2>1
    <3>. QED
      BY <1>2, <3>1
  <2>. HIDE DEF n, b
  <2>3. ~(1 + n <= 1) /\ 1 + n - 1 = n
    BY <2>1
  <2>4. h[Len(h)] = s[n]
    BY <2>2, <2>3, Zenon
  <2>. QED
    BY <1>4, <1>6, <2>4, Zenon DEF EndOf, h, b, n
<1>. QED
  BY <1>5, <1>6

\* The tokens go on to the end of the line, and no farther.
LEMMA TokensEnd ==
  ASSUME NEW t \in Text, NEW g, TokensAre(t, g)
  PROVE  \A q \in 0 .. Len(t) : EndOf(q, g[q]) \in q .. Len(t) /\ AtLineEnd(t, EndOf(q, g[q]))
<1> DEFINE d == Len(t)
           Ends2(q) == EndOf(q, g[q]) \in q .. d /\ AtLineEnd(t, EndOf(q, g[q]))
           T == {n \in 0 .. d : \A q \in d - n .. d : Ends2(q)}
<1>1. d \in Nat
  BY LenProperties DEF Text
<1>2. ASSUME NEW q \in 0 .. d, AtLineEnd(t, q) PROVE Ends2(q)
  <2>1. g[q] = <<>>
    BY <1>2 DEF TokensAre
  <2>2. EndOf(q, g[q]) = q
    BY <2>1, Zenon DEF EndOf
  <2>. QED
    BY <1>1, <1>2, <2>2
<1>. HIDE DEF d
<1>3. 0 \in T
  <2>1. \A q \in d - 0 .. d : q = d /\ q \in 0 .. d
    BY <1>1
  <2>2. AtLineEnd(t, d)
    BY DEF AtLineEnd, d
  <2>. HIDE DEF Ends2
  <2>. QED
    BY <1>1, <1>2, <2>1, <2>2
<1>4. ASSUME NEW n \in 1 .. d, n - 1 \in T PROVE n \in T
  <2>1. \A q \in d - (n - 1) .. d : Ends2(q)
    BY <1>4
  <2>2. ASSUME NEW q \in d - n .. d PROVE Ends2(q)
    <3>1. q \in 0 .. d
      BY <1>1
    <3>2. CASE AtLineEnd(t, q)
      BY <1>2, <3>1, <3>2
    <3>3. CASE ~AtLineEnd(t, q)
      <4> DEFINE a == NextToken(t, q, Word)
                 e == EndOf(a.to, g[a.to])
      <4>1. a \in Spans /\ a.to \in q + 1 .. d
        BY <3>1, <3>3, TokenMoves DEF d
      <4>2. g[q] = <<a>> \o g[a.to]
        BY <3>1, <3>3, Zenon DEF TokensAre, d
      <4>. HIDE DEF a
      <4>3. a.to \in d - (n - 1) .. d /\ a.to \in 0 .. d
        BY <1>1, <4>1
      <4>4. g[a.to] \in Seq(Spans)
        BY <4>3 DEF TokensAre, d
      <4>5. EndOf(q, g[q]) = e
        BY <4>1, <4>2, <4>4, FrontEnd, Zenon
      <4>6. Ends2(a.to)
        BY <2>1, <4>3
      <4>7. e \in a.to .. d /\ AtLineEnd(t, e)
        BY <4>6
      <4>. HIDE DEF e
      <4>8. e \in q .. d
        BY <1>1, <3>1, <4>1, <4>7
      <4>. QED
        BY <4>5, <4>7, <4>8
    <3>. QED
      BY <3>2, <3>3
  <2>3. n \in 0 .. d
    BY <1>1
  <2>. HIDE DEF Ends2
  <2>. QED
    BY <2>2, <2>3
<1>5. \A n \in 0 .. d : n \in T
  <2>. HIDE DEF T
  <2>1. \A n \in 1 .. d : n - 1 \in T => n \in T
    BY <1>4
  <2>. QED
    BY <1>1, <1>3, <2>1, UpTo, Zenon
<1>6. d \in T
  <2>1. d \in 0 .. d
    BY <1>1
  <2>. QED
    BY <1>5, <2>1, Zenon
<1>7. \A q \in 0 .. d : Ends2(q)
  <2>1. d - d = 0
    BY <1>1
  <2>2. \A q \in d - d .. d : Ends2(q)
    <3>. HIDE DEF Ends2
    <3>. QED
      BY <1>6
  <2>. HIDE DEF Ends2
  <2>. QED
    BY <2>1, <2>2
<1>. QED
  BY <1>7 DEF d

\* From the end of a line the next line begins behind the line feed.
LEMMA NextLineBehind ==
  ASSUME NEW t \in Text, NEW q \in 0 .. Len(t), AtLineEnd(t, q)
  PROVE  NextLine(t, q) = IF q = Len(t) THEN q ELSE q + 1
<1>1. Len(t) \in Nat /\ q \in Nat
  BY LenProperties DEF Text
<1>2. CASE q = Len(t)
  <2>1. q >= Len(t)
    BY <1>1, <1>2
  <2>. QED
    BY <1>2, <2>1 DEF NextLine
<1>3. CASE q # Len(t)
  <2>1. q + 1 <= Len(t) /\ t[q + 1] = NewLine
    BY <1>1, <1>3 DEF AtLineEnd, At
  <2>2. Len(<<NewLine>>) = 1 /\ \A i \in 1 .. 1 : i = 1 /\ <<NewLine>>[i] = NewLine
    OBVIOUS
  <2>3. Lies(t, q, <<NewLine>>)
    BY <2>1, <2>2 DEF Lies
  <2>. QED
    BY <1>1, <1>3, <2>3, NextLineIs
<1>. QED
  BY <1>2, <1>3

\* Wherever in a text a line is parsed from, the loop gets on.
LEMMA StatusMoves ==
  ASSUME NEW t \in Text, NEW p \in 0 .. Len(t) - 1
  PROVE  LET line == ParseStatus(t, p)
         IN  /\ line.pos \in p .. Len(t) /\ AtLineEnd(t, line.pos)
             /\ NextLine(t, line.pos) \in p + 1 .. Len(t)
             /\ line.values = TokensFrom(t, NextToken(t, p, Word).to) /\ line.values \in Seq(Spans)
             /\ line.pos = EndOf(NextToken(t, p, Word).to, line.values)
<1> DEFINE line == ParseStatus(t, p)
           key == NextToken(t, p, Word)
           tokens == TokensFrom(t, key.to)
<1>1. Len(t) \in Nat /\ p \in 0 .. Len(t) /\ p \in Nat /\ p < Len(t)
  BY LenProperties DEF Text
<1>2. line.values = tokens /\ line.pos = EndOf(key.to, tokens)
  BY DEF ParseStatus, EndOf
<1>3. key.from \in p .. Len(t) /\ key.to \in key.from .. Len(t)
  BY <1>1, TokenRuns
<1>. HIDE DEF key
<1>4. key.to \in 0 .. Len(t) /\ key.to >= p
  BY <1>1, <1>3
<1>5. PICK g : TokensAre(t, g)
  BY TokensChain
<1>6. tokens = g[key.to] /\ tokens \in Seq(Spans)
  BY <1>4, <1>5, Zenon DEF TokensAre
<1>7. EndOf(key.to, g[key.to]) \in key.to .. Len(t) /\ AtLineEnd(t, EndOf(key.to, g[key.to]))
  BY <1>4, <1>5, TokensEnd
<1>. HIDE DEF line, tokens
<1>8. line.pos \in key.to .. Len(t) /\ AtLineEnd(t, line.pos)
  BY <1>2, <1>6, <1>7, Zenon
<1> DEFINE q == line.pos
<1>9. q \in 0 .. Len(t) /\ q >= p
  BY <1>1, <1>4, <1>8
<1>. HIDE DEF q
<1>10. NextLine(t, q) = IF q = Len(t) THEN q ELSE q + 1
  BY <1>8, <1>9, NextLineBehind DEF q
<1>11. NextLine(t, q) \in p + 1 .. Len(t) /\ q \in p .. Len(t)
  BY <1>1, <1>9, <1>10
<1>. QED
  BY <1>2, <1>6, <1>8, <1>11 DEF q, line, key, tokens

\* A line of the loop in load, as it goes into the map.
LineAt(t, p) == LET line == ParseStatus(t, p)
                IN  [key |-> line.key, values |-> [i \in DOMAIN line.values |-> ValueOf(t, line.values[i])]]
LineBehind(t, p) == NextLine(t, ParseStatus(t, p).pos)
LinesIn(t) == {LineAt(t, p) : p \in 0 .. Len(t)}

\* What a function of places must be to give the lines from there on.
LinesAre(t, g) ==
    /\ g \in [0 .. Len(t) -> Seq(LinesIn(t))]
    /\ LinesOf(t) = g[0]
    /\ g[Len(t)] = <<>>
    /\ \A p \in 0 .. Len(t) - 1 : g[p] = <<LineAt(t, p)>> \o g[LineBehind(t, p)]

\* The lines of the loop in load are a recursive function of the place.
LEMMA LinesChain ==
  ASSUME NEW t \in Text
  PROVE  \E g : LinesAre(t, g)
<1> DEFINE d == Len(t)
           S == LinesIn(t)
           Z == {d}
           c == [p \in 0 .. d |-> LineAt(t, p)]
           N == [p \in 0 .. d |-> LineBehind(t, p)]
<1>1. d \in Nat
  BY LenProperties DEF Text
<1>2. Forward(S, d, Z, c, N)
  <2>1. d \in Z
    OBVIOUS
  <2>2. ASSUME NEW p \in 0 .. d PROVE p \notin Z => c[p] \in S /\ N[p] \in p + 1 .. d
    <3>1. c[p] = LineAt(t, p) /\ N[p] = LineBehind(t, p)
      OBVIOUS
    <3>2. p \notin Z => p \in 0 .. Len(t) - 1
      BY <1>1
    <3>3. LineAt(t, p) \in S
      BY DEF LinesIn
    <3>4. p \notin Z => LineBehind(t, p) \in p + 1 .. Len(t)
      BY <3>2, StatusMoves DEF LineBehind
    <3>. HIDE DEF Z, c, N, S
    <3>. QED
      BY <3>1, <3>3, <3>4, Zenon
  <2>. HIDE DEF Z, c, N, d, S
  <2>. QED
    BY <2>1, <2>2, Zenon DEF Forward
<1>3. PICK g : Chain(S, d, Z, c, N, g)
  <2>. HIDE DEF Z, c, N, d, S
  <2>. QED
    BY <1>1, <1>2, ChainExists
<1>4. g \in [0 .. d -> Seq(S)] /\ \A p \in 0 .. d : g[p] = IF p \in Z THEN <<>> ELSE <<c[p]>> \o g[N[p]]
  BY <1>3, Zenon DEF Chain
<1> DEFINE B(f) == [p \in 0 .. Len(t) |-> IF Len(t) <= p THEN <<>>
                     ELSE LET line == ParseStatus(t, p)
                          IN  << [key |-> line.key,
                                  values |-> [i \in DOMAIN line.values |-> ValueOf(t, line.values[i])]] >>
                              \o f[NextLine(t, line.pos)]]
           C(f) == [p \in 0 .. d |-> IF p \in Z THEN <<>> ELSE <<c[p]>> \o f[N[p]]]
<1>5. ASSUME NEW f PROVE B(f) = C(f)
  <2>1. ASSUME NEW p \in 0 .. d
        PROVE  (IF Len(t) <= p THEN <<>>
                ELSE LET line == ParseStatus(t, p)
                     IN  << [key |-> line.key,
                             values |-> [i \in DOMAIN line.values |-> ValueOf(t, line.values[i])]] >>
                         \o f[NextLine(t, line.pos)])
               = IF p \in Z THEN <<>> ELSE <<c[p]>> \o f[N[p]]
    <3>1. p \in Z <=> Len(t) <= p
      BY <1>1
    <3>2. c[p] = LineAt(t, p) /\ N[p] = LineBehind(t, p)
      OBVIOUS
    <3>. HIDE DEF Z, c, N, d, S
    <3>. QED
      BY <3>1, <3>2, Zenon DEF LineAt, LineBehind
  <2>. HIDE DEF Z, c, N
  <2>. QED
    BY <2>1, Zenon
<1>6. g = B(g)
  <2>1. g = C(g)
    <3>1. g = [p \in 0 .. d |-> g[p]]
      BY <1>4
    <3>. HIDE DEF Z, c, N, d
    <3>. QED
      BY <1>4, <3>1, Zenon
  <2>. HIDE DEF B, C
  <2>. QED
    BY <1>5, <2>1
<1> DEFINE k == CHOOSE f : f = B(f)
<1>7. k = B(k)
  <2>. HIDE DEF B
  <2>. QED
    BY <1>6, Zenon
<1>8. LinesOf(t) = k[0]
  BY DEF LinesOf
<1>. HIDE DEF k, B
<1>9. k = g
  <2>1. k = C(k)
    <3>. HIDE DEF C
    <3>. QED
      BY <1>5, <1>7
  <2>2. Follows(d, Z, c, N, k)
    <3>. HIDE DEF Z, c, N, d
    <3>. QED
      BY <2>1, Zenon DEF Follows
  <2>. HIDE DEF Z, c, N, d, C, S
  <2>. QED
    BY <1>1, <1>2, <1>3, <2>2, ChainOne, Zenon
<1>10. ASSUME NEW p \in 0 .. d - 1 PROVE g[p] = <<LineAt(t, p)>> \o g[LineBehind(t, p)]
  <2>1. p \in 0 .. d /\ p \notin Z
    BY <1>1
  <2>2. c[p] = LineAt(t, p) /\ N[p] = LineBehind(t, p)
    BY <2>1
  <2>. HIDE DEF Z, c, N, d
  <2>. QED
    BY <1>4, <2>1, <2>2, Zenon
<1>11. g[d] = <<>>
  <2>1. d \in 0 .. d /\ d \in Z
    BY <1>1
  <2>. HIDE DEF Z, c, N, d
  <2>. QED
    BY <1>4, <2>1, Zenon
<1>12. LinesAre(t, g)
  <2>1. g \in [0 .. d -> Seq(S)] /\ LinesOf(t) = g[0]
    BY <1>4, <1>8, <1>9, Zenon
  <2>. QED
    BY <1>10, <1>11, <2>1, Zenon DEF LinesAre
<1>. QED
  BY <1>12

\* What a sequence begins with and how it goes on.
Starts(u, items, n, v) == /\ Len(u) = n + Len(v)
                          /\ \A i \in 1 .. n : u[i] = items[i]
                          /\ \A j \in 1 .. Len(v) : u[n + j] = v[j]

\* b[i] is what is left of b[0] when the first i items have been taken off.
Peels(S, n, items, b) == /\ b \in [0 .. n -> Seq(S)]
                         /\ \A i \in 1 .. n : items[i] \in S /\ b[i - 1] = <<items[i]>> \o b[i]

\* The items of a sequence with one in front.
LEMMA FrontIs ==
  ASSUME NEW S, NEW a \in S, NEW v \in Seq(S)
  PROVE  LET u == <<a>> \o v
         IN  u \in Seq(S) /\ Len(v) \in Nat /\ Len(u) = Len(v) + 1 /\ u[1] = a /\ \A j \in 1 .. Len(v) : u[j + 1] = v[j]
<1> DEFINE b == <<a>>
           u == b \o v
<1>1. b \in Seq(S) /\ Len(b) = 1 /\ b[1] = a
  OBVIOUS
<1>2. Len(v) \in Nat
  OBVIOUS
<1>. HIDE DEF b
<1>3. /\ u \in Seq(S) /\ Len(u) = Len(b) + Len(v)
      /\ \A i \in 1 .. Len(b) + Len(v) : u[i] = IF i <= Len(b) THEN b[i] ELSE v[i - Len(b)]
  BY <1>1, ConcatProperties
<1>. HIDE DEF u
<1>4. u[1] = a
  <2>1. 1 \in 1 .. Len(b) + Len(v) /\ 1 <= Len(b)
    BY <1>1, <1>2
  <2>. QED
    BY <1>1, <1>3, <2>1
<1>5. ASSUME NEW j \in 1 .. Len(v) PROVE u[j + 1] = v[j]
  <2>1. j + 1 \in 1 .. Len(b) + Len(v) /\ ~(j + 1 <= Len(b)) /\ (j + 1) - Len(b) = j
    BY <1>1, <1>2
  <2>2. u[j + 1] = v[(j + 1) - Len(b)]
    BY <1>3, <2>1, Zenon
  <2>. QED
    BY <2>1, <2>2, Zenon
<1>6. Len(u) = Len(v) + 1
  BY <1>1, <1>2, <1>3
<1>. QED
  BY <1>2, <1>3, <1>4, <1>5, <1>6, Zenon DEF u, b

\* A sequence that can be peeled n times begins with what came off.
LEMMA PeeledOff ==
  ASSUME NEW S, NEW n \in Nat, NEW items, NEW b, Peels(S, n, items, b)
  PROVE  Starts(b[0], items, n, b[n])
<1> DEFINE T == {k \in 0 .. n : Starts(b[0], items, k, b[k])}
<1>1. b \in [0 .. n -> Seq(S)] /\ \A i \in 1 .. n : items[i] \in S /\ b[i - 1] = <<items[i]>> \o b[i]
  BY DEF Peels
<1>2. \A k \in 0 .. n : b[k] \in Seq(S) /\ Len(b[k]) \in Nat
  BY <1>1, LenProperties
<1>3. 0 \in T
  <2>1. 0 \in 0 .. n
    OBVIOUS
  <2>2. Len(b[0]) \in Nat
    BY <1>2, <2>1
  <2> DEFINE u == b[0]
  <2>. HIDE DEF u
  <2>3. Len(u) \in Nat
    BY <2>2 DEF u
  <2>4. Len(u) = 0 + Len(u) /\ (\A i \in 1 .. 0 : u[i] = items[i]) /\ \A j \in 1 .. Len(u) : u[0 + j] = u[j]
    BY <2>3
  <2>5. Starts(u, items, 0, u)
    BY <2>4 DEF Starts
  <2>. QED
    BY <2>1, <2>5 DEF u
<1>4. ASSUME NEW k \in 1 .. n, k - 1 \in T PROVE k \in T
  <2> DEFINE u == b[0]
             w == b[k - 1]
             v == b[k]
             x == items[k]
  <2>1. k \in 0 .. n /\ k - 1 \in 0 .. n /\ k \in Nat
    OBVIOUS
  <2>2. Starts(u, items, k - 1, w)
    BY <1>4
  <2>3. x \in S /\ v \in Seq(S) /\ w = <<x>> \o v
    BY <1>1, <2>1
  <2>. HIDE DEF u, v, w, x
  <2>4. Len(v) \in Nat /\ Len(w) = Len(v) + 1 /\ w[1] = x /\ \A j \in 1 .. Len(v) : w[j + 1] = v[j]
    BY <2>3, FrontIs
  <2>5. /\ Len(u) = k - 1 + Len(w)
        /\ \A i \in 1 .. k - 1 : u[i] = items[i]
        /\ \A j \in 1 .. Len(w) : u[k - 1 + j] = w[j]
    BY <2>2 DEF Starts
  <2>6. Len(u) = k + Len(v)
    BY <2>1, <2>4, <2>5
  <2>7. u[k] = x
    <3>1. 1 \in 1 .. Len(w) /\ k - 1 + 1 = k
      BY <2>1, <2>4
    <3>. QED
      BY <2>4, <2>5, <3>1
  <2>8. ASSUME NEW i \in 1 .. k PROVE u[i] = items[i]
    <3>1. CASE i = k
      BY <2>7, <3>1 DEF x
    <3>2. CASE i # k
      <4>1. i \in 1 .. k - 1
        BY <2>1, <3>2
      <4>. QED
        BY <2>5, <4>1
    <3>. QED
      BY <3>1, <3>2
  <2>9. ASSUME NEW j \in 1 .. Len(v) PROVE u[k + j] = v[j]
    <3>1. j + 1 \in 1 .. Len(w) /\ k - 1 + (j + 1) = k + j
      BY <2>1, <2>4
    <3>2. u[k - 1 + (j + 1)] = w[j + 1]
      BY <2>5, <3>1, Zenon
    <3>3. w[j + 1] = v[j]
      BY <2>4
    <3>. QED
      BY <3>1, <3>2, <3>3, Zenon
  <2>10. Starts(u, items, k, v)
    BY <2>6, <2>8, <2>9, Zenon DEF Starts
  <2>. QED
    BY <2>1, <2>10 DEF u, v
<1>5. n \in T
  <2>. HIDE DEF T
  <2>1. \A k \in 1 .. n : k - 1 \in T => k \in T
    BY <1>4
  <2>2. \A k \in 0 .. n : k \in T
    BY <1>3, <2>1, UpTo, Zenon
  <2>. QED
    BY <2>2
<1>. QED
  BY <1>5

\* What lies in a piece of a text lies in the text.
LEMMA LiesInside ==
  ASSUME NEW t, NEW s, NEW r, NEW p \in Nat, NEW q \in Nat,
         Len(t) \in Nat, Len(s) \in Nat, Len(r) \in Nat, Lies(t, p, s), Lies(s, q, r)
  PROVE  Lies(t, p + q, r)
<1>1. /\ p + Len(s) <= Len(t) /\ \A i \in 1 .. Len(s) : t[p + i] = s[i]
      /\ q + Len(r) <= Len(s) /\ \A i \in 1 .. Len(r) : s[q + i] = r[i]
  BY DEF Lies
<1>2. p + q + Len(r) <= Len(t)
  BY <1>1
<1>3. ASSUME NEW i \in 1 .. Len(r) PROVE t[p + q + i] = r[i]
  <2>1. q + i \in 1 .. Len(s) /\ p + (q + i) = p + q + i
    BY <1>1
  <2>2. t[p + (q + i)] = s[q + i]
    BY <1>1, <2>1
  <2>3. s[q + i] = r[i]
    BY <1>1
  <2>. QED
    BY <2>1, <2>2, <2>3, Zenon
<1>. QED
  BY <1>2, <1>3, Zenon DEF Lies

\* Where in its text the words of an entry and its line feed are.
BlankWords(l) == [i \in DOMAIN l.words |-> <<Blank>> \o l.words[i]]
HeadLen(l) == Len(l.key) + 1
WordAt(l, i) == HeadLen(l) + Upto(BlankWords(l), i - 1)
LineFeedAt(l) == WordAt(l, Len(l.words) + 1) + IF l.trailing THEN 1 ELSE 0

WordsLaid(l) == /\ WordAt(l, 1) = HeadLen(l) /\ LineFeedAt(l) \in Nat
                /\ \A i \in 1 .. Len(l.words) + 1 : WordAt(l, i) \in Nat
                /\ \A i \in 1 .. Len(l.words) : WordAt(l, i + 1) = WordAt(l, i) + (Len(l.words[i]) + 1)

\* An entry that lies in a text from p on.
EntryLies(t, p, l) ==
    /\ Lies(t, p, l.key \o <<Colon>>) /\ Lies(t, p, l.key)
    /\ \A i \in 1 .. Len(l.words) : /\ Lies(t, p + WordAt(l, i), <<Blank>>)
                                    /\ Lies(t, p + WordAt(l, i) + 1, l.words[i])
    /\ l.trailing => Lies(t, p + WordAt(l, Len(l.words) + 1), <<Blank>>)
    /\ Lies(t, p + LineFeedAt(l), <<NewLine>>)

\* The parts of an entry are words.
LEMMA EntryIs ==
  ASSUME NEW l, IsEntry(l)
  PROVE  /\ l.key \in Seq(Word) /\ l.key \in Text /\ Len(l.key) \in Nat
         /\ <<Colon>> \in Seq(Word) /\ <<Colon>> \in Text
         /\ l.key \o <<Colon>> \in Seq(Word) /\ l.key \o <<Colon>> \in Text
         /\ Len(l.key \o <<Colon>>) = HeadLen(l) /\ HeadLen(l) \in Nat
         /\ Len(l.words) \in Nat /\ DOMAIN l.words = 1 .. Len(l.words)
         /\ \A i \in 1 .. Len(l.words) : /\ l.words[i] \in Seq(Word) /\ l.words[i] \in Text
                                         /\ Len(l.words[i]) \in Nat \ {0}
<1>1. Word \subseteq Symbols /\ Colon \in Word
  BY SeparatorsAreNeither, FilesAreStatuses DEF Word, Symbols
<1>2. l.key \in Seq(Word) /\ l.words \in Seq(Seq(Word) \ {<<>>})
  BY DEF IsEntry
<1>3. l.key \in Text /\ Len(l.key) \in Nat
  BY <1>1, <1>2, SeqMonotonic, LenProperties DEF Text
<1>4. <<Colon>> \in Seq(Word) /\ <<Colon>> \in Text /\ Len(<<Colon>>) = 1
  BY <1>1 DEF Text
<1> DEFINE c == <<Colon>>
           h == l.key \o c
<1>5. h \in Seq(Word) /\ Len(h) = Len(l.key) + Len(c)
  <2>. HIDE DEF c
  <2>1. c \in Seq(Word)
    BY <1>4 DEF c
  <2>. QED
    BY <1>2, <2>1, ConcatProperties
<1>6. h \in Text
  <2>. HIDE DEF h
  <2>. QED
    BY <1>1, <1>5, SeqMonotonic DEF Text
<1>7. Len(h) = HeadLen(l) /\ HeadLen(l) \in Nat
  <2>. HIDE DEF h
  <2>1. Len(h) = Len(l.key) + 1
    BY <1>4, <1>5
  <2>. QED
    BY <1>3, <2>1 DEF HeadLen
<1> DEFINE w == l.words
<1>8. Len(w) \in Nat /\ DOMAIN w = 1 .. Len(w)
  BY <1>2, LenProperties
<1>9. ASSUME NEW i \in 1 .. Len(w) PROVE w[i] \in Seq(Word) /\ w[i] \in Text /\ Len(w[i]) \in Nat \ {0}
  <2>1. w[i] \in Seq(Word) /\ w[i] # <<>>
    BY <1>2, ElementOfSeq
  <2> DEFINE x == w[i]
  <2>. HIDE DEF x, w
  <2>2. x \in Seq(Word) /\ x # <<>>
    BY <2>1 DEF x
  <2>3. x \in Text /\ Len(x) \in Nat /\ Len(x) # 0
    BY <1>1, <2>2, SeqMonotonic, LenProperties, EmptySeq DEF Text
  <2>. QED
    BY <2>2, <2>3 DEF x
<1>. QED
  BY <1>2, <1>3, <1>4, <1>5, <1>6, <1>7, <1>8, <1>9

\* The words, each behind its blank, lie one after the other.
LEMMA WordsAre ==
  ASSUME NEW l, IsEntry(l)
  PROVE  LET s == BlankWords(l)
             n == Len(l.words)
         IN  /\ FlattenSeq(s) \in Text /\ Len(FlattenSeq(s)) \in Nat /\ Upto(s, n) = Len(FlattenSeq(s))
             /\ \A i \in 1 .. n : /\ Laid(Symbols, s, i)
                                  /\ s[i] = <<Blank>> \o l.words[i] /\ s[i] \in Text
                                  /\ Len(s[i]) = Len(l.words[i]) + 1
             /\ WordsLaid(l)
<1> DEFINE n == Len(l.words)
           s == BlankWords(l)
           b == <<Blank>>
<1>1. n \in Nat /\ DOMAIN l.words = 1 .. n /\ \A i \in 1 .. n : l.words[i] \in Text /\ Len(l.words[i]) \in Nat
  BY EntryIs
<1>2. b \in Text /\ Len(b) = 1
  BY DEF Text, Symbols
<1>. HIDE DEF b
<1>3. ASSUME NEW i \in 1 .. n PROVE b \o l.words[i] \in Text /\ Len(b \o l.words[i]) = Len(l.words[i]) + 1
  <2> DEFINE x == l.words[i]
  <2>1. x \in Text /\ Len(x) \in Nat
    BY <1>1
  <2>. HIDE DEF x
  <2>2. b \o x \in Text /\ Len(b \o x) = Len(b) + Len(x)
    BY <1>2, <2>1, ConcatProperties DEF Text
  <2>3. Len(b \o x) = Len(x) + 1
    BY <1>2, <2>1, <2>2
  <2>. QED
    BY <2>2, <2>3 DEF x
<1>4. s = [i \in 1 .. n |-> b \o l.words[i]]
  BY <1>1, Zenon DEF BlankWords, b
<1>5. s \in Seq(Text) /\ Len(s) = n /\ \A i \in 1 .. n : s[i] = b \o l.words[i]
  <2>. HIDE DEF s, n
  <2>1. s \in [1 .. n -> Text] /\ \A i \in 1 .. n : s[i] = b \o l.words[i]
    BY <1>3, <1>4
  <2>. QED
    BY <1>1, <2>1
<1>. HIDE DEF s, n
<1>6. /\ FlattenSeq(s) \in Text /\ Len(FlattenSeq(s)) \in Nat
      /\ Upto(s, 0) = 0 /\ Upto(s, n) = Len(FlattenSeq(s))
      /\ \A i \in 1 .. n : Laid(Symbols, s, i)
  BY <1>1, <1>5, FlattenLaid, Zenon DEF Text
<1>7. ASSUME NEW i \in 1 .. n
      PROVE  /\ Upto(s, i - 1) \in Nat /\ Upto(s, i) = Upto(s, i - 1) + (Len(l.words[i]) + 1)
             /\ s[i] \in Text /\ Len(s[i]) = Len(l.words[i]) + 1
  <2>1. Len(s[i]) = Len(l.words[i]) + 1 /\ s[i] \in Text
    BY <1>3, <1>5
  <2>2. Laid(Symbols, s, i)
    BY <1>6
  <2>. QED
    BY <2>1, <2>2, Zenon DEF Laid
<1>8. HeadLen(l) \in Nat
  BY EntryIs
<1> DEFINE h == HeadLen(l)
<1>9. \A i \in 0 .. n : Upto(s, i) \in Nat
  <2>1. ASSUME NEW i \in 0 .. n PROVE Upto(s, i) \in Nat
    <3>1. CASE i = 0
      BY <1>6, <3>1
    <3>2. CASE i # 0
      <4>1. i \in 1 .. n /\ Len(l.words[i]) \in Nat
        BY <1>1, <3>2
      <4>2. Upto(s, i - 1) \in Nat /\ Upto(s, i) = Upto(s, i - 1) + (Len(l.words[i]) + 1)
        BY <1>7, <4>1
      <4>. QED
        BY <4>1, <4>2
    <3>. QED
      BY <3>1, <3>2
  <2>. QED
    BY <2>1
<1>10. \A i \in Int : WordAt(l, i) = h + Upto(s, i - 1)
  BY Zenon DEF WordAt, s
<1>. HIDE DEF h
<1>11. ASSUME NEW i \in 1 .. n + 1 PROVE WordAt(l, i) \in Nat
  <2>1. i - 1 \in 0 .. n /\ i \in Int
    BY <1>1
  <2>2. Upto(s, i - 1) \in Nat
    BY <1>9, <2>1
  <2>. QED
    BY <1>8, <1>10, <2>1, <2>2 DEF h
<1>12. ASSUME NEW i \in 1 .. n PROVE WordAt(l, i + 1) = WordAt(l, i) + (Len(l.words[i]) + 1)
  <2> DEFINE x == Upto(s, i - 1)
             y == Upto(s, i)
             z == Len(l.words[i])
  <2>1. x \in Nat /\ y = x + (z + 1) /\ z \in Nat
    BY <1>1, <1>7
  <2>2. i \in Int /\ i + 1 \in Int /\ i + 1 - 1 = i
    OBVIOUS
  <2>3. WordAt(l, i) = h + x
    BY <1>10, <2>2, Zenon
  <2> DEFINE j == i + 1
  <2>4. j \in Int /\ j - 1 = i
    OBVIOUS
  <2>. HIDE DEF j
  <2>5. WordAt(l, j) = h + Upto(s, j - 1)
    BY <1>10, <2>4, Zenon
  <2>6. WordAt(l, j) = h + y
    BY <2>4, <2>5, Zenon
  <2>. HIDE DEF x, y, z
  <2>. QED
    BY <1>8, <2>1, <2>3, <2>6 DEF h, z, j
<1>13. WordAt(l, 1) = h
  <2>1. 1 \in Int /\ 1 - 1 = 0
    OBVIOUS
  <2>2. WordAt(l, 1) = h + 0
    BY <1>6, <1>10, <2>1, Zenon
  <2>. QED
    BY <1>8, <2>2 DEF h
<1>14. LineFeedAt(l) \in Nat
  <2>1. n + 1 \in 1 .. n + 1
    BY <1>1
  <2>2. WordAt(l, n + 1) \in Nat
    BY <1>11, <2>1
  <2>. QED
    BY <2>2 DEF LineFeedAt, n
<1>15. WordsLaid(l)
  BY <1>11, <1>12, <1>13, <1>14, Zenon DEF WordsLaid, n, h
<1>16. \A i \in 1 .. n : s[i] = <<Blank>> \o l.words[i]
  BY <1>5 DEF b
<1>. QED
  BY <1>6, <1>7, <1>15, <1>16, Zenon DEF n, s

\* An entry has its words and its line feed where EntryLies says, wherever its line lies.
LEMMA EntryLaid ==
  ASSUME NEW l, IsEntry(l)
  PROVE  /\ StatusLine(l) \in Text /\ Len(StatusLine(l)) = LineFeedAt(l) + 1 /\ LineFeedAt(l) \in Nat
         /\ \A t \in Text : \A p \in Nat : Lies(t, p, StatusLine(l)) => EntryLies(t, p, l)
<1> DEFINE n == Len(l.words)
           a == l.key \o <<Colon>>
           s == BlankWords(l)
           b == FlattenSeq(s)
           c == IF l.trailing THEN <<Blank, NewLine>> ELSE <<NewLine>>
           ab == a \o b
           h == HeadLen(l)
           e == WordAt(l, n + 1)
           z == IF l.trailing THEN 1 ELSE 0
<1>1. StatusLine(l) = ab \o c
  BY Zenon DEF StatusLine, BlankWords
<1>2. /\ l.key \in Text /\ Len(l.key) \in Nat /\ <<Colon>> \in Text
      /\ a \in Text /\ Len(a) = h /\ h \in Nat /\ n \in Nat
      /\ \A i \in 1 .. n : l.words[i] \in Text /\ Len(l.words[i]) \in Nat
  BY EntryIs
<1>3. /\ b \in Text /\ Len(b) \in Nat /\ Upto(s, n) = Len(b)
      /\ \A i \in 1 .. n : /\ Laid(Symbols, s, i) /\ s[i] = <<Blank>> \o l.words[i]
                           /\ s[i] \in Text /\ Len(s[i]) = Len(l.words[i]) + 1
      /\ WordsLaid(l)
  BY WordsAre
<1>4. l.trailing \in BOOLEAN
  BY DEF IsEntry
<1>5. Blank \in Symbols /\ NewLine \in Symbols /\ <<Blank>> \in Text /\ <<NewLine>> \in Text
  BY DEF Symbols, Text
<1>6. /\ c \in Text /\ Len(c) = z + 1 /\ z \in {0, 1} /\ c[z + 1] = NewLine
      /\ l.trailing => z = 1 /\ c[1] = Blank
  BY <1>4, <1>5 DEF Text
<1>7. e \in Nat /\ LineFeedAt(l) = e + z /\ LineFeedAt(l) \in Nat
  <2>1. n + 1 \in 1 .. n + 1
    BY <1>2
  <2>2. (\A i \in 1 .. n + 1 : WordAt(l, i) \in Nat) /\ LineFeedAt(l) \in Nat
    BY <1>3, Zenon DEF WordsLaid
  <2>3. e \in Nat
    BY <2>1, <2>2
  <2>. QED
    BY <2>2, <2>3, Zenon DEF LineFeedAt
<1>8. e = h + Len(b)
  <2> DEFINE j == n + 1
  <2>1. j - 1 = n
    BY <1>2
  <2>. HIDE DEF j
  <2>2. WordAt(l, j) = h + Upto(s, j - 1)
    BY Zenon DEF WordAt
  <2>. QED
    BY <1>3, <2>1, <2>2, Zenon DEF j
<1>. HIDE DEF a, b, c, h, e, z, n
<1>9. ab \in Text /\ Len(ab) = e
  <2>1. ab \in Seq(Symbols) /\ Len(ab) = Len(a) + Len(b)
    BY <1>2, <1>3, ConcatProperties DEF Text
  <2>. QED
    BY <1>2, <1>8, <2>1 DEF Text
<1>. HIDE DEF ab
<1>10. ab \o c \in Text /\ Len(ab \o c) = LineFeedAt(l) + 1
  <2>1. ab \o c \in Seq(Symbols) /\ Len(ab \o c) = Len(ab) + Len(c)
    BY <1>6, <1>9, ConcatProperties DEF Text
  <2>2. e + (z + 1) = (e + z) + 1
    BY <1>6, <1>7
  <2>3. Len(ab \o c) = e + (z + 1)
    BY <1>6, <1>9, <2>1, Zenon
  <2>. QED
    BY <1>7, <2>1, <2>2, <2>3, Zenon DEF Text
<1>11. ASSUME NEW t \in Text, NEW p \in Nat, Lies(t, p, StatusLine(l)) PROVE EntryLies(t, p, l)
  <2>1. Len(t) \in Nat
    BY LenProperties DEF Text
  <2>2. Lies(t, p, ab) /\ Lies(t, p + e, c)
    <3>1. Lies(t, p, ab \o c)
      BY <1>1, <1>11
    <3>2. Lies(t, p, ab) /\ Lies(t, p + Len(ab), c)
      BY <1>6, <1>9, <2>1, <3>1, LiesConcat DEF Text
    <3>. QED
      BY <1>9, <3>2
  <2>3. Lies(t, p, a) /\ Lies(t, p + h, b)
    <3>1. Lies(t, p, a \o b)
      BY <2>2 DEF ab
    <3>2. Lies(t, p, a) /\ Lies(t, p + Len(a), b)
      BY <1>2, <1>3, <2>1, <3>1, LiesConcat DEF Text
    <3>. QED
      BY <1>2, <3>2
  <2>4. Lies(t, p, l.key)
    <3> DEFINE k == l.key
               x == <<Colon>>
    <3>1. k \in Text /\ x \in Text /\ a = k \o x
      BY <1>2 DEF a
    <3>. HIDE DEF k, x
    <3>2. Lies(t, p, k \o x)
      BY <2>3, <3>1
    <3>3. Lies(t, p, k)
      BY <2>1, <3>1, <3>2, LiesConcat DEF Text
    <3>. QED
      BY <3>3 DEF k
  <2>5. ASSUME NEW i \in 1 .. n
        PROVE  Lies(t, p + WordAt(l, i), <<Blank>>) /\ Lies(t, p + WordAt(l, i) + 1, l.words[i])
    <3> DEFINE q == Upto(s, i - 1)
               x == <<Blank>>
               w == l.words[i]
    <3>1. q \in Nat /\ Lies(b, q, s[i])
      BY <1>3, Zenon DEF Laid, b
    <3>2. WordAt(l, i) = h + q
      BY Zenon DEF WordAt, h
    <3>3. x \in Text /\ w \in Text /\ Len(x) = 1 /\ s[i] = x \o w /\ Len(s[i]) \in Nat
      BY <1>2, <1>3, <1>5, LenProperties DEF Text
    <3>. HIDE DEF q, x, w
    <3>4. p + h \in Nat /\ p + h + q \in Nat /\ p + (h + q) = p + h + q
      BY <1>2, <3>1
    <3>5. Lies(t, p + h + q, s[i])
      BY <1>3, <2>1, <2>3, <3>1, <3>3, <3>4, LiesInside
    <3>6. Lies(t, p + h + q, x) /\ Lies(t, p + h + q + Len(x), w)
      <4>1. Lies(t, p + h + q, x \o w)
        BY <3>3, <3>5
      <4>. QED
        BY <2>1, <3>3, <3>4, <4>1, LiesConcat DEF Text
    <3>7. p + WordAt(l, i) = p + h + q
      BY <3>2, <3>4
    <3>. QED
      BY <3>3, <3>6, <3>7, Zenon DEF x, w
  <2>6. (p + e) + Len(c) <= Len(t) /\ \A i \in 1 .. Len(c) : t[(p + e) + i] = c[i]
    BY <2>2 DEF Lies
  <2>7. Lies(t, p + LineFeedAt(l), <<NewLine>>)
    <3> DEFINE x == <<NewLine>>
               r == p + LineFeedAt(l)
    <3>1. Len(x) = 1 /\ \A i \in 1 .. 1 : i = 1 /\ x[i] = NewLine
      OBVIOUS
    <3>2. r + 1 = (p + e) + (z + 1) /\ r + 1 <= Len(t) /\ z + 1 \in 1 .. Len(c)
      BY <1>6, <1>7, <2>1, <2>6
    <3>3. t[r + 1] = NewLine
      BY <1>6, <2>6, <3>2
    <3>. HIDE DEF x, r
    <3>4. Lies(t, r, x)
      BY <3>1, <3>2, <3>3 DEF Lies
    <3>. QED
      BY <3>4 DEF x, r
  <2>8. ASSUME l.trailing PROVE Lies(t, p + e, <<Blank>>)
    <3> DEFINE x == <<Blank>>
               r == p + e
    <3>1. Len(x) = 1 /\ \A i \in 1 .. 1 : i = 1 /\ x[i] = Blank
      OBVIOUS
    <3>2. r + 1 <= Len(t) /\ 1 \in 1 .. Len(c)
      BY <1>6, <1>7, <2>1, <2>6, <2>8
    <3>3. t[r + 1] = Blank
      BY <1>6, <2>6, <2>8, <3>2
    <3>. HIDE DEF x, r
    <3>4. Lies(t, r, x)
      BY <3>1, <3>2, <3>3 DEF Lies
    <3>. QED
      BY <3>4 DEF x, r
  <2>. QED
    BY <2>3, <2>4, <2>5, <2>7, <2>8, Zenon DEF EntryLies, n, e, a
<1>. QED
  BY <1>1, <1>7, <1>10, <1>11, Zenon

\* Where in its text the i-th value of an entry has its blank, or the line its line feed.
StopAt(l, i) == IF i <= Len(ValuesOf(l)) THEN WordAt(l, i) ELSE LineFeedAt(l)

\* The stops of an entry, the values V between them.
StopsAre(l, V, m) ==
    /\ \A i \in 1 .. m + 1 : StopAt(l, i) \in Nat
    /\ StopAt(l, 1) = HeadLen(l) /\ StopAt(l, m + 1) = LineFeedAt(l)
    /\ \A i \in 1 .. m : /\ V[i] \in Seq(Word) /\ Len(V[i]) \in Nat
                         /\ i < m => Len(V[i]) # 0
                         /\ StopAt(l, i + 1) = StopAt(l, i) + 1 + Len(V[i])

\* The values V lie in t between the stops of the line at p.
ValuesLie(t, p, l, V, m) ==
    /\ \A i \in 1 .. m : /\ Lies(t, p + StopAt(l, i), <<Blank>>)
                         /\ Lies(t, p + StopAt(l, i) + 1, V[i])
    /\ Lies(t, p + StopAt(l, m + 1), <<NewLine>>)

\* The values of an entry are its words, and the empty word for a blank behind them.
LEMMA ValuesAre ==
  ASSUME NEW l, IsEntry(l)
  PROVE  LET n == Len(l.words)
             m == Len(ValuesOf(l))
         IN  /\ n \in Nat /\ m = IF l.trailing THEN n + 1 ELSE n
             /\ \A i \in 1 .. n : ValuesOf(l)[i] = l.words[i]
             /\ l.trailing => ValuesOf(l)[n + 1] = <<>>
             /\ ValuesOf(l) \in Seq(Seq(Word))
<1> DEFINE w == l.words
           e == << <<>> >>
<1>1. w \in Seq(Seq(Word)) /\ l.trailing \in BOOLEAN
  <2>1. Seq(Word) \ {<<>>} \subseteq Seq(Word)
    OBVIOUS
  <2>2. w \in Seq(Seq(Word) \ {<<>>})
    BY DEF IsEntry
  <2>. QED
    BY <2>1, <2>2, SeqMonotonic, Zenon DEF IsEntry
<1>2. Len(w) \in Nat
  BY <1>1
<1>3. <<>> \in Seq(Word) /\ <<>> = <<>>
  OBVIOUS
<1>4. CASE l.trailing
  <2>1. ValuesOf(l) = w \o e
    BY <1>4, Zenon DEF ValuesOf
  <2>2. e \in Seq(Seq(Word)) /\ Len(e) = 1 /\ e[1] = <<>>
    BY <1>3
  <2>. HIDE DEF e, w
  <2>3. /\ w \o e \in Seq(Seq(Word)) /\ Len(w \o e) = Len(w) + Len(e)
        /\ \A i \in 1 .. Len(w) + Len(e) : (w \o e)[i] = IF i <= Len(w) THEN w[i] ELSE e[i - Len(w)]
    BY <1>1, <2>2, ConcatProperties
  <2> DEFINE v == w \o e
  <2>. HIDE DEF v
  <2>4. Len(v) = Len(w) + 1
    BY <2>2, <2>3 DEF v
  <2>5. ASSUME NEW i \in 1 .. Len(w) PROVE v[i] = w[i]
    <3>1. i \in 1 .. Len(w) + Len(e) /\ i <= Len(w)
      BY <1>2, <2>2
    <3>. QED
      BY <2>3, <3>1 DEF v
  <2>6. v[Len(w) + 1] = <<>>
    <3> DEFINE i == Len(w) + 1
    <3>1. i \in 1 .. Len(w) + Len(e) /\ ~(i <= Len(w)) /\ i - Len(w) = 1
      BY <1>2, <2>2
    <3>. HIDE DEF i
    <3>2. v[i] = e[i - Len(w)]
      BY <2>3, <3>1, Zenon DEF v
    <3>3. v[i] = <<>>
      BY <2>2, <3>1, <3>2, Zenon
    <3>. QED
      BY <3>3 DEF i
  <2>. QED
    BY <1>2, <1>4, <2>1, <2>3, <2>4, <2>5, <2>6, Zenon DEF v, w
<1>5. CASE ~l.trailing
  <2>1. ValuesOf(l) = w \o <<>>
    BY <1>5, Zenon DEF ValuesOf
  <2>2. w \o <<>> = w
    <3>. HIDE DEF w
    <3>. QED
      BY <1>1, ConcatEmptySeq
  <2>3. ValuesOf(l) = w
    BY <2>1, <2>2, Zenon
  <2>. QED
    BY <1>1, <1>2, <1>5, <2>3, Zenon
<1>. QED
  BY <1>4, <1>5

\* The values of an entry stand between its stops.
LEMMA StopsLaid ==
  ASSUME NEW l, IsEntry(l), NEW V, V = ValuesOf(l), NEW m, m = Len(V)
  PROVE  m \in Nat /\ StopsAre(l, V, m)
<1> DEFINE n == Len(l.words)
<1>1. /\ n \in Nat /\ m = IF l.trailing THEN n + 1 ELSE n
      /\ \A i \in 1 .. n : V[i] = l.words[i]
      /\ l.trailing => V[n + 1] = <<>>
  BY ValuesAre
<1>2. \A i \in 1 .. n : l.words[i] \in Seq(Word) /\ Len(l.words[i]) \in Nat \ {0}
  BY EntryIs
<1>3. WordsLaid(l)
  BY WordsAre
<1>4. /\ WordAt(l, 1) = HeadLen(l) /\ LineFeedAt(l) \in Nat
      /\ \A i \in 1 .. n + 1 : WordAt(l, i) \in Nat
      /\ \A i \in 1 .. n : WordAt(l, i + 1) = WordAt(l, i) + (Len(l.words[i]) + 1)
  BY <1>3, Zenon DEF WordsLaid
<1>5. LineFeedAt(l) = WordAt(l, n + 1) + IF l.trailing THEN 1 ELSE 0
  BY Zenon DEF LineFeedAt
<1>6. \A i \in Int : StopAt(l, i) = IF i <= m THEN WordAt(l, i) ELSE LineFeedAt(l)
  BY Zenon DEF StopAt
<1>7. <<>> \in Seq(Word) /\ Len(<<>>) = 0
  OBVIOUS
<1>. HIDE DEF n
<1>8. m \in Nat
  BY <1>1
<1>9. \A i \in 1 .. m + 1 : StopAt(l, i) \in Nat
  <2>1. ASSUME NEW i \in 1 .. m + 1 PROVE StopAt(l, i) \in Nat
    <3>1. i <= m => i \in 1 .. n + 1
      BY <1>1
    <3>. QED
      BY <1>4, <1>6, <3>1
  <2>. QED
    BY <2>1
<1>10. StopAt(l, m + 1) = LineFeedAt(l)
  BY <1>6, <1>8
<1>11. n + 1 \in 1 .. n + 1 /\ WordAt(l, n + 1) \in Nat
  BY <1>1, <1>4
<1>12. StopAt(l, 1) = HeadLen(l)
  <2>1. CASE m >= 1
    BY <1>4, <1>6, <2>1
  <2>2. CASE m < 1
    <3>1. n = 0 /\ ~l.trailing
      BY <1>1, <2>2
    <3>2. n + 1 = 1
      BY <3>1
    <3>3. LineFeedAt(l) = WordAt(l, 1) + 0
      BY <1>5, <3>1, <3>2
    <3>4. LineFeedAt(l) = HeadLen(l)
      BY <1>4, <1>11, <3>2, <3>3
    <3>. QED
      BY <1>6, <2>2, <3>4
  <2>. QED
    BY <1>8, <2>1, <2>2
<1>13. ASSUME NEW i \in 1 .. m
       PROVE  /\ V[i] \in Seq(Word) /\ Len(V[i]) \in Nat
              /\ i < m => Len(V[i]) # 0
              /\ StopAt(l, i + 1) = StopAt(l, i) + 1 + Len(V[i])
  <2>1. CASE i \in 1 .. n
    <3> DEFINE j == i + 1
               x == WordAt(l, i)
               y == Len(V[i])
    <3>1. V[i] = l.words[i] /\ V[i] \in Seq(Word) /\ y \in Nat \ {0}
      BY <1>1, <1>2, <2>1
    <3>2. x \in Nat /\ WordAt(l, j) = x + (y + 1)
      BY <1>1, <1>4, <2>1, <3>1
    <3>3. StopAt(l, i) = x
      BY <1>6, <1>8
    <3>4. j \in Int /\ (j <= m \/ j = m + 1)
      BY <1>8
    <3>5. ASSUME j = m + 1 PROVE LineFeedAt(l) = WordAt(l, j)
      <4>1. j = n + 1 /\ ~l.trailing
        BY <1>1, <2>1, <3>5
      <4>2. LineFeedAt(l) = WordAt(l, n + 1) + 0
        BY <1>5, <4>1
      <4>3. LineFeedAt(l) = WordAt(l, n + 1)
        BY <1>11, <4>2
      <4>. QED
        BY <4>1, <4>3, Zenon
    <3>6. StopAt(l, j) = WordAt(l, j)
      <4>1. StopAt(l, j) = IF j <= m THEN WordAt(l, j) ELSE LineFeedAt(l)
        BY <1>6, <3>4
      <4>. HIDE DEF j
      <4>. QED
        BY <3>4, <3>5, <4>1
    <3>. HIDE DEF x, y
    <3>7. StopAt(l, j) = x + 1 + y
      BY <3>1, <3>2, <3>6
    <3>. QED
      BY <3>1, <3>3, <3>7 DEF y
  <2>2. CASE i \notin 1 .. n
    <3>1. i = n + 1 /\ i = m /\ l.trailing
      BY <1>1, <2>2
    <3>2. V[i] = <<>>
      BY <1>1, <3>1
    <3> DEFINE v == V[i]
    <3>3. v \in Seq(Word) /\ Len(v) = 0
      BY <1>7, <3>2
    <3>4. StopAt(l, i) = WordAt(l, n + 1)
      BY <1>6, <1>8, <3>1
    <3>5. StopAt(l, i + 1) = WordAt(l, n + 1) + 1
      BY <1>5, <1>10, <3>1
    <3>. HIDE DEF v
    <3>6. StopAt(l, i + 1) = StopAt(l, i) + 1 + Len(v)
      BY <1>11, <3>3, <3>4, <3>5
    <3>. QED
      BY <3>1, <3>3, <3>6 DEF v
  <2>. QED
    BY <2>1, <2>2
<1>. QED
  BY <1>8, <1>9, <1>10, <1>12, <1>13, Zenon DEF StopsAre

\* The values of a line that lies in a text lie there.
LEMMA ValuesLaid ==
  ASSUME NEW l, IsEntry(l), NEW t \in Text, NEW p \in Nat, EntryLies(t, p, l),
         NEW V, V = ValuesOf(l), NEW m, m = Len(V)
  PROVE  ValuesLie(t, p, l, V, m)
<1> DEFINE n == Len(l.words)
<1>1. /\ n \in Nat /\ m = IF l.trailing THEN n + 1 ELSE n
      /\ \A i \in 1 .. n : V[i] = l.words[i]
      /\ l.trailing => V[n + 1] = <<>>
  BY ValuesAre
<1>2. m \in Nat /\ StopsAre(l, V, m)
  BY StopsLaid
<1>3. /\ \A i \in 1 .. n : /\ Lies(t, p + WordAt(l, i), <<Blank>>)
                           /\ Lies(t, p + WordAt(l, i) + 1, l.words[i])
      /\ l.trailing => Lies(t, p + WordAt(l, n + 1), <<Blank>>)
      /\ Lies(t, p + LineFeedAt(l), <<NewLine>>)
  BY Zenon DEF EntryLies
<1>4. \A i \in 1 .. m : StopAt(l, i) = WordAt(l, i) /\ StopAt(l, i) \in Nat
  BY <1>2 DEF StopAt, StopsAre
<1>5. StopAt(l, m + 1) = LineFeedAt(l)
  BY <1>2, Zenon DEF StopsAre
<1>. HIDE DEF n
<1>6. ASSUME NEW i \in 1 .. m
      PROVE  Lies(t, p + StopAt(l, i), <<Blank>>) /\ Lies(t, p + StopAt(l, i) + 1, V[i])
  <2>1. CASE i \in 1 .. n
    BY <1>1, <1>3, <1>4, <2>1, Zenon
  <2>2. CASE i \notin 1 .. n
    <3>1. i = n + 1 /\ l.trailing
      BY <1>1, <2>2
    <3>2. Lies(t, p + StopAt(l, i), <<Blank>>)
      BY <1>3, <1>4, <3>1
    <3> DEFINE r == p + StopAt(l, i)
               v == V[i]
    <3>3. r \in Nat /\ v = <<>>
      BY <1>1, <1>4, <3>1
    <3>. HIDE DEF r
    <3>4. r < Len(t)
      BY <3>2, <3>3, LiesOne DEF r
    <3>5. Len(v) = 0
      BY <3>3
    <3>. HIDE DEF v
    <3>6. r + 1 + Len(v) <= Len(t) /\ \A h \in 1 .. Len(v) : t[r + 1 + h] = v[h]
      <4>1. Len(t) \in Nat
        BY LenProperties DEF Text
      <4>. QED
        BY <3>3, <3>4, <3>5, <4>1
    <3>7. Lies(t, r + 1, v)
      BY <3>6, Zenon DEF Lies
    <3>. QED
      BY <3>2, <3>7, Zenon DEF r, v
  <2>. QED
    BY <2>1, <2>2
<1>. QED
  BY <1>3, <1>5, <1>6, Zenon DEF ValuesLie

\* The pieces of the text that the values of an entry are.
ValueSpan(p, l, i) == [from |-> p + StopAt(l, i) + 1, to |-> p + StopAt(l, i + 1)]

\* The token behind the i-th stop is the i-th value.
LEMMA ValueToken ==
  ASSUME NEW l, NEW t \in Text, NEW p \in Nat, NEW V, NEW m \in Nat,
         StopsAre(l, V, m), ValuesLie(t, p, l, V, m), NEW i \in 1 .. m
  PROVE  /\ p + StopAt(l, i) \in 0 .. Len(t) /\ ~AtLineEnd(t, p + StopAt(l, i))
         /\ NextToken(t, p + StopAt(l, i), Word) = ValueSpan(p, l, i)
         /\ ValueSpan(p, l, i) \in Spans
         /\ Piece(t, ValueSpan(p, l, i)) = V[i]
<1> DEFINE q == p + StopAt(l, i)
           v == V[i]
           j == i + 1
           r == p + StopAt(l, j)
<1>1. /\ q \in Nat /\ v \in Seq(Word) /\ Len(v) \in Nat /\ r = q + 1 + Len(v)
      /\ i < m => Len(v) # 0
  <2>1. i \in 1 .. m + 1 /\ j \in 1 .. m + 1
    OBVIOUS
  <2>2. StopAt(l, i) \in Nat /\ StopAt(l, j) \in Nat
    BY <2>1, Zenon DEF StopsAre
  <2>3. StopAt(l, j) = StopAt(l, i) + 1 + Len(v) /\ v \in Seq(Word) /\ Len(v) \in Nat /\ (i < m => Len(v) # 0)
    BY DEF StopsAre
  <2> DEFINE x == StopAt(l, i)
             y == StopAt(l, j)
             w == Len(v)
  <2>4. x \in Nat /\ y \in Nat /\ y = x + 1 + w /\ w \in Nat
    BY <2>2, <2>3
  <2>. HIDE DEF x, y, w
  <2>5. p + x \in Nat /\ p + y = p + x + 1 + w
    BY <2>4
  <2>. QED
    BY <2>3, <2>5, Zenon DEF x, y, w, q, r
<1>2. Lies(t, q, <<Blank>>) /\ Lies(t, q + 1, v)
  BY Zenon DEF ValuesLie
<1>3. PICK x \in {Blank, NewLine} : Lies(t, r, <<x>>) /\ (i = m => x = NewLine)
  <2>1. CASE i = m
    <3>1. Lies(t, r, <<NewLine>>)
      BY <2>1, Zenon DEF ValuesLie
    <3>. QED
      BY <3>1
  <2>2. CASE i # m
    <3>1. j \in 1 .. m
      BY <2>2
    <3>2. Lies(t, r, <<Blank>>)
      BY <3>1, Zenon DEF ValuesLie
    <3>. QED
      BY <2>2, <3>2
  <2>. QED
    BY <2>1, <2>2
<1>4. Len(t) \in Nat
  BY LenProperties DEF Text
<1>5. x \notin Word /\ Blank \notin Word
  BY SymbolsDiffer, <1>3
<1>. HIDE DEF q, v, r
<1>6. q < Len(t) /\ At(t, q) = Blank
  BY <1>1, <1>2, LiesOne
<1>7. r \in Nat /\ r < Len(t) /\ At(t, r) = x
  BY <1>1, <1>3, LiesOne
<1>8. RunEnd(t, q + 1, {Blank})
  <2>1. CASE Len(v) = 0
    <3>1. i = m
      BY <1>1, <2>1
    <3>2. At(t, q + 1) = NewLine
      BY <1>1, <1>3, <1>7, <2>1, <3>1
    <3>. QED
      BY <3>2, SymbolsDiffer DEF RunEnd
  <2>2. CASE Len(v) # 0
    <3>1. Len(v) \in Nat \ {0} /\ q + 1 \in Nat
      BY <1>1, <2>2
    <3>. QED
      BY <1>1, <1>2, <1>5, <3>1, WordBegins
  <2>. QED
    BY <2>1, <2>2
<1>9. SkipWhitespace(t, q) = q + 1 /\ q + 1 \in Nat /\ q <= q + 1
  BY <1>1, <1>2, <1>8, BehindBlank
<1>10. NextToken(t, q, Word) = [from |-> q + 1, to |-> q + 1 + Len(v)]
  <2>1. Lies(t, q + 1 + Len(v), <<x>>)
    BY <1>1, <1>3
  <2>. QED
    BY <1>1, <1>2, <1>5, <1>9, <2>1, TokenAt
<1>11. NextToken(t, q, Word) = [from |-> q + 1, to |-> r]
  BY <1>1, <1>10
<1>12. ValueSpan(p, l, i) = [from |-> q + 1, to |-> r]
  BY Zenon DEF ValueSpan, q, r, j
<1>13. Piece(t, [from |-> q + 1, to |-> q + 1 + Len(v)]) = v
  BY <1>1, <1>2, <1>9, LiesPiece
<1>14. [from |-> q + 1, to |-> r] \in Spans
  BY <1>7, <1>9 DEF Spans
<1>15. q \in 0 .. Len(t) /\ ~AtLineEnd(t, q)
  <2>1. q # Len(t) /\ At(t, q) # NewLine
    BY <1>4, <1>6, SymbolsDiffer
  <2>. QED
    BY <1>1, <1>4, <1>6, <2>1 DEF AtLineEnd
<1>. QED
  BY <1>1, <1>11, <1>12, <1>13, <1>14, <1>15, Zenon DEF q, v

\* The loop over the values of a line that lies whole in the text reads each of them.
TokensRead(tokens, p, l, m) == /\ Len(tokens) = m /\ tokens \in Seq(Spans)
                               /\ \A i \in 1 .. m : tokens[i] = ValueSpan(p, l, i)

\* So the tokens behind the head of a line are its values.
LEMMA LineTokens ==
  ASSUME NEW l, NEW t \in Text, NEW p \in Nat, NEW V, NEW m \in Nat,
         StopsAre(l, V, m), ValuesLie(t, p, l, V, m)
  PROVE  TokensRead(TokensFrom(t, p + HeadLen(l)), p, l, m)
<1>1. PICK g : TokensAre(t, g)
  BY TokensChain
<1>2. /\ g \in [0 .. Len(t) -> Seq(Spans)]
      /\ \A q \in 0 .. Len(t) : TokensFrom(t, q) = g[q]
      /\ \A q \in 0 .. Len(t) : AtLineEnd(t, q) => g[q] = <<>>
      /\ \A q \in 0 .. Len(t) : ~AtLineEnd(t, q) =>
          g[q] = <<NextToken(t, q, Word)>> \o g[NextToken(t, q, Word).to]
  BY <1>1, Zenon DEF TokensAre
<1>3. Len(t) \in Nat
  BY LenProperties DEF Text
<1> DEFINE at(i) == p + StopAt(l, i)
           items == [i \in 1 .. m |-> ValueSpan(p, l, i)]
           b == [i \in 0 .. m |-> g[at(i + 1)]]
<1>4. \A i \in 1 .. m + 1 : at(i) \in 0 .. Len(t)
  <2>1. ASSUME NEW i \in 1 .. m + 1 PROVE at(i) \in 0 .. Len(t)
    <3>1. CASE i = m + 1
      <4>1. Lies(t, at(i), <<NewLine>>)
        BY <3>1, Zenon DEF ValuesLie
      <4>2. at(i) \in Nat
        BY DEF StopsAre
      <4>. HIDE DEF at
      <4>3. at(i) < Len(t)
        BY <4>1, <4>2, LiesOne
      <4>. QED
        BY <1>3, <4>2, <4>3
    <3>2. CASE i # m + 1
      <4>1. i \in 1 .. m
        BY <3>2
      <4>. QED
        BY <4>1, ValueToken
    <3>. QED
      BY <3>1, <3>2
  <2>. QED
    BY <2>1
<1>5. AtLineEnd(t, at(m + 1))
  <2>1. Lies(t, at(m + 1), <<NewLine>>)
    BY Zenon DEF ValuesLie
  <2>2. at(m + 1) \in Nat
    BY DEF StopsAre
  <2>. HIDE DEF at
  <2>3. At(t, at(m + 1)) = NewLine
    BY <2>1, <2>2, LiesOne
  <2>. QED
    BY <2>3 DEF AtLineEnd
<1>6. ASSUME NEW i \in 1 .. m
      PROVE  /\ items[i] \in Spans /\ items[i] = ValueSpan(p, l, i)
             /\ g[at(i)] = <<items[i]>> \o g[at(i + 1)]
  <2>1. /\ at(i) \in 0 .. Len(t) /\ ~AtLineEnd(t, at(i)) /\ NextToken(t, at(i), Word) = ValueSpan(p, l, i)
        /\ ValueSpan(p, l, i) \in Spans
    BY ValueToken
  <2>2. ValueSpan(p, l, i).to = at(i + 1)
    BY DEF ValueSpan
  <2>3. items[i] = ValueSpan(p, l, i)
    OBVIOUS
  <2>. HIDE DEF at, items
  <2>. QED
    BY <1>2, <2>1, <2>2, <2>3, Zenon
<1>7. Peels(Spans, m, items, b)
  <2>1. b \in [0 .. m -> Seq(Spans)]
    <3>1. ASSUME NEW i \in 0 .. m PROVE g[at(i + 1)] \in Seq(Spans)
      <4>1. i + 1 \in 1 .. m + 1
        OBVIOUS
      <4>2. at(i + 1) \in 0 .. Len(t)
        BY <1>4, <4>1
      <4>. HIDE DEF at
      <4>. QED
        BY <1>2, <4>2
    <3>. HIDE DEF at
    <3>. QED
      BY <3>1
  <2>2. ASSUME NEW i \in 1 .. m PROVE items[i] \in Spans /\ b[i - 1] = <<items[i]>> \o b[i]
    <3>1. i \in 0 .. m /\ i - 1 \in 0 .. m /\ i - 1 + 1 = i
      OBVIOUS
    <3>. HIDE DEF at, items
    <3>2. b[i] = g[at(i + 1)]
      BY <3>1
    <3>3. b[i - 1] = g[at(i - 1 + 1)]
      BY <3>1
    <3>4. b[i - 1] = g[at(i)]
      BY <3>1, <3>3, Zenon
    <3>. QED
      BY <1>6, <3>2, <3>4
  <2>. HIDE DEF b, items
  <2>. QED
    BY <2>1, <2>2, Zenon DEF Peels
<1>8. b[0] = g[at(1)] /\ b[m] = <<>>
  <2>1. 0 \in 0 .. m /\ m \in 0 .. m /\ 0 + 1 = 1 /\ m + 1 \in 1 .. m + 1
    OBVIOUS
  <2>2. at(m + 1) \in 0 .. Len(t)
    BY <1>4, <2>1
  <2>. HIDE DEF at
  <2>3. b[0] = g[at(0 + 1)] /\ b[m] = g[at(m + 1)]
    BY <2>1
  <2>4. g[at(m + 1)] = <<>>
    BY <1>2, <1>5, <2>2
  <2>. QED
    BY <2>1, <2>3, <2>4, Zenon
<1>9. Starts(b[0], items, m, b[m])
  <2>. HIDE DEF b, items
  <2>. QED
    BY <1>7, PeeledOff
<1>10. at(1) = p + HeadLen(l) /\ at(1) \in 0 .. Len(t)
  <2>1. StopAt(l, 1) = HeadLen(l)
    BY Zenon DEF StopsAre
  <2>2. 1 \in 1 .. m + 1
    OBVIOUS
  <2>. QED
    BY <1>4, <2>1, <2>2, Zenon
<1>11. \A i \in 1 .. m : items[i] = ValueSpan(p, l, i)
  BY <1>6
<1> DEFINE k == b[0]
           z == b[m]
<1>. HIDE DEF b, items, at
<1>12. Starts(k, items, m, z) /\ z = <<>>
  BY <1>8, <1>9 DEF k, z
<1>13. k = TokensFrom(t, p + HeadLen(l)) /\ k \in Seq(Spans)
  <2>1. k = g[at(1)]
    BY <1>8, Zenon DEF k
  <2>2. g[at(1)] \in Seq(Spans)
    BY <1>2, <1>10
  <2>. QED
    BY <1>2, <1>10, <2>1, <2>2, Zenon
<1>. HIDE DEF k, z
<1>14. Len(k) = m + Len(z) /\ \A i \in 1 .. m : k[i] = items[i]
  BY <1>12, Zenon DEF Starts
<1>15. Len(k) = m
  BY <1>12, <1>14
<1>. QED
  BY <1>11, <1>13, <1>14, <1>15, Zenon DEF TokensRead

\* The key of a line whose head lies in the text, with no more symbols of a word behind it.
LEMMA KeyRead ==
  ASSUME NEW l, IsEntry(l), NEW t \in Text, NEW p \in Nat, Lies(t, p, l.key \o <<Colon>>), Lies(t, p, l.key),
         RunEnd(t, p + HeadLen(l), Word)
  PROVE  /\ p \in 0 .. Len(t) - 1 /\ p + HeadLen(l) \in 0 .. Len(t)
         /\ NextToken(t, p, Word) = [from |-> p, to |-> p + HeadLen(l)]
         /\ ParseStatus(t, p).key = l.key
<1> DEFINE h == l.key \o <<Colon>>
           k == l.key
           e == p + HeadLen(l)
<1>1. h \in Seq(Word) /\ Len(h) = HeadLen(l) /\ k \in Seq(Word) /\ Len(k) \in Nat /\ HeadLen(l) = Len(k) + 1
  BY EntryIs DEF HeadLen
<1>2. Blank \notin Word
  BY SymbolsDiffer
<1>3. Len(t) \in Nat
  BY LenProperties DEF Text
<1>4. Lies(t, p, h) /\ Lies(t, p, k)
  OBVIOUS
<1>. HIDE DEF h, k, e
<1>5. Len(h) \in Nat \ {0} /\ e = p + Len(h) /\ e - 1 = p + Len(k) /\ p < e /\ e \in Nat
  BY <1>1 DEF e
<1>6. RunEnd(t, p, {Blank}) /\ p < Len(t)
  BY <1>1, <1>2, <1>4, <1>5, WordBegins
<1>7. SkipWhitespace(t, p) = p
  <2>1. p \in 0 .. Len(t)
    BY <1>3, <1>6
  <2>. QED
    BY <1>6, <2>1, NoBlank
<1>8. /\ e \in p .. Len(t) /\ Run(t, p, e, Word) /\ p \in p .. Len(t) /\ p \in 0 .. Len(t)
      /\ p \in 0 .. Len(t) - 1 /\ e \in 0 .. Len(t)
  <2>1. p + Len(h) \in p .. Len(t) /\ Run(t, p, p + Len(h), Word)
    BY <1>1, <1>4, LiesPiece
  <2>2. e \in p .. Len(t) /\ Run(t, p, e, Word)
    BY <1>5, <2>1, Zenon
  <2>. QED
    BY <1>3, <1>6, <2>2
<1>9. RunEnd(t, e, Word)
  BY DEF e
<1>10. NextToken(t, p, Word) = [from |-> p, to |-> e]
  BY <1>7, <1>8, <1>9, TokenIs
<1>11. Piece(t, [from |-> p, to |-> p + Len(k)]) = k
  BY <1>1, <1>4, LiesPiece
<1>12. ParseStatus(t, p).key = k
  <2> DEFINE key == NextToken(t, p, Word)
  <2>1. ParseStatus(t, p).key = IF key.to = key.from THEN <<>> ELSE Piece(t, [from |-> key.from, to |-> key.to - 1])
    BY DEF ParseStatus
  <2>2. key.from = p /\ key.to = e /\ e # p
    BY <1>5, <1>10
  <2>3. ParseStatus(t, p).key = Piece(t, [from |-> p, to |-> e - 1])
    <3>. HIDE DEF key
    <3>. QED
      BY <2>1, <2>2
  <2>. QED
    BY <1>5, <1>11, <2>3, Zenon
<1>. QED
  BY <1>8, <1>10, <1>12, Zenon DEF e, k

\* The values of a line that read as V, and as numbers where they are.
Gives(t, values, V) ==
    /\ DOMAIN values = 1 .. Len(V)
    /\ \A i \in 1 .. Len(V) : /\ ReadsNow(t, values[i]) = V[i]
                              /\ IsNumber(values[i]) <=> IsInteger(V[i])
                              /\ IsInteger(V[i]) => values[i] = [number |-> V[i]]

\* A value reads as its token did when it was parsed.
LEMMA ValueReads ==
  ASSUME NEW t, NEW token
  PROVE  LET value == ValueOf(t, token)
             v == Piece(t, token)
         IN  /\ ReadsNow(t, value) = v
             /\ IsNumber(value) <=> IsInteger(v)
             /\ IsInteger(v) => value = [number |-> v]
<1> DEFINE value == ValueOf(t, token)
           v == Piece(t, token)
<1>1. value = IF IsInteger(v) THEN [number |-> v] ELSE [view |-> token]
  BY Zenon DEF ValueOf
<1>. HIDE DEF v, value
<1>2. CASE IsInteger(v)
  <2>1. value = [number |-> v]
    BY <1>1, <1>2
  <2>2. IsNumber(value) /\ value.number = v
    BY <2>1 DEF IsNumber
  <2>. QED
    BY <1>2, <2>1, <2>2 DEF ReadsNow, v, value
<1>3. CASE ~IsInteger(v)
  <2>1. value = [view |-> token]
    BY <1>1, <1>3
  <2>2. ~IsNumber(value) /\ value.view = token
    BY <2>1 DEF IsNumber
  <2>3. ReadsNow(t, value) = v
    BY <2>2, Zenon DEF ReadsNow, v
  <2>. QED
    BY <1>3, <2>2, <2>3, Zenon DEF v, value
<1>. QED
  BY <1>2, <1>3

\* A line that lies whole in the text is read as it is.
LEMMA LineRead ==
  ASSUME NEW l, IsEntry(l), NEW t \in Text, NEW p \in Nat, EntryLies(t, p, l)
  PROVE  /\ p \in 0 .. Len(t) - 1
         /\ LineAt(t, p).key = l.key
         /\ Gives(t, LineAt(t, p).values, ValuesOf(l))
         /\ LineBehind(t, p) = p + LineFeedAt(l) + 1
<1> DEFINE V == ValuesOf(l)
           m == Len(V)
           e == p + HeadLen(l)
           z == p + LineFeedAt(l)
           k == ParseStatus(t, p)
<1>1. m \in Nat /\ StopsAre(l, V, m)
  BY StopsLaid
<1>2. ValuesLie(t, p, l, V, m)
  BY ValuesLaid
<1>3. /\ StopAt(l, 1) = HeadLen(l) /\ StopAt(l, m + 1) = LineFeedAt(l)
      /\ \A i \in 1 .. m + 1 : StopAt(l, i) \in Nat
  BY <1>1, Zenon DEF StopsAre
<1>4. Len(t) \in Nat
  BY LenProperties DEF Text
<1>5. LineFeedAt(l) \in Nat /\ HeadLen(l) \in Nat
  <2>1. 1 \in 1 .. m + 1 /\ m + 1 \in 1 .. m + 1
    BY <1>1
  <2>. QED
    BY <1>3, <2>1
<1>6. Lies(t, z, <<NewLine>>) /\ z \in Nat /\ e \in Nat
  <2>1. Lies(t, z, <<NewLine>>)
    BY Zenon DEF EntryLies
  <2>. QED
    BY <1>5, <2>1
<1>7. z < Len(t) /\ At(t, z) = NewLine
  <2>. HIDE DEF z
  <2>. QED
    BY <1>6, LiesOne
<1>8. RunEnd(t, e, Word)
  <2>1. CASE m = 0
    <3>1. e = z
      BY <1>3, <2>1
    <3>. QED
      BY <1>7, <3>1, SymbolsDiffer DEF RunEnd
  <2>2. CASE m # 0
    <3>1. 1 \in 1 .. m
      BY <1>1, <2>2
    <3>2. Lies(t, e, <<Blank>>)
      BY <1>2, <1>3, <3>1, Zenon DEF ValuesLie
    <3>3. At(t, e) = Blank
      <4>. HIDE DEF e
      <4>. QED
        BY <1>6, <3>2, LiesOne
    <3>. QED
      BY <3>3, SymbolsDiffer DEF RunEnd
  <2>. QED
    BY <2>1, <2>2
<1>9. Lies(t, p, l.key \o <<Colon>>) /\ Lies(t, p, l.key)
  BY Zenon DEF EntryLies
<1>10. /\ p \in 0 .. Len(t) - 1 /\ e \in 0 .. Len(t)
       /\ NextToken(t, p, Word) = [from |-> p, to |-> e]
       /\ k.key = l.key
  BY <1>8, <1>9, KeyRead
<1> DEFINE tokens == TokensFrom(t, e)
<1>11. TokensRead(tokens, p, l, m)
  BY <1>1, <1>2, LineTokens
<1>12. Len(tokens) = m /\ tokens \in Seq(Spans) /\ \A i \in 1 .. m : tokens[i] = ValueSpan(p, l, i)
  BY <1>11, Zenon DEF TokensRead
<1>13. k.values = tokens /\ k.pos = EndOf(e, tokens)
  <2>1. NextToken(t, p, Word).to = e
    BY <1>10
  <2>2. k.values = TokensFrom(t, NextToken(t, p, Word).to) /\ k.pos = EndOf(NextToken(t, p, Word).to, k.values)
    BY <1>10, StatusMoves
  <2>. HIDE DEF k, e
  <2>. QED
    BY <2>1, <2>2
<1>14. EndOf(e, tokens) = z
  <2>1. CASE m = 0
    <3>1. e = z
      BY <1>3, <2>1
    <3>2. tokens = <<>>
      <4>. HIDE DEF tokens
      <4>. QED
        BY <1>12, <2>1, EmptySeq
    <3>. QED
      BY <3>1, <3>2, Zenon DEF EndOf
  <2>2. CASE m # 0
    <3>1. m \in 1 .. m
      BY <1>1, <2>2
    <3>2. tokens # <<>>
      <4>. HIDE DEF tokens
      <4>. QED
        BY <1>12, <2>2
    <3>3. ValueSpan(p, l, m).to = z
      BY <1>3 DEF ValueSpan
    <3>4. tokens[Len(tokens)].to = z
      <4>. HIDE DEF tokens, z, m
      <4>. QED
        BY <1>12, <3>1, <3>3, Zenon
    <3>. QED
      BY <3>2, <3>4, Zenon DEF EndOf
  <2>. QED
    BY <2>1, <2>2
<1>15. LineBehind(t, p) = z + 1
  <2>1. LineBehind(t, p) = NextLine(t, z)
    BY <1>13, <1>14, Zenon DEF LineBehind
  <2>. HIDE DEF z
  <2>2. NextLine(t, z) = z + 1
    BY <1>6, NextLineIs
  <2>. QED
    BY <2>1, <2>2, Zenon
<1>16. LineAt(t, p).key = l.key
  BY <1>10 DEF LineAt
<1> DEFINE values == LineAt(t, p).values
<1>17. values = [i \in 1 .. m |-> ValueOf(t, tokens[i])]
  <2>1. values = [i \in DOMAIN k.values |-> ValueOf(t, k.values[i])]
    BY DEF LineAt
  <2>2. DOMAIN tokens = 1 .. m
    <3>. HIDE DEF tokens, m
    <3>. QED
      BY <1>12, LenProperties
  <2>. HIDE DEF k, values, tokens
  <2>. QED
    BY <1>13, <2>1, <2>2, Zenon
<1>18. Gives(t, values, V)
  <2>1. DOMAIN values = 1 .. Len(V)
    <3>. HIDE DEF values, tokens
    <3>. QED
      BY <1>17
  <2>2. ASSUME NEW i \in 1 .. Len(V)
        PROVE  /\ ReadsNow(t, values[i]) = V[i]
               /\ IsNumber(values[i]) <=> IsInteger(V[i])
               /\ IsInteger(V[i]) => values[i] = [number |-> V[i]]
    <3> DEFINE span == ValueSpan(p, l, i)
    <3>1. Piece(t, span) = V[i]
      BY <1>1, <1>2, ValueToken
    <3>2. values[i] = ValueOf(t, span)
      <4>1. tokens[i] = span
        BY <1>12, Zenon
      <4>. HIDE DEF values, tokens, span
      <4>2. values[i] = ValueOf(t, tokens[i])
        BY <1>17
      <4>. QED
        BY <4>1, <4>2, Zenon
    <3>. HIDE DEF span, values, V
    <3>3. /\ ReadsNow(t, ValueOf(t, span)) = Piece(t, span)
          /\ IsNumber(ValueOf(t, span)) <=> IsInteger(Piece(t, span))
          /\ IsInteger(Piece(t, span)) => ValueOf(t, span) = [number |-> Piece(t, span)]
      BY ValueReads, Zenon
    <3>. QED
      BY <3>1, <3>2, <3>3, Zenon
  <2>. HIDE DEF values, V
  <2>. QED
    BY <2>1, <2>2, Zenon DEF Gives
<1>. QED
  BY <1>10, <1>15, <1>16, <1>18, Zenon DEF z

--------------------------------------------------------------------------------
(* What load has of a file *)

\* Where the i-th line of a status file ends.
StatusEnds(f, i) == Len(StatusText(SubSeq(f, 1, i)))
StatusLaid(f, i) == /\ IsEntry(f[i]) /\ StatusEnds(f, i - 1) \in Nat
                    /\ StatusEnds(f, i) = StatusEnds(f, i - 1) + (LineFeedAt(f[i]) + 1)
                    /\ Lies(StatusText(f), StatusEnds(f, i - 1), StatusLine(f[i]))

\* The lines of a status file lie in its text one behind the other.
LEMMA StatusFileLaid ==
  ASSUME NEW f, IsStatus(f)
  PROVE  /\ Len(f) \in Nat /\ DOMAIN f = 1 .. Len(f) /\ StatusText(f) \in Text
         /\ StatusEnds(f, 0) = 0 /\ StatusEnds(f, Len(f)) = Len(StatusText(f))
         /\ \A i \in 1 .. Len(f) : StatusLaid(f, i)
<1> DEFINE d == Len(f)
           s == [i \in DOMAIN f |-> StatusLine(f[i])]
<1>1. f \in Seq(Range(f)) /\ d \in Nat /\ DOMAIN f = 1 .. d /\ \A i \in 1 .. d : f[i] \in Range(f)
  BY LenProperties DEF IsStatus, Range
<1>2. \A i \in 1 .. d : IsEntry(f[i])
  BY <1>1 DEF IsStatus
<1>3. \A i \in 1 .. d : /\ StatusLine(f[i]) \in Text /\ Len(StatusLine(f[i])) = LineFeedAt(f[i]) + 1
                        /\ LineFeedAt(f[i]) \in Nat
  BY <1>2, EntryLaid
<1>4. StatusText(f) = FlattenSeq(s)
  BY Zenon DEF StatusText
<1>5. s \in Seq(Text) /\ Len(s) = d /\ \A i \in 1 .. d : s[i] = StatusLine(f[i])
  BY <1>1, <1>3
<1>6. ASSUME NEW n \in 0 .. d PROVE StatusEnds(f, n) = Upto(s, n)
  <2> DEFINE g == SubSeq(f, 1, n)
             r == [i \in DOMAIN g |-> StatusLine(g[i])]
  <2>1. DOMAIN g = 1 .. n /\ \A i \in 1 .. n : g[i] = f[i]
    BY <1>1
  <2>2. SubSeq(s, 1, n) = [i \in 1 .. n |-> s[i]]
    BY <1>1, <1>5
  <2>. HIDE DEF g
  <2>3. r = [i \in 1 .. n |-> StatusLine(f[i])]
    BY <2>1
  <2>4. [i \in 1 .. n |-> s[i]] = [i \in 1 .. n |-> StatusLine(f[i])]
    BY <1>1, <1>5
  <2>5. SubSeq(s, 1, n) = r
    BY <2>2, <2>3, <2>4, Zenon
  <2>. QED
    BY <2>5, Zenon DEF StatusEnds, Upto, StatusText, g
<1>. HIDE DEF d, s
<1>7. /\ FlattenSeq(s) \in Text /\ Upto(s, 0) = 0 /\ Upto(s, d) = Len(FlattenSeq(s))
      /\ \A n \in 1 .. d : Laid(Symbols, s, n)
  BY <1>1, <1>5, FlattenLaid, Zenon DEF Text
<1>8. ASSUME NEW n \in 1 .. d PROVE StatusLaid(f, n)
  <2>1. n - 1 \in 0 .. d /\ n \in 0 .. d
    BY <1>1
  <2>2. StatusEnds(f, n - 1) = Upto(s, n - 1) /\ StatusEnds(f, n) = Upto(s, n)
    BY <1>6, <2>1, Zenon
  <2>3. s[n] = StatusLine(f[n])
    BY <1>5
  <2>4. Len(s[n]) = LineFeedAt(f[n]) + 1
    BY <1>3, <2>3
  <2>5. Laid(Symbols, s, n)
    BY <1>7
  <2>. QED
    BY <1>2, <1>4, <2>2, <2>3, <2>4, <2>5, Zenon DEF Laid, StatusLaid
<1>9. StatusEnds(f, 0) = 0 /\ StatusEnds(f, d) = Len(StatusText(f))
  <2>1. 0 \in 0 .. d /\ d \in 0 .. d
    BY <1>1
  <2>. QED
    BY <1>4, <1>6, <1>7, <2>1, Zenon
<1>. QED
  BY <1>1, <1>4, <1>7, <1>8, <1>9, Zenon DEF d

\* Later lines end later.
LEMMA StatusEndsGrow ==
  ASSUME NEW f, IsStatus(f)
  PROVE  /\ \A n \in 0 .. Len(f) : StatusEnds(f, n) \in Nat
         /\ \A n \in 0 .. Len(f) : \A m \in 0 .. n : StatusEnds(f, m) <= StatusEnds(f, n)
<1> DEFINE d == Len(f)
           T == {n \in 0 .. d : \A m \in 0 .. n : StatusEnds(f, m) \in Nat /\ StatusEnds(f, m) <= StatusEnds(f, n)}
<1>1. d \in Nat /\ StatusEnds(f, 0) = 0 /\ \A n \in 1 .. d : StatusLaid(f, n) /\ LineFeedAt(f[n]) \in Nat
  <2>1. d \in Nat /\ StatusEnds(f, 0) = 0 /\ \A n \in 1 .. d : StatusLaid(f, n)
    BY StatusFileLaid
  <2>2. \A n \in 1 .. d : IsEntry(f[n])
    BY <2>1, Zenon DEF StatusLaid
  <2>. QED
    BY <2>1, <2>2, EntryLaid
<1>2. 0 \in T
  BY <1>1
<1>3. ASSUME NEW n \in 1 .. d, n - 1 \in T PROVE n \in T
  <2>1. /\ StatusEnds(f, n - 1) \in Nat /\ LineFeedAt(f[n]) \in Nat
        /\ StatusEnds(f, n) = StatusEnds(f, n - 1) + (LineFeedAt(f[n]) + 1)
    BY <1>1 DEF StatusLaid
  <2>2. StatusEnds(f, n) \in Nat /\ StatusEnds(f, n - 1) <= StatusEnds(f, n) /\ StatusEnds(f, n) <= StatusEnds(f, n)
    BY <2>1
  <2>3. ASSUME NEW m \in 0 .. n PROVE StatusEnds(f, m) \in Nat /\ StatusEnds(f, m) <= StatusEnds(f, n)
    <3>1. CASE m = n
      BY <2>2, <3>1
    <3>2. CASE m # n
      <4>1. m \in 0 .. n - 1
        BY <1>1, <3>2
      <4>2. StatusEnds(f, m) \in Nat /\ StatusEnds(f, m) <= StatusEnds(f, n - 1)
        BY <1>3, <4>1
      <4>. QED
        BY <2>1, <2>2, <4>2
    <3>. QED
      BY <3>1, <3>2
  <2>4. n \in 0 .. d
    BY <1>1
  <2>. QED
    BY <2>2, <2>3, <2>4
<1>4. \A n \in 0 .. d : n \in T
  <2>. HIDE DEF T, d
  <2>. QED
    BY <1>1, <1>2, <1>3, UpTo, Zenon
<1>. QED
  BY <1>4

\* The text that load has of f where it has read n symbols.
LEMMA PrefixText ==
  ASSUME NEW u \in Text, NEW n \in 0 .. Len(u)
  PROVE  LET t == SubSeq(u, 1, n) IN t \in Text /\ Len(t) = n /\ Prefix(t, u)
<1>1. u \in Seq(Symbols) /\ Len(u) \in Nat
  BY LenProperties DEF Text
<1> DEFINE t == SubSeq(u, 1, n)
<1>2. t \in Seq(Symbols) /\ Len(t) = n /\ \A i \in 1 .. n : t[i] = u[i]
  BY <1>1
<1>. QED
  BY <1>1, <1>2 DEF Prefix, Text

\* A line that such a text has whole lies in it.
LEMMA StatusWhole ==
  ASSUME NEW f, IsStatus(f), NEW t \in Text, Prefix(t, StatusText(f)),
         NEW i \in 1 .. Len(f), StatusEnds(f, i) <= Len(t)
  PROVE  IsEntry(f[i]) /\ StatusEnds(f, i - 1) \in Nat /\ EntryLies(t, StatusEnds(f, i - 1), f[i])
<1> DEFINE u == StatusText(f)
           l == f[i]
           p == StatusEnds(f, i - 1)
           s == StatusLine(l)
<1>1. u \in Text /\ StatusLaid(f, i)
  BY StatusFileLaid
<1>2. IsEntry(l) /\ p \in Nat /\ StatusEnds(f, i) = p + (LineFeedAt(l) + 1) /\ Lies(u, p, s)
  BY <1>1, Zenon DEF StatusLaid
<1>3. /\ Len(s) = LineFeedAt(l) + 1 /\ LineFeedAt(l) \in Nat
      /\ \A r \in Text : \A q \in Nat : Lies(r, q, s) => EntryLies(r, q, l)
  BY <1>2, EntryLaid
<1>. HIDE DEF u, l, p, s
<1>4. Len(s) \in Nat /\ p + Len(s) <= Len(t)
  BY <1>2, <1>3
<1>5. Lies(t, p, s)
  <2>1. Prefix(t, u)
    BY DEF u
  <2>. QED
    BY <1>1, <1>2, <1>4, <2>1, PrefixLies
<1>. QED
  BY <1>2, <1>3, <1>5 DEF l, p

\* A line's only line feed is its last symbol.
LEMMA EntryBody ==
  ASSUME NEW l, IsEntry(l)
  PROVE  \A i \in 1 .. LineFeedAt(l) : StatusLine(l)[i] # NewLine
<1> DEFINE n == Len(l.words)
           a == l.key \o <<Colon>>
           s == BlankWords(l)
           b == FlattenSeq(s)
           c == IF l.trailing THEN <<Blank, NewLine>> ELSE <<NewLine>>
           ab == a \o b
           z == IF l.trailing THEN 1 ELSE 0
<1>1. StatusLine(l) = ab \o c
  BY Zenon DEF StatusLine, BlankWords
<1>2. Word \subseteq Line /\ Blank \in Line /\ NewLine \notin Line
  BY SymbolsDiffer
<1>3. a \in Seq(Line)
  <2>. HIDE DEF a
  <2>1. a \in Seq(Word)
    BY EntryIs DEF a
  <2>. QED
    BY <1>2, <2>1, SeqMonotonic, Zenon
<1>4. b \in Seq(Line)
  <2>1. n \in Nat /\ DOMAIN l.words = 1 .. n /\ \A i \in 1 .. n : l.words[i] \in Seq(Word)
    BY EntryIs
  <2> DEFINE x == <<Blank>>
  <2>2. x \in Seq(Line)
    BY <1>2
  <2>. HIDE DEF x, n
  <2>3. ASSUME NEW i \in 1 .. n PROVE x \o l.words[i] \in Seq(Line)
    <3> DEFINE y == l.words[i]
    <3>1. y \in Seq(Line)
      BY <1>2, <2>1, SeqMonotonic, Zenon
    <3>. HIDE DEF y
    <3>2. x \o y \in Seq(Line)
      BY <2>2, <3>1, ConcatProperties
    <3>. QED
      BY <3>2 DEF y
  <2>4. s = [i \in 1 .. n |-> x \o l.words[i]]
    BY <2>1, Zenon DEF BlankWords, x
  <2>. HIDE DEF s
  <2>5. s \in Seq(Seq(Line)) /\ Len(s) = n
    <3>1. s \in [1 .. n -> Seq(Line)]
      BY <2>3, <2>4
    <3>. QED
      BY <2>1, <3>1
  <2>6. FlattenSeq(s) \in Seq(Line)
    BY <2>1, <2>5, FlattenLaid
  <2>. QED
    BY <2>6
<1>. HIDE DEF a, b
<1>5. ab \in Seq(Line)
  BY <1>3, <1>4, ConcatProperties
<1>6. l.trailing \in BOOLEAN
  BY DEF IsEntry
<1>7. Blank \in Symbols /\ NewLine \in Symbols /\ Line \subseteq Symbols
  BY SymbolsDiffer DEF Symbols
<1>8. c \in Seq(Symbols) /\ Len(c) = z + 1 /\ z \in {0, 1} /\ (z = 1 => c[1] = Blank)
  BY <1>6, <1>7
<1>. HIDE DEF c, z, ab
<1>9. ab \in Seq(Symbols) /\ Len(ab) \in Nat /\ \A i \in 1 .. Len(ab) : ab[i] \in Line
  <2>1. ab \in Seq(Symbols)
    BY <1>5, <1>7, SeqMonotonic, Zenon
  <2>2. Len(ab) \in Nat /\ \A i \in 1 .. Len(ab) : ab[i] \in Line
    BY <1>5, ElementOfSeq, LenProperties
  <2>. QED
    BY <2>1, <2>2
<1>10. /\ Len(ab \o c) = Len(ab) + Len(c)
       /\ \A i \in 1 .. Len(ab) + Len(c) : (ab \o c)[i] = IF i <= Len(ab) THEN ab[i] ELSE c[i - Len(ab)]
  BY <1>8, <1>9, ConcatProperties
<1> DEFINE u == ab \o c
           e == LineFeedAt(l)
<1>11. Len(u) = e + 1 /\ e \in Nat
  BY <1>1, EntryLaid
<1>. HIDE DEF u, e
<1>12. e = Len(ab) + z
  BY <1>8, <1>9, <1>10, <1>11 DEF u
<1>13. ASSUME NEW i \in 1 .. e PROVE u[i] # NewLine
  <2>1. i \in 1 .. Len(ab) + Len(c)
    BY <1>8, <1>9, <1>12
  <2>2. u[i] = IF i <= Len(ab) THEN ab[i] ELSE c[i - Len(ab)]
    BY <1>10, <2>1, Zenon DEF u
  <2>3. CASE i <= Len(ab)
    <3>1. i \in 1 .. Len(ab)
      BY <2>3
    <3>. QED
      BY <1>2, <1>9, <2>2, <3>1
  <2>4. CASE ~(i <= Len(ab))
    <3>1. i - Len(ab) = 1 /\ z = 1
      BY <1>8, <1>9, <1>12, <2>4
    <3>2. u[i] = c[1]
      BY <2>2, <2>4, <3>1
    <3>. QED
      BY <1>2, <1>8, <3>1, <3>2
  <2>. QED
    BY <2>3, <2>4
<1>. QED
  BY <1>1, <1>13 DEF u, e

\* How many lines of f a text of n symbols has whole.
Whole1(f, n, w) == /\ w \in 0 .. Len(f) /\ StatusEnds(f, w) <= n
                   /\ w < Len(f) => n < StatusEnds(f, w + 1)

\* Some number of lines fits.
LEMMA WholeExists ==
  ASSUME NEW f, IsStatus(f), NEW n \in Nat
  PROVE  \E w : Whole1(f, n, w)
<1> DEFINE d == Len(f)
           T == {w \in 0 .. d : StatusEnds(f, w) <= n}
<1>1. d \in Nat /\ StatusEnds(f, 0) = 0
  BY StatusFileLaid
<1>2. CASE \A w \in 1 .. d : w - 1 \in T => w \in T
  <2>1. 0 \in T
    BY <1>1
  <2>2. \A w \in 0 .. d : w \in T
    <3>. HIDE DEF T, d
    <3>. QED
      BY <1>1, <1>2, <2>1, UpTo, Zenon
  <2>3. d \in T
    BY <1>1, <2>2
  <2>4. Whole1(f, n, d)
    BY <2>3 DEF Whole1
  <2>. QED
    BY <2>4
<1>3. ASSUME NEW w \in 1 .. d, w - 1 \in T, w \notin T PROVE \E v : Whole1(f, n, v)
  <2> DEFINE v == w - 1
  <2>1. v \in 0 .. d /\ StatusEnds(f, v) <= n /\ v + 1 = w /\ v < d /\ w \in 0 .. d
    BY <1>1, <1>3
  <2>2. StatusEnds(f, w) \in Nat
    BY <2>1, StatusEndsGrow
  <2>3. ~(StatusEnds(f, w) <= n)
    BY <1>3, <2>1
  <2>4. n < StatusEnds(f, w)
    BY <2>2, <2>3
  <2>. HIDE DEF v
  <2>5. Whole1(f, n, v)
    BY <2>1, <2>4 DEF Whole1
  <2>. QED
    BY <2>5
<1>. QED
  BY <1>2, <1>3

\* A line has come whole if it is among the first w.
LEMMA WholeUpTo ==
  ASSUME NEW f, IsStatus(f), NEW n \in Nat, NEW w, Whole1(f, n, w)
  PROVE  \A i \in 1 .. Len(f) : StatusEnds(f, i) <= n <=> i <= w
<1>1. Len(f) \in Nat /\ w \in 0 .. Len(f) /\ StatusEnds(f, w) <= n /\ (w < Len(f) => n < StatusEnds(f, w + 1))
  BY StatusFileLaid DEF Whole1
<1>2. /\ \A h \in 0 .. Len(f) : StatusEnds(f, h) \in Nat
      /\ \A h \in 0 .. Len(f) : \A m \in 0 .. h : StatusEnds(f, m) <= StatusEnds(f, h)
  BY StatusEndsGrow
<1>3. ASSUME NEW i \in 1 .. Len(f) PROVE StatusEnds(f, i) <= n <=> i <= w
  <2>1. i \in 0 .. Len(f) /\ StatusEnds(f, i) \in Nat /\ StatusEnds(f, w) \in Nat
    BY <1>1, <1>2
  <2>2. CASE i <= w
    <3>1. i \in 0 .. w
      BY <1>1, <2>2
    <3>2. StatusEnds(f, i) <= StatusEnds(f, w)
      BY <1>1, <1>2, <3>1
    <3>. QED
      BY <1>1, <2>1, <2>2, <3>2
  <2>3. CASE ~(i <= w)
    <3> DEFINE v == w + 1
    <3>1. v \in 0 .. i /\ w < Len(f) /\ v \in 0 .. Len(f)
      BY <1>1, <2>3
    <3>2. n < StatusEnds(f, v)
      BY <1>1, <3>1
    <3>. HIDE DEF v
    <3>3. StatusEnds(f, v) <= StatusEnds(f, i) /\ StatusEnds(f, v) \in Nat
      BY <1>2, <2>1, <3>1
    <3>. QED
      BY <2>1, <2>3, <3>2, <3>3
  <2>. QED
    BY <2>2, <2>3
<1>. QED
  BY <1>3

\* What is left of the line that was cut has no line feed.
LEMMA CutHasNoFeed ==
  ASSUME NEW f, IsStatus(f), NEW t \in Text, Prefix(t, StatusText(f)),
         NEW w, Whole1(f, Len(t), w), StatusEnds(f, w) < Len(t)
  PROVE  /\ w + 1 \in 1 .. Len(f) /\ StatusEnds(f, w) \in Nat
         /\ Len(t) <= StatusEnds(f, w) + LineFeedAt(f[w + 1])
         /\ \A q \in StatusEnds(f, w) .. Len(t) - 1 : At(t, q) # NewLine
<1> DEFINE u == StatusText(f)
           i == w + 1
           l == f[i]
           p == StatusEnds(f, w)
           s == StatusLine(l)
<1>1. Len(f) \in Nat /\ u \in Text /\ StatusEnds(f, Len(f)) = Len(u) /\ \A n \in 1 .. Len(f) : StatusLaid(f, n)
  BY StatusFileLaid
<1>2. w \in 0 .. Len(f) /\ (w < Len(f) => Len(t) < StatusEnds(f, i))
  BY DEF Whole1
<1>3. Len(t) \in Nat /\ Len(u) \in Nat /\ Len(t) <= Len(u) /\ \A n \in 1 .. Len(t) : t[n] = u[n]
  BY <1>1, LenProperties DEF Text, Prefix
<1>4. p \in Nat
  BY <1>2, StatusEndsGrow
<1>5. w # Len(f)
  BY <1>1, <1>3, <1>4
<1>6. i \in 1 .. Len(f) /\ i - 1 = w /\ Len(t) < StatusEnds(f, i)
  BY <1>1, <1>2, <1>5
<1>7. IsEntry(l) /\ StatusEnds(f, i) = p + (LineFeedAt(l) + 1) /\ Lies(u, p, s)
  <2>1. StatusLaid(f, i)
    BY <1>1, <1>6, Zenon
  <2>. HIDE DEF i
  <2>. QED
    BY <1>6, <2>1, Zenon DEF StatusLaid
<1>8. Len(s) = LineFeedAt(l) + 1 /\ LineFeedAt(l) \in Nat /\ \A n \in 1 .. LineFeedAt(l) : s[n] # NewLine
  BY <1>7, EntryLaid, EntryBody
<1>9. \A n \in 1 .. Len(s) : u[p + n] = s[n]
  BY <1>7 DEF Lies
<1>10. Len(t) <= p + LineFeedAt(l)
  <2>. HIDE DEF p, l, i
  <2>. QED
    BY <1>3, <1>4, <1>6, <1>7, <1>8
<1>11. ASSUME NEW q \in p .. Len(t) - 1 PROVE At(t, q) # NewLine
  <2> DEFINE n == q - p + 1
  <2>. HIDE DEF p, l, i, u, s
  <2>1. n \in 1 .. LineFeedAt(l) /\ n \in 1 .. Len(s) /\ q + 1 \in 1 .. Len(t) /\ p + n = q + 1
    BY <1>3, <1>4, <1>8, <1>10
  <2>. HIDE DEF n
  <2>2. t[q + 1] = u[q + 1] /\ u[p + n] = s[n] /\ s[n] # NewLine
    BY <1>3, <1>8, <1>9, <2>1, Zenon
  <2>. QED
    BY <2>1, <2>2, Zenon DEF At
<1>. QED
  BY <1>4, <1>6, <1>10, <1>11, Zenon DEF i, l, p

\* The line of the file that is read i-th.
LineOf(f, t, i) == LineAt(t, StatusEnds(f, i - 1))

\* load goes through the whole lines, and one more where there is a rest.
LinesGot(f, t, w, n) == /\ n \in Nat /\ n = IF StatusEnds(f, w) = Len(t) THEN w ELSE w + 1
                        /\ DOMAIN LinesOf(t) = 1 .. n
                        /\ \A i \in 1 .. n : LinesOf(t)[i] = LineOf(f, t, i)

\* The loop in load goes through the lines that came whole and at most one that was cut.
LEMMA LinesRead ==
  ASSUME NEW f, IsStatus(f), NEW t \in Text, Prefix(t, StatusText(f)),
         NEW w, Whole1(f, Len(t), w)
  PROVE  \E n : LinesGot(f, t, w, n)
<1> DEFINE d == Len(t)
           e == StatusEnds(f, w)
           items == [i \in 1 .. w |-> LineOf(f, t, i)]
           S == LinesIn(t)
<1>1. PICK g : LinesAre(t, g)
  BY LinesChain
<1>2. /\ g \in [0 .. d -> Seq(S)] /\ LinesOf(t) = g[0] /\ g[d] = <<>>
      /\ \A p \in 0 .. d - 1 : g[p] = <<LineAt(t, p)>> \o g[LineBehind(t, p)]
  BY <1>1, Zenon DEF LinesAre
<1>3. d \in Nat /\ Len(f) \in Nat /\ w \in 0 .. Len(f) /\ w \in Nat /\ e <= d /\ StatusEnds(f, 0) = 0
  BY StatusFileLaid, LenProperties DEF Whole1, Text
<1>4. \A i \in 0 .. w : StatusEnds(f, i) \in 0 .. d
  <2>1. ASSUME NEW i \in 0 .. w PROVE StatusEnds(f, i) \in 0 .. d
    <3>1. i \in 0 .. Len(f)
      BY <1>3
    <3>2. StatusEnds(f, i) \in Nat /\ StatusEnds(f, w) \in Nat /\ StatusEnds(f, i) <= StatusEnds(f, w)
      BY <1>3, <3>1, StatusEndsGrow
    <3>. QED
      BY <1>3, <3>2
  <2>. QED
    BY <2>1
<1>5. ASSUME NEW i \in 1 .. w
      PROVE  /\ LineOf(f, t, i) \in S /\ StatusEnds(f, i - 1) \in 0 .. d - 1
             /\ g[StatusEnds(f, i - 1)] = <<LineOf(f, t, i)>> \o g[StatusEnds(f, i)]
  <2> DEFINE p == StatusEnds(f, i - 1)
             l == f[i]
  <2>1. i \in 1 .. Len(f) /\ StatusEnds(f, i) <= d
    BY <1>3, <1>4
  <2>2. IsEntry(l) /\ p \in Nat /\ EntryLies(t, p, l)
    BY <2>1, StatusWhole
  <2>3. p \in 0 .. d - 1 /\ LineBehind(t, p) = p + LineFeedAt(l) + 1 /\ LineFeedAt(l) \in Nat
    BY <2>2, LineRead, EntryLaid
  <2>4. StatusEnds(f, i) = p + (LineFeedAt(l) + 1)
    <3>1. StatusLaid(f, i)
      BY <2>1, StatusFileLaid
    <3>. QED
      BY <3>1, Zenon DEF StatusLaid
  <2>5. LineBehind(t, p) = StatusEnds(f, i)
    <3>. HIDE DEF p, l
    <3>. QED
      BY <2>2, <2>3, <2>4
  <2>6. LineOf(f, t, i) = LineAt(t, p)
    BY Zenon DEF LineOf
  <2>7. LineAt(t, p) \in S
    <3>1. p \in 0 .. Len(t)
      BY <1>3, <2>3
    <3>. QED
      BY <3>1 DEF LinesIn
  <2>8. g[p] = <<LineAt(t, p)>> \o g[LineBehind(t, p)]
    <3>. HIDE DEF p
    <3>. QED
      BY <1>2, <2>3, Zenon
  <2>. QED
    BY <2>3, <2>5, <2>6, <2>7, <2>8, Zenon
<1> DEFINE b == [i \in 0 .. w |-> g[StatusEnds(f, i)]]
<1>6. Peels(S, w, items, b)
  <2>1. b \in [0 .. w -> Seq(S)]
    <3>1. ASSUME NEW i \in 0 .. w PROVE g[StatusEnds(f, i)] \in Seq(S)
      <4>1. StatusEnds(f, i) \in 0 .. d
        BY <1>4
      <4>. QED
        BY <1>2, <4>1
    <3>. QED
      BY <3>1
  <2>2. ASSUME NEW i \in 1 .. w PROVE items[i] \in S /\ b[i - 1] = <<items[i]>> \o b[i]
    <3>1. i - 1 \in 0 .. w /\ i \in 0 .. w
      BY <1>3
    <3>2. b[i - 1] = g[StatusEnds(f, i - 1)] /\ b[i] = g[StatusEnds(f, i)]
      BY <3>1
    <3>3. items[i] = LineOf(f, t, i)
      OBVIOUS
    <3>. HIDE DEF items, b, S
    <3>. QED
      BY <1>5, <3>2, <3>3, Zenon
  <2>. HIDE DEF items, b, S
  <2>. QED
    BY <2>1, <2>2, Zenon DEF Peels
<1> DEFINE k == LinesOf(t)
           v == g[e]
<1>7. b[0] = k /\ b[w] = v
  <2>1. 0 \in 0 .. w /\ w \in 0 .. w
    BY <1>3
  <2>2. b[0] = g[StatusEnds(f, 0)] /\ b[w] = g[StatusEnds(f, w)]
    BY <2>1
  <2>. HIDE DEF b
  <2>. QED
    BY <1>2, <1>3, <2>2, Zenon
<1>8. Starts(k, items, w, v)
  <2>1. Starts(b[0], items, w, b[w])
    <3>. HIDE DEF b, items, S
    <3>. QED
      BY <1>3, <1>6, PeeledOff
  <2>. HIDE DEF b, items
  <2>. QED
    BY <1>7, <2>1, Zenon
<1>9. k \in Seq(S)
  <2>1. 0 \in 0 .. d
    BY <1>3
  <2>. HIDE DEF S
  <2>. QED
    BY <1>2, <2>1
<1>10. \A i \in 1 .. w : items[i] = LineOf(f, t, i)
  OBVIOUS
<1>. HIDE DEF items
<1>11. CASE e = d
  <2>1. v = <<>>
    BY <1>2, <1>11
  <2>. HIDE DEF k, v, S
  <2>2. Len(k) = w + Len(v) /\ (\A i \in 1 .. w : k[i] = items[i]) /\ Len(v) = 0
    BY <1>8, <2>1 DEF Starts
  <2>3. Len(k) = w /\ DOMAIN k = 1 .. w
    BY <1>3, <1>9, <2>2, LenProperties
  <2>4. \A i \in 1 .. w : k[i] = LineOf(f, t, i)
    BY <1>10, <2>2, Zenon
  <2>5. LinesGot(f, t, w, w)
    BY <1>3, <1>11, <2>3, <2>4, Zenon DEF LinesGot, k, e, d
  <2>. QED
    BY <2>5
<1>12. CASE e # d
  <2>1. e \in 0 .. d - 1 /\ e < d /\ e \in 0 .. d /\ w \in 0 .. w
    <3>1. w \in 0 .. w
      BY <1>3
    <3>2. e \in 0 .. d
      BY <1>4, <3>1
    <3>. QED
      BY <1>3, <1>12, <3>1, <3>2
  <2>2. \A q \in e .. d - 1 : At(t, q) # NewLine
    BY <2>1, CutHasNoFeed
  <2>3. LineBehind(t, e) = d
    <3> DEFINE z == ParseStatus(t, e).pos
    <3>1. z \in e .. d /\ AtLineEnd(t, z)
      BY <2>1, StatusMoves
    <3>2. z = d
      <4>1. z # d => z \in e .. d - 1
        BY <1>3, <2>1, <3>1
      <4>. HIDE DEF z
      <4>. QED
        BY <2>2, <3>1, <4>1, Zenon DEF AtLineEnd
    <3>. QED
      BY <3>2, NextLineAtEnd, Zenon DEF LineBehind
  <2>4. v = <<LineAt(t, e)>> \o <<>>
    <3>1. v = <<LineAt(t, e)>> \o g[LineBehind(t, e)]
      BY <1>2, <2>1, Zenon
    <3>. HIDE DEF v
    <3>. QED
      BY <1>2, <2>3, <3>1, Zenon
  <2> DEFINE x == LineAt(t, e)
             n == w + 1
  <2>. HIDE DEF k, v, S, x
  <2>5. Len(v) = 1 /\ v[1] = x
    BY <2>4 DEF x
  <2>6. Len(k) = n /\ (\A i \in 1 .. w : k[i] = items[i]) /\ k[n] = x
    BY <1>8, <2>5 DEF Starts
  <2>7. DOMAIN k = 1 .. n /\ n \in Nat
    BY <1>3, <1>9, <2>6, LenProperties
  <2>8. x = LineOf(f, t, n)
    <3>1. n - 1 = w
      BY <1>3
    <3>. HIDE DEF n
    <3>. QED
      BY <3>1, Zenon DEF LineOf, x
  <2>9. \A i \in 1 .. n : k[i] = LineOf(f, t, i)
    <3>1. ASSUME NEW i \in 1 .. n PROVE k[i] = LineOf(f, t, i)
      <4>1. CASE i = n
        BY <2>6, <2>8, <4>1
      <4>2. CASE i # n
        <5>1. i \in 1 .. w
          BY <1>3, <4>2
        <5>. QED
          BY <1>10, <2>6, <5>1, Zenon
      <4>. QED
        BY <4>1, <4>2
    <3>. QED
      BY <3>1
  <2>10. LinesGot(f, t, w, n)
    BY <1>12, <2>7, <2>9, Zenon DEF LinesGot, k, e, d
  <2>. QED
    BY <2>10
<1>. QED
  BY <1>11, <1>12

\* Of a line that the text breaks off in, a value is read only where the key came
\* whole, and the first is at most as long as that of the line.
FirstFits(t, line, l) == /\ line.key = l.key
                         /\ Len(ValuesOf(l)) \in Nat \ {0}
                         /\ Len(ReadsNow(t, line.values[1])) \in 0 .. Len(ValuesOf(l)[1])

\* A prefix of a text has its symbols.
LEMMA PrefixAt ==
  ASSUME NEW t \in Text, NEW u \in Text, Prefix(t, u), NEW q \in 0 .. Len(t) - 1
  PROVE  At(t, q) = At(u, q)
<1>1. q + 1 \in 1 .. Len(t)
  BY LenProperties DEF Text
<1>. QED
  BY <1>1 DEF At, Prefix

\* A token ends where the symbol behind w is none of a word, if it begins where w does.
LEMMA TokenFits ==
  ASSUME NEW t \in Text, NEW u \in Text, Prefix(t, u), NEW p \in 0 .. Len(t),
         NEW k \in Spans, k = NextToken(t, p, Word),
         NEW n \in Nat, NEW x, x \notin Word, Lies(u, k.from + n, <<x>>)
  PROVE  Len(Piece(t, k)) \in 0 .. n
<1>1. /\ k.from \in 0 .. Len(t) /\ k.to \in 0 .. Len(t) /\ k.from <= k.to
      /\ Run(t, k.from, k.to, Word)
  BY Tokens
<1>2. Len(t) \in Nat
  BY LenProperties DEF Text
<1> DEFINE a == k.from
           b == k.to
<1>3. Len(SubSeq(t, a + 1, b)) = b - a
  <2>. HIDE DEF a, b
  <2>1. t \in Seq(Symbols) /\ a \in Nat /\ b \in Nat /\ a <= b /\ b <= Len(t)
    BY <1>1, <1>2 DEF a, b, Text
  <2>. QED
    BY <1>2, <2>1
<1>4. ~(b > a + n)
  <2> DEFINE q == a + n
  <2>1. SUFFICES ASSUME b > q PROVE FALSE
    OBVIOUS
  <2>2. q \in a .. b - 1 /\ q \in 0 .. Len(t) - 1 /\ q \in Nat
    BY <1>1, <1>2, <2>1
  <2>3. Lies(u, q, <<x>>)
    OBVIOUS
  <2>4. At(t, q) \in Word
    BY <1>1, <2>2 DEF Run
  <2>. HIDE DEF q
  <2>5. At(u, q) = x
    BY <2>2, <2>3, LiesOne
  <2>6. At(t, q) = At(u, q)
    BY <2>2, PrefixAt
  <2>. QED
    BY <2>4, <2>5, <2>6
<1>5. Piece(t, k) = SubSeq(t, a + 1, b)
  BY DEF Piece
<1>6. a \in Nat /\ b \in Nat
  BY <1>1, <1>2
<1>. HIDE DEF a, b
<1>7. Len(Piece(t, k)) = b - a
  BY <1>3, <1>5, Zenon
<1>8. a <= b
  BY <1>1 DEF a, b
<1>. QED
  BY <1>4, <1>6, <1>7, <1>8

\* The line that was cut is read as FirstFits says, if it has a value at all.
LEMMA CutRead ==
  ASSUME NEW f, IsStatus(f), NEW t \in Text, Prefix(t, StatusText(f)),
         NEW w, Whole1(f, Len(t), w), StatusEnds(f, w) < Len(t),
         NEW line, line = LineOf(f, t, w + 1), DOMAIN line.values # {}
  PROVE  FirstFits(t, line, f[w + 1])
<1> DEFINE u == StatusText(f)
           i == w + 1
           l == f[i]
           p == StatusEnds(f, w)
           V == ValuesOf(l)
           m == Len(V)
           h == p + HeadLen(l)
           d == Len(t)
           head == l.key \o <<Colon>>
<1>1. /\ i \in 1 .. Len(f) /\ i - 1 = w /\ p \in Nat /\ d <= p + LineFeedAt(l)
      /\ p < d /\ d \in Nat
  <2>1. i \in 1 .. Len(f) /\ p \in Nat /\ d <= p + LineFeedAt(l)
    BY CutHasNoFeed
  <2>2. w \in Nat
    BY StatusFileLaid DEF Whole1
  <2>3. d \in Nat
    BY LenProperties DEF Text
  <2>. QED
    BY <2>1, <2>2, <2>3
<1>2. u \in Text /\ IsEntry(l) /\ EntryLies(u, p, l)
  <2>1. StatusLaid(f, i) /\ u \in Text
    BY <1>1, StatusFileLaid
  <2>2. IsEntry(l) /\ Lies(u, p, StatusLine(l))
    <3>. HIDE DEF i
    <3>. QED
      BY <1>1, <2>1, Zenon DEF StatusLaid
  <2>. QED
    BY <1>1, <2>1, <2>2, EntryLaid
<1>3. Prefix(t, u)
  OBVIOUS
<1>4. line = LineAt(t, p)
  <2>. HIDE DEF i
  <2>1. line = LineOf(f, t, i)
    BY DEF i
  <2>. QED
    BY <1>1, <2>1, Zenon DEF LineOf
<1>. HIDE DEF u, i, p, l
<1>5. m \in Nat /\ StopsAre(l, V, m) /\ ValuesLie(u, p, l, V, m)
  BY <1>1, <1>2, StopsLaid, ValuesLaid
<1>6. /\ StopAt(l, 1) = HeadLen(l) /\ StopAt(l, m + 1) = LineFeedAt(l)
      /\ \A j \in 1 .. m + 1 : StopAt(l, j) \in Nat
      /\ \A j \in 1 .. m : /\ V[j] \in Seq(Word) /\ Len(V[j]) \in Nat
                           /\ j < m => Len(V[j]) # 0
                           /\ StopAt(l, j + 1) = StopAt(l, j) + 1 + Len(V[j])
  BY <1>5, Zenon DEF StopsAre
<1>7. /\ head \in Seq(Word) /\ Len(head) = HeadLen(l) /\ HeadLen(l) \in Nat /\ Len(head) \in Nat \ {0}
      /\ Len(l.key) \in Nat /\ HeadLen(l) = Len(l.key) + 1
  <2>1. head \in Seq(Word) /\ Len(head) = HeadLen(l) /\ Len(l.key) \in Nat
    BY <1>2, EntryIs
  <2>2. HeadLen(l) = Len(l.key) + 1
    BY Zenon DEF HeadLen
  <2>. QED
    BY <2>1, <2>2
<1>8. Lies(u, p, head) /\ Lies(u, p, l.key)
  BY <1>2, Zenon DEF EntryLies
<1> DEFINE key == NextToken(t, p, Word)
<1>9. PICK g : TokensAre(t, g)
  BY TokensChain
<1>10. key.to \in 0 .. d
  BY <1>1, Tokens
<1>11. ParseStatus(t, p).values = TokensFrom(t, key.to)
  BY <1>1, StatusMoves
<1>12. TokensFrom(t, key.to) = g[key.to] /\ (AtLineEnd(t, key.to) => g[key.to] = <<>>)
  BY <1>9, <1>10, Zenon DEF TokensAre
<1> DEFINE tokens == TokensFrom(t, key.to)
<1>13. DOMAIN tokens # {} /\ line.values = [j \in DOMAIN tokens |-> ValueOf(t, tokens[j])]
  <2>1. line.values = [j \in DOMAIN ParseStatus(t, p).values |-> ValueOf(t, ParseStatus(t, p).values[j])]
    BY <1>4 DEF LineAt
  <2>. HIDE DEF key, tokens
  <2>2. line.values = [j \in DOMAIN tokens |-> ValueOf(t, tokens[j])]
    BY <1>11, <2>1 DEF tokens
  <2>. QED
    BY <2>2
<1>14. ~AtLineEnd(t, key.to)
  <2>. HIDE DEF key
  <2>. QED
    BY <1>12, <1>13
<1>15. h < d /\ h \in Nat
  <2>1. h \in Nat
    BY <1>1, <1>7
  <2>2. ~(d <= h)
    <3>1. SUFFICES ASSUME d <= h PROVE FALSE
      OBVIOUS
    <3>2. ASSUME NEW q \in p .. d - 1 PROVE At(t, q) \in Word
      <4> DEFINE n == q - p + 1
      <4>. HIDE DEF head
      <4>1. n \in 1 .. Len(head) /\ p + n = q + 1 /\ q \in 0 .. d - 1
        BY <1>1, <1>7, <3>1
      <4>2. head[n] \in Word
        BY <1>7, <4>1, ElementOfSeq
      <4>3. u[p + n] = head[n]
        BY <1>8, <4>1, Zenon DEF Lies
      <4>. HIDE DEF n
      <4>4. At(t, q) = At(u, q)
        BY <1>2, <1>3, <4>1, PrefixAt
      <4>. QED
        BY <4>1, <4>2, <4>3, <4>4, Zenon DEF At
    <3>3. Run(t, p, d, Word) /\ RunEnd(t, d, Word)
      BY <3>2 DEF Run, RunEnd
    <3>4. p \in p .. d - 1 /\ p \in 0 .. d /\ d \in p .. d /\ p \in p .. d
      BY <1>1
    <3>5. RunEnd(t, p, {Blank})
      BY <3>2, <3>4, SymbolsDiffer DEF RunEnd
    <3>6. SkipWhitespace(t, p) = p
      BY <3>4, <3>5, NoBlank
    <3>7. key = [from |-> p, to |-> d]
      BY <3>3, <3>4, <3>6, TokenIs
    <3>8. key.to = d
      BY <3>7
    <3>. QED
      BY <1>14, <3>8 DEF AtLineEnd
  <2>. QED
    BY <1>1, <2>1, <2>2
<1>16. Lies(t, p, head) /\ Lies(t, p, l.key)
  <2>. HIDE DEF head
  <2>1. p + Len(head) <= d /\ p + Len(l.key) <= d
    BY <1>1, <1>7, <1>15
  <2>. QED
    BY <1>1, <1>2, <1>3, <1>7, <1>8, <2>1, PrefixLies
<1>17. m \in Nat \ {0} /\ 1 \in 1 .. m
  <2>1. m # 0
    <3>1. SUFFICES ASSUME m = 0 PROVE FALSE
      OBVIOUS
    <3>2. LineFeedAt(l) = HeadLen(l)
      BY <1>6, <3>1
    <3>. QED
      BY <1>1, <1>7, <1>15, <3>2
  <2>. QED
    BY <1>5, <2>1
<1> DEFINE v == V[1]
           r == h + 1
<1>18. v \in Seq(Word) /\ Len(v) \in Nat /\ (1 < m => Len(v) # 0) /\ p + StopAt(l, 2) = r + Len(v) /\ p + StopAt(l, 1) = h
  <2>1. v \in Seq(Word) /\ Len(v) \in Nat /\ (1 < m => Len(v) # 0) /\ StopAt(l, 1 + 1) = StopAt(l, 1) + 1 + Len(v)
    BY <1>6, <1>17
  <2>2. StopAt(l, 1) = HeadLen(l)
    BY <1>6
  <2>. HIDE DEF v
  <2>3. StopAt(l, 2) = HeadLen(l) + 1 + Len(v)
    BY <2>1, <2>2
  <2> DEFINE a == HeadLen(l)
             b == Len(v)
  <2>4. a \in Nat /\ b \in Nat /\ h = p + a /\ r = p + a + 1
    BY <1>7, <2>1
  <2>. HIDE DEF a, b, h, r
  <2>5. p + (a + 1 + b) = r + b
    BY <1>1, <2>4
  <2>6. p + StopAt(l, 2) = r + b
    BY <2>3, <2>5, Zenon DEF a, b
  <2>7. p + StopAt(l, 1) = h
    BY <2>2, <2>4, Zenon DEF a
  <2>. QED
    BY <2>1, <2>6, <2>7, Zenon DEF b
<1>19. Lies(u, h, <<Blank>>) /\ Lies(u, r, v)
  <2>1. Lies(u, p + StopAt(l, 1), <<Blank>>) /\ Lies(u, p + StopAt(l, 1) + 1, V[1])
    BY <1>5, <1>17, Zenon DEF ValuesLie
  <2>. HIDE DEF v, h, V
  <2>. QED
    BY <1>18, <2>1 DEF v
<1>20. PICK x \in {Blank, NewLine} : Lies(u, r + Len(v), <<x>>) /\ (m = 1 => x = NewLine)
  <2>1. CASE m = 1
    <3>1. Lies(u, p + StopAt(l, m + 1), <<NewLine>>)
      BY <1>5, Zenon DEF ValuesLie
    <3>2. m + 1 = 2
      BY <2>1
    <3>3. Lies(u, p + StopAt(l, 2), <<NewLine>>)
      BY <3>1, <3>2, Zenon
    <3>. HIDE DEF v, r, m
    <3>. QED
      BY <1>18, <3>3
  <2>2. CASE m # 1
    <3>1. 2 \in 1 .. m
      <4>. HIDE DEF m
      <4>. QED
        BY <1>17, <2>2
    <3>2. Lies(u, p + StopAt(l, 2), <<Blank>>)
      BY <1>5, <3>1, Zenon DEF ValuesLie
    <3>. HIDE DEF v, r, m
    <3>. QED
      BY <1>18, <2>2, <3>2
  <2>. QED
    BY <2>1, <2>2
<1>21. At(t, h) = Blank /\ h \in 0 .. d - 1 /\ h \in 0 .. d /\ r \in 0 .. d /\ r \in Nat
  <2>1. h \in 0 .. d - 1 /\ h \in 0 .. d /\ r \in 0 .. d /\ r \in Nat
    BY <1>1, <1>15
  <2>. HIDE DEF h
  <2>2. At(u, h) = Blank
    BY <1>2, <1>15, <1>19, LiesOne
  <2>. QED
    BY <1>2, <1>3, <2>1, <2>2, PrefixAt
<1>22. /\ NextToken(t, p, Word) = [from |-> p, to |-> h]
       /\ ParseStatus(t, p).key = l.key
  <2>1. RunEnd(t, p + HeadLen(l), Word)
    BY <1>21, SymbolsDiffer DEF RunEnd
  <2>. QED
    BY <1>1, <1>2, <1>16, <2>1, KeyRead
<1>23. key.to = h
  BY <1>22
<1>24. RunEnd(t, r, {Blank})
  <2>1. CASE r = d
    BY <2>1, Zenon DEF RunEnd
  <2>2. CASE r # d
    <3>1. r \in 0 .. d - 1
      BY <1>1, <1>21, <2>2
    <3>. HIDE DEF r, v, m
    <3>2. At(t, r) = At(u, r)
      BY <1>2, <1>3, <3>1, PrefixAt
    <3>3. CASE Len(v) = 0
      <4>1. m = 1
        BY <1>17, <1>18, <3>3
      <4>2. Lies(u, r, <<NewLine>>)
        <5>1. r + Len(v) = r
          BY <1>21, <3>3
        <5>. QED
          BY <1>20, <4>1, <5>1, Zenon
      <4>3. At(u, r) = NewLine
        BY <1>2, <1>21, <4>2, LiesOne
      <4>. QED
        BY <3>2, <4>3, SymbolsDiffer DEF RunEnd
    <3>4. CASE Len(v) # 0
      <4>1. RunEnd(u, r, {Blank}) /\ r < Len(u)
        <5>1. Len(v) \in Nat \ {0} /\ Blank \notin Word
          BY <1>18, <3>4, SymbolsDiffer
        <5>. QED
          BY <1>2, <1>18, <1>19, <1>21, <5>1, WordBegins
      <4>2. r # Len(u)
        BY <1>21, <4>1
      <4>. QED
        BY <3>2, <4>1, <4>2, Zenon DEF RunEnd
    <3>. QED
      BY <3>3, <3>4
  <2>. QED
    BY <2>1, <2>2
<1> DEFINE k == NextToken(t, h, Word)
<1>25. k \in Spans /\ k.from = r
  <2>1. ~AtLineEnd(t, h)
    <3>. HIDE DEF key, h
    <3>. QED
      BY <1>14, <1>23, Zenon
  <2>2. k \in Spans
    BY <1>21, <2>1, TokenMoves
  <2>3. k.from = SkipWhitespace(t, h)
    BY DEF NextToken
  <2>4. SkipWhitespace(t, h) = r
    <3>. HIDE DEF h
    <3>. QED
      BY <1>15, <1>21, <1>24, OneBlank
  <2>. QED
    BY <2>2, <2>3, <2>4, Zenon
<1>26. Len(Piece(t, k)) \in 0 .. Len(v)
  <2>1. Lies(u, k.from + Len(v), <<x>>)
    <3>. HIDE DEF k, r, v
    <3>. QED
      BY <1>20, <1>25, Zenon
  <2>2. x \notin Word
    BY SymbolsDiffer
  <2>3. k = NextToken(t, h, Word)
    OBVIOUS
  <2>. HIDE DEF k, v, h
  <2>. QED
    BY <1>2, <1>3, <1>18, <1>21, <1>25, <2>1, <2>2, <2>3, TokenFits
<1>27. tokens[1] = k /\ 1 \in DOMAIN tokens
  <2>1. ~AtLineEnd(t, h)
    <3>. HIDE DEF key, h
    <3>. QED
      BY <1>14, <1>23, Zenon
  <2>2. tokens = g[h]
    <3>. HIDE DEF key, h
    <3>. QED
      BY <1>12, <1>23, Zenon DEF tokens
  <2>3. g[h] = <<k>> \o g[k.to] /\ g \in [0 .. d -> Seq(Spans)]
    <3>. HIDE DEF h
    <3>. QED
      BY <1>9, <1>21, <2>1, Zenon DEF TokensAre
  <2>4. g[k.to] \in Seq(Spans)
    <3>1. k.to \in 0 .. d
      BY <1>21, Tokens
    <3>. HIDE DEF k
    <3>. QED
      BY <2>3, <3>1
  <2> DEFINE y == g[k.to]
  <2>. HIDE DEF k, tokens, y
  <2>5. <<k>> \o y \in Seq(Spans) /\ (<<k>> \o y)[1] = k /\ Len(<<k>> \o y) = Len(y) + 1 /\ Len(y) \in Nat
    BY <1>25, <2>4, FrontIs DEF y
  <2> DEFINE z == <<k>> \o y
  <2>6. z = tokens
    BY <2>2, <2>3, Zenon DEF y
  <2>. HIDE DEF z
  <2>7. z \in Seq(Spans) /\ z[1] = k /\ Len(z) = Len(y) + 1 /\ Len(y) \in Nat
    BY <2>5 DEF z
  <2>8. 1 \in DOMAIN z
    BY <2>7, LenProperties
  <2>. QED
    BY <2>6, <2>7, <2>8
<1>28. Len(ReadsNow(t, line.values[1])) \in 0 .. Len(v)
  <2>1. line.values[1] = ValueOf(t, k)
    <3>. HIDE DEF tokens, k
    <3>. QED
      BY <1>13, <1>27
  <2>. HIDE DEF k
  <2>2. ReadsNow(t, ValueOf(t, k)) = Piece(t, k)
    BY ValueReads
  <2>. QED
    BY <1>26, <2>1, <2>2, Zenon
<1>29. line.key = l.key
  <2>1. LineAt(t, p).key = ParseStatus(t, p).key
    BY DEF LineAt
  <2>. QED
    BY <1>4, <1>22, <2>1, Zenon
<1>. QED
  BY <1>17, <1>28, <1>29, Zenon DEF FirstFits, l, i

--------------------------------------------------------------------------------
(* The map *)

\* An empty map.
NoKeys == [k \in {} |-> <<>>]

\* The keys of m, but for those that were asked for before, are in n with their values.
KeptIn(m, n, asked) == \A k \in DOMAIN m \ asked : k \in DOMAIN n /\ n[k] = m[k]

\* The lines of t whose key is k, and what emplace makes of m with them.
KeyAt(t, k) == {i \in DOMAIN LinesOf(t) : LinesOf(t)[i].key = k}
KeysOf(t) == {LinesOf(t)[i].key : i \in DOMAIN LinesOf(t)}

FirstValues(t, k) == LinesOf(t)[Min(KeyAt(t, k))].values
Emplaced(e, m, t) == /\ DOMAIN e = DOMAIN m \cup KeysOf(t)
                     /\ \A k \in DOMAIN m : e[k] = m[k]
                     /\ \A k \in KeysOf(t) \ DOMAIN m : e[k] = FirstValues(t, k)

\* Emplace is what Emplaced says.
LEMMA EmplaceIs ==
  ASSUME NEW m, NEW t
  PROVE  Emplaced(Emplace(m, t), m, t)
<1> DEFINE e == [k \in DOMAIN m \cup KeysOf(t) |->
                    IF k \in DOMAIN m THEN m[k] ELSE LinesOf(t)[Min(KeyAt(t, k))].values]
<1>1. Emplace(m, t) = e
  BY Zenon DEF Emplace, KeysOf, KeyAt
<1>2. /\ DOMAIN e = DOMAIN m \cup KeysOf(t)
      /\ \A k \in DOMAIN m : e[k] = m[k]
      /\ \A k \in KeysOf(t) \ DOMAIN m : e[k] = FirstValues(t, k)
  BY DEF FirstValues
<1>. HIDE DEF e
<1>. QED
  BY <1>1, <1>2, Zenon DEF Emplaced

\* Keys are words, and there are some for the lines there are.
LEMMA KeysAre ==
  ASSUME NEW t \in Text
  PROVE  KeysOf(t) \subseteq Text
<1>1. PICK g : LinesAre(t, g)
  BY LinesChain
<1> DEFINE k == LinesOf(t)
<1>2. k \in Seq(LinesIn(t))
  <2>1. g \in [0 .. Len(t) -> Seq(LinesIn(t))] /\ k = g[0]
    BY <1>1, Zenon DEF LinesAre
  <2>2. 0 \in 0 .. Len(t)
    BY LenProperties DEF Text
  <2>. HIDE DEF k
  <2>. QED
    BY <2>1, <2>2
<1>3. ASSUME NEW i \in DOMAIN k PROVE k[i].key \in Text
  <2>1. k[i] \in LinesIn(t)
    <3>. HIDE DEF k
    <3>. QED
      BY <1>2, ElementOfSeq, LenProperties
  <2>2. PICK p \in 0 .. Len(t) : k[i] = LineAt(t, p)
    BY <2>1, Zenon DEF LinesIn
  <2> DEFINE key == NextToken(t, p, Word)
             a == key.from
             b == key.to
  <2>3. LineAt(t, p).key = ParseStatus(t, p).key
    BY DEF LineAt
  <2>4. ParseStatus(t, p).key = IF key.to = key.from THEN <<>> ELSE Piece(t, [from |-> key.from, to |-> key.to - 1])
    BY DEF ParseStatus
  <2>5. a \in 0 .. Len(t) /\ b \in 0 .. Len(t) /\ a <= b /\ Len(t) \in Nat
    BY Tokens, LenProperties DEF Text
  <2>. HIDE DEF key, k
  <2>6. CASE b = a
    <3>1. ParseStatus(t, p).key = <<>>
      BY <2>4, <2>6 DEF a, b
    <3>2. <<>> \in Text
      BY DEF Text
    <3>. QED
      BY <2>2, <2>3, <3>1, <3>2
  <2>7. CASE b # a
    <3>1. ParseStatus(t, p).key = Piece(t, [from |-> a, to |-> b - 1])
      BY <2>4, <2>7 DEF a, b
    <3>2. Piece(t, [from |-> a, to |-> b - 1]) = SubSeq(t, a + 1, b - 1)
      BY DEF Piece
    <3>. HIDE DEF a, b
    <3>3. SubSeq(t, a + 1, b - 1) \in Seq(Symbols)
      <4>1. a + 1 \in 1 .. Len(t) + 1 /\ b - 1 \in 0 .. Len(t) /\ t \in Seq(Symbols)
        BY <2>5, <2>7 DEF Text
      <4>. QED
        BY <2>5, <4>1, SubSeqProperties
    <3>. QED
      BY <2>2, <2>3, <3>1, <3>2, <3>3, Zenon DEF Text
  <2>. QED
    BY <2>6, <2>7
<1>. QED
  BY <1>3 DEF KeysOf

\* The least line of a key that is there.
LEMMA LeastLine ==
  ASSUME NEW f, NEW t, NEW w, NEW n, LinesGot(f, t, w, n), NEW k \in KeysOf(t)
  PROVE  LET i == Min(KeyAt(t, k))
         IN  /\ i \in 1 .. n /\ LinesOf(t)[i] = LineOf(f, t, i) /\ LineOf(f, t, i).key = k
             /\ \A j \in 1 .. n : LineOf(f, t, j).key = k => i <= j
<1> DEFINE T == KeyAt(t, k)
<1>1. /\ n \in Nat /\ DOMAIN LinesOf(t) = 1 .. n
      /\ \A i \in 1 .. n : LinesOf(t)[i] = LineOf(f, t, i)
  BY Zenon DEF LinesGot
<1>2. T = {i \in 1 .. n : LineOf(f, t, i).key = k}
  BY <1>1 DEF KeyAt
<1>3. T # {}
  BY <1>1, <1>2 DEF KeysOf
<1>. HIDE DEF T
<1>4. T \subseteq Nat
  BY <1>2
<1>5. PICK i \in T : \A m \in T : i <= m
  BY <1>3, <1>4, Least
<1>6. Min(T) = i
  <2>1. T \subseteq Int
    BY <1>4
  <2>. QED
    BY <1>5, <2>1, MinIs
<1>7. /\ i \in 1 .. n /\ LinesOf(t)[i] = LineOf(f, t, i) /\ LineOf(f, t, i).key = k
      /\ \A j \in 1 .. n : LineOf(f, t, j).key = k => i <= j
  BY <1>1, <1>2, <1>5
<1>. QED
  BY <1>6, <1>7, Zenon DEF T

\* What a load leaves of the map that is there, and what it adds.
LEMMA EmplaceKeeps ==
  ASSUME NEW m, NEW n, NEW a, NEW t, KeptIn(n, m, a)
  PROVE  KeptIn(n, Emplace(m, t), a)
<1> DEFINE e == Emplace(m, t)
<1>1. DOMAIN e = DOMAIN m \cup KeysOf(t) /\ \A k \in DOMAIN m : e[k] = m[k]
  BY EmplaceIs, Zenon DEF Emplaced
<1>. HIDE DEF e
<1>2. KeptIn(n, e, a)
  BY <1>1, Zenon DEF KeptIn
<1>. QED
  BY <1>2 DEF e

\* What a first load would have put into an empty map is there, but for keys asked for before.
LEMMA FirstEmplace ==
  ASSUME NEW m, NEW a, NEW t, DOMAIN m \subseteq a
  PROVE  /\ KeptIn(Emplace(NoKeys, t), Emplace(m, t), a)
         /\ DOMAIN Emplace(m, t) \subseteq DOMAIN Emplace(NoKeys, t) \cup a
         /\ DOMAIN Emplace(m, t) \subseteq DOMAIN m \cup KeysOf(t)
<1> DEFINE e == Emplace(m, t)
           z == Emplace(NoKeys, t)
<1>1. DOMAIN NoKeys = {}
  BY DEF NoKeys
<1>2. /\ DOMAIN e = DOMAIN m \cup KeysOf(t)
      /\ \A k \in KeysOf(t) \ DOMAIN m : e[k] = FirstValues(t, k)
  BY EmplaceIs, Zenon DEF Emplaced
<1>3. /\ DOMAIN z = DOMAIN NoKeys \cup KeysOf(t)
      /\ \A k \in KeysOf(t) \ DOMAIN NoKeys : z[k] = FirstValues(t, k)
  BY EmplaceIs, Zenon DEF Emplaced
<1>. HIDE DEF e, z
<1>4. DOMAIN z = KeysOf(t)
  BY <1>1, <1>3
<1>5. \A k \in KeysOf(t) : z[k] = FirstValues(t, k)
  BY <1>1, <1>3
<1>6. KeptIn(z, e, a)
  <2>1. ASSUME NEW k \in DOMAIN z \ a PROVE k \in DOMAIN e /\ e[k] = z[k]
    BY <1>2, <1>4, <1>5
  <2>. QED
    BY <2>1 DEF KeptIn
<1>7. DOMAIN e \subseteq DOMAIN z \cup a
  BY <1>2, <1>4
<1>. QED
  BY <1>2, <1>6, <1>7 DEF e, z

--------------------------------------------------------------------------------
(* What the first load makes of a file *)

\* The first line of a key that came whole has its values under the key.
LEMMA WholeValues ==
  ASSUME NEW f, IsStatus(f), NEW t \in Text, Prefix(t, StatusText(f)),
         NEW i \in 1 .. Len(f), StatusEnds(f, i) <= Len(t), \A h \in 1 .. i - 1 : f[h].key # f[i].key
  PROVE  LET m == Emplace(NoKeys, t)
         IN  f[i].key \in DOMAIN m /\ Gives(t, m[f[i].key], ValuesOf(f[i]))
<1> DEFINE m == Emplace(NoKeys, t)
           k == f[i].key
<1>1. Len(t) \in Nat
  BY LenProperties DEF Text
<1>2. PICK w : Whole1(f, Len(t), w)
  BY <1>1, WholeExists
<1>3. PICK n : LinesGot(f, t, w, n)
  BY <1>2, LinesRead
<1>4. Len(f) \in Nat /\ w \in 0 .. Len(f) /\ i <= w
  BY <1>1, <1>2, WholeUpTo, StatusFileLaid DEF Whole1
<1>5. /\ n \in Nat /\ w <= n /\ DOMAIN LinesOf(t) = 1 .. n
      /\ \A j \in 1 .. n : LinesOf(t)[j] = LineOf(f, t, j)
  <2>1. /\ n \in Nat /\ n = IF StatusEnds(f, w) = Len(t) THEN w ELSE w + 1
        /\ DOMAIN LinesOf(t) = 1 .. n
        /\ \A j \in 1 .. n : LinesOf(t)[j] = LineOf(f, t, j)
    BY <1>3, Zenon DEF LinesGot
  <2>. QED
    BY <1>4, <2>1
<1>6. ASSUME NEW j \in 1 .. w
      PROVE  LineOf(f, t, j).key = f[j].key /\ Gives(t, LineOf(f, t, j).values, ValuesOf(f[j]))
  <2>1. j \in 1 .. Len(f) /\ StatusEnds(f, j) <= Len(t)
    <3>1. j \in 1 .. Len(f) /\ j <= w
      BY <1>4
    <3>. QED
      BY <1>1, <1>2, <3>1, WholeUpTo
  <2>2. IsEntry(f[j]) /\ StatusEnds(f, j - 1) \in Nat /\ EntryLies(t, StatusEnds(f, j - 1), f[j])
    BY <2>1, StatusWhole
  <2> DEFINE p == StatusEnds(f, j - 1)
  <2>3. LineAt(t, p).key = f[j].key /\ Gives(t, LineAt(t, p).values, ValuesOf(f[j]))
    BY <2>2, LineRead
  <2>. QED
    BY <2>3, Zenon DEF LineOf
<1>7. i \in 1 .. w /\ i \in 1 .. n
  BY <1>4, <1>5
<1>8. k \in KeysOf(t)
  <2>1. LinesOf(t)[i].key = k
    BY <1>5, <1>6, <1>7
  <2>. QED
    BY <1>5, <1>7, <2>1 DEF KeysOf
<1> DEFINE x == Min(KeyAt(t, k))
<1>9. /\ x \in 1 .. n /\ LinesOf(t)[x] = LineOf(f, t, x) /\ LineOf(f, t, x).key = k
      /\ \A j \in 1 .. n : LineOf(f, t, j).key = k => x <= j
  BY <1>3, <1>8, LeastLine
<1>10. x = i
  <2>. HIDE DEF x
  <2>1. x <= i
    BY <1>6, <1>7, <1>9
  <2>2. x \in 1 .. w
    BY <1>4, <1>9, <2>1
  <2>3. f[x].key = f[i].key
    BY <1>6, <1>9, <2>2
  <2>4. ~(x \in 1 .. i - 1)
    BY <2>3
  <2>. QED
    BY <1>4, <1>9, <2>1, <2>4
<1>11. m[k] = LineOf(f, t, i).values /\ k \in DOMAIN m
  <2>1. DOMAIN NoKeys = {}
    BY DEF NoKeys
  <2>2. Emplaced(m, NoKeys, t)
    BY EmplaceIs, Zenon
  <2>3. FirstValues(t, k) = LinesOf(t)[x].values
    BY Zenon DEF FirstValues
  <2>. HIDE DEF m, x, k
  <2>. QED
    BY <1>8, <1>9, <1>10, <2>1, <2>2, <2>3 DEF Emplaced
<1>. QED
  BY <1>6, <1>7, <1>11, Zenon

\* A key has a value only where a line of the file has it, and where the line did
\* not come whole it is a part of the line's.
ValueFrom(f, t, k, value, i) ==
    /\ f[i].key = k /\ Len(ValuesOf(f[i])) \in Nat \ {0}
    /\ Len(ReadsNow(t, value[1])) \in 0 .. Len(ValuesOf(f[i])[1])
    /\ i > 1 => StatusEnds(f, i - 1) <= Len(t)
    /\ StatusEnds(f, i) <= Len(t) => Gives(t, value, ValuesOf(f[i]))

\* A value in the map of one load is from a line of the file.
LEMMA ValueHasLine ==
  ASSUME NEW f, IsStatus(f), NEW t \in Text, Prefix(t, StatusText(f)),
         NEW k, HasValue(Emplace(NoKeys, t), k)
  PROVE  \E i \in 1 .. Len(f) : ValueFrom(f, t, k, Emplace(NoKeys, t)[k], i)
<1> DEFINE m == Emplace(NoKeys, t)
<1>1. Len(t) \in Nat
  BY LenProperties DEF Text
<1>2. PICK w : Whole1(f, Len(t), w)
  BY <1>1, WholeExists
<1>3. PICK n : LinesGot(f, t, w, n)
  BY <1>2, LinesRead
<1>4. Len(f) \in Nat /\ w \in 0 .. Len(f) /\ StatusEnds(f, w) <= Len(t)
  BY <1>2, StatusFileLaid DEF Whole1
<1>5. /\ n \in Nat /\ n = IF StatusEnds(f, w) = Len(t) THEN w ELSE w + 1
  BY <1>3, Zenon DEF LinesGot
<1> DEFINE x == Min(KeyAt(t, k))
<1>6. k \in KeysOf(t) /\ m[k] = LinesOf(t)[x].values /\ m[k] # <<>>
  <2>1. k \in DOMAIN m /\ m[k] # <<>>
    BY Zenon DEF HasValue
  <2>2. DOMAIN NoKeys = {}
    BY DEF NoKeys
  <2>3. DOMAIN m = DOMAIN NoKeys \cup KeysOf(t) /\ \A h \in KeysOf(t) \ DOMAIN NoKeys : m[h] = FirstValues(t, h)
    BY EmplaceIs, Zenon DEF Emplaced
  <2>4. k \in KeysOf(t) /\ k \notin DOMAIN NoKeys
    <3>. HIDE DEF m
    <3>. QED
      BY <2>1, <2>2, <2>3
  <2>5. m[k] = LinesOf(t)[x].values
    <3>. HIDE DEF m
    <3>1. m[k] = FirstValues(t, k)
      BY <2>3, <2>4
    <3>. QED
      BY <3>1, Zenon DEF FirstValues
  <2>. QED
    BY <2>1, <2>4, <2>5
<1>7. x \in 1 .. n /\ LinesOf(t)[x] = LineOf(f, t, x) /\ LineOf(f, t, x).key = k
  BY <1>3, <1>6, LeastLine
<1> DEFINE values == m[k]
<1>8. values = LineOf(f, t, x).values /\ values # <<>>
  BY <1>6, <1>7
<1>. HIDE DEF x, values
<1>9. CASE x <= w
  <2> DEFINE p == StatusEnds(f, x - 1)
             l == f[x]
             V == ValuesOf(l)
  <2>1. x \in 1 .. Len(f) /\ StatusEnds(f, x) <= Len(t)
    <3>1. x \in 1 .. Len(f)
      BY <1>4, <1>7, <1>9
    <3>. QED
      BY <1>1, <1>2, <1>9, <3>1, WholeUpTo
  <2>2. IsEntry(l) /\ p \in Nat /\ EntryLies(t, p, l)
    BY <2>1, StatusWhole
  <2>3. p \in 0 .. Len(t) - 1 /\ LineAt(t, p).key = l.key /\ Gives(t, LineAt(t, p).values, V)
    BY <2>2, LineRead
  <2>4. l.key = k /\ Gives(t, values, V)
    BY <1>7, <1>8, <2>3, Zenon DEF LineOf
  <2>5. V \in Seq(Seq(Word))
    BY <2>2, ValuesAre
  <2>6. Len(V) \in Nat /\ DOMAIN values = 1 .. Len(V)
    <3>1. DOMAIN values = 1 .. Len(V)
      BY <2>4, Zenon DEF Gives
    <3>. QED
      BY <2>5, <3>1, LenProperties
  <2>7. Len(V) # 0
    <3>1. SUFFICES ASSUME Len(V) = 0 PROVE FALSE
      OBVIOUS
    <3>2. values = [j \in DOMAIN values |-> values[j]]
      BY <1>8 DEF LineOf, LineAt
    <3>. HIDE DEF V
    <3>3. DOMAIN values = 1 .. 0
      BY <2>6, <3>1
    <3>4. values \in [1 .. 0 -> {}]
      BY <3>2, <3>3
    <3>5. values \in Seq({})
      BY <3>4
    <3>6. Len(values) = 0
      BY <3>3, <3>5
    <3>. QED
      BY <1>8, <3>5, <3>6, EmptySeq
  <2>8. Len(ReadsNow(t, values[1])) \in 0 .. Len(V[1])
    <3>1. 1 \in 1 .. Len(V)
      <4>. HIDE DEF V
      <4>. QED
        BY <2>6, <2>7
    <3>2. ReadsNow(t, values[1]) = V[1] /\ Len(V[1]) \in Nat
      <4>1. ReadsNow(t, values[1]) = V[1]
        BY <2>4, <3>1, Zenon DEF Gives
      <4>2. V[1] \in Seq(Word)
        <5>. HIDE DEF V
        <5>. QED
          BY <2>5, <3>1, ElementOfSeq
      <4>. QED
        BY <4>1, <4>2, LenProperties
    <3>. HIDE DEF V
    <3>. QED
      BY <3>2
  <2>9. x > 1 => p <= Len(t)
    <3>. HIDE DEF p
    <3>. QED
      BY <1>1, <2>3
  <2>10. Len(V) \in Nat \ {0}
    BY <2>6, <2>7
  <2>11. ValueFrom(f, t, k, values, x)
    BY <2>4, <2>8, <2>9, <2>10, Zenon DEF ValueFrom
  <2>. QED
    BY <2>1, <2>11 DEF values
<1>10. CASE ~(x <= w)
  <2>1. x = w + 1 /\ StatusEnds(f, w) # Len(t) /\ x - 1 = w /\ w \in Nat
    BY <1>4, <1>5, <1>7, <1>10
  <2>2. StatusEnds(f, w) < Len(t)
    <3>1. StatusEnds(f, w) \in Nat
      BY <1>4, StatusEndsGrow
    <3>. QED
      BY <1>1, <1>4, <2>1, <3>1
  <2>3. x \in 1 .. Len(f)
    BY <1>2, <2>1, <2>2, CutHasNoFeed
  <2> DEFINE line == LineOf(f, t, w + 1)
  <2>4. line = LineOf(f, t, x)
    BY <2>1
  <2>5. DOMAIN line.values # {}
    <3>1. SUFFICES ASSUME DOMAIN values = {} PROVE FALSE
      BY <1>8, <2>4
    <3>2. values = [j \in DOMAIN values |-> values[j]]
      BY <1>8 DEF LineOf, LineAt
    <3>3. DOMAIN values = 1 .. 0
      BY <3>1
    <3>4. values \in [1 .. 0 -> {}]
      BY <3>2, <3>3
    <3>5. values \in Seq({})
      BY <3>4
    <3>6. Len(values) = 0
      BY <3>3, <3>5
    <3>. QED
      BY <1>8, <3>5, <3>6, EmptySeq
  <2>6. FirstFits(t, line, f[w + 1])
    BY <1>2, <2>2, <2>5, CutRead
  <2>. HIDE DEF line
  <2>7. FirstFits(t, LineOf(f, t, x), f[x])
    BY <2>1, <2>4, <2>6
  <2>8. /\ f[x].key = k /\ Len(ValuesOf(f[x])) \in Nat \ {0}
        /\ Len(ReadsNow(t, values[1])) \in 0 .. Len(ValuesOf(f[x])[1])
    BY <1>7, <1>8, <2>7, Zenon DEF FirstFits
  <2>9. x > 1 => StatusEnds(f, x - 1) <= Len(t)
    BY <1>4, <2>1
  <2>10. ~(StatusEnds(f, x) <= Len(t))
    BY <1>1, <1>2, <1>10, <2>3, WholeUpTo
  <2>11. ValueFrom(f, t, k, values, x)
    BY <2>8, <2>9, <2>10, Zenon DEF ValueFrom
  <2>. QED
    BY <2>3, <2>11 DEF values
<1>. QED
  BY <1>9, <1>10

--------------------------------------------------------------------------------
(* The packages' invariant *)

\* What the first load has read, and what load makes of it alone.
FirstText(p) == SubSeq(StatusText(p.first.file), 1, p.first.size)
FirstMap(p) == Emplace(NoKeys, FirstText(p))

\* A package that has loaded something: its buffer, its history and its map agree.
Loaded1(p) == /\ p.buffer \in Seq(Symbols) /\ Len(p.buffer) <= BufferSize
              /\ p.first.file \in StatusFiles
              /\ p.first.size \in 0 .. Len(StatusText(p.first.file))
              /\ KeptIn(FirstMap(p), p.map, p.asked)

\* After one load the buffer and the answer are those of that load.
LoadedOnce(p) == /\ p.buffer = FirstText(p)
                 /\ DOMAIN p.map \subseteq DOMAIN FirstMap(p) \cup p.asked
                 /\ p.asked = {} /\ p.app # "none" =>
                       (p.app = "yes" <=> SaysApp(FirstMap(p), FirstText(p)))
PackageOK(p, n) ==
    /\ p = [buffer |-> p.buffer, map |-> p.map, app |-> p.app,
            first |-> p.first, loads |-> p.loads, asked |-> p.asked]
    /\ p.loads \in Nat /\ p.loads <= n
    /\ p.app \in {"none", "yes", "no"} /\ p.asked \subseteq Asked
    /\ DOMAIN p.map \subseteq Seq(Symbols)
    /\ p.loads = 0 => p.buffer \in {NoObject, Gone, <<>>} /\ DOMAIN p.map \subseteq p.asked
    /\ p.loads > 0 => Loaded1(p)
    /\ p.loads = 1 => LoadedOnce(p)
PackageInv ==
    /\ pkg = [o \in Objects |-> pkg[o]] /\ \A o \in Objects : PackageOK(pkg[o], called)
    /\ terminated \in BOOLEAN /\ called \in 0 .. MaxLoads

\* A package that has loaded nothing.
LEMMA EmptyOK ==
  ASSUME NEW b \in {NoObject, Gone, <<>>}, NEW n \in Nat
  PROVE  PackageOK(Empty(b), n)
<1> DEFINE m == [k \in {} |-> <<>>]
<1>1. DOMAIN m = {}
  OBVIOUS
<1>. HIDE DEF m
<1>2. Empty(b) = [buffer |-> b, map |-> m, app |-> "none", first |-> NoFile, loads |-> 0, asked |-> {}]
  BY DEF Empty, m
<1>. HIDE DEF NoFile
<1>. QED
  BY <1>1, <1>2 DEF PackageOK

\* Loads of other packages disturb nothing.
LEMMA LaterOK ==
  ASSUME NEW p, NEW n \in Nat, NEW c \in Nat, n <= c, PackageOK(p, n)
  PROVE  PackageOK(p, c)
BY DEF PackageOK

\* The buffer after a load of n symbols.
LEMMA BufferAfter ==
  ASSUME NEW u \in Text, NEW n \in 0 .. Len(u), n <= BufferSize, NEW b \in Text, Len(b) <= BufferSize
  PROVE  LET c == SubSeq(u, 1, n) \o SubSeq(b, n + 1, Len(b))
         IN  /\ c \in Text /\ Len(c) <= BufferSize
             /\ b = <<>> => c = SubSeq(u, 1, n)
<1> DEFINE t == SubSeq(u, 1, n)
           r == SubSeq(b, n + 1, Len(b))
<1>1. t \in Text /\ Len(t) = n /\ n \in Nat
  BY PrefixText
<1>2. BufferSize \in Nat
  BY FilesAreStatuses
<1>3. r \in Seq(Symbols) /\ Len(r) = IF n + 1 <= Len(b) THEN Len(b) - n ELSE 0
  <2>1. b \in Seq(Symbols) /\ Len(b) \in Nat
    BY LenProperties DEF Text
  <2>. QED
    BY <1>1, <2>1
<1>4. Len(b) \in Nat
  BY LenProperties DEF Text
<1>. HIDE DEF t, r
<1>5. t \o r \in Text /\ Len(t \o r) = Len(t) + Len(r)
  BY <1>1, <1>3, ConcatProperties DEF Text
<1>6. Len(t \o r) <= BufferSize
  BY <1>1, <1>2, <1>3, <1>4, <1>5
<1>7. ASSUME b = <<>> PROVE t \o r = t
  <2>1. Len(b) = 0
    BY <1>7
  <2>2. Len(r) = 0
    BY <1>1, <1>3, <2>1
  <2>3. r = <<>>
    BY <1>3, <2>2, EmptySeq
  <2>4. t \o <<>> = t
    BY <1>1, ConcatEmptySeq DEF Text
  <2>. QED
    BY <2>3, <2>4
<1>. QED
  BY <1>5, <1>6, <1>7, Zenon DEF t, r

\* load reads something.
LEMMA LoadedOK ==
  ASSUME NEW p, NEW n \in Nat, PackageOK(p, n), p.buffer # NoObject, p.buffer # Gone,
         NEW f \in StatusFiles, NEW size \in ReadSizes(f),
         NEW read, read = SubSeq(StatusText(f), 1, size),
         NEW q, q = [buffer |-> read \o SubSeq(p.buffer, size + 1, Len(p.buffer)),
                     map |-> Emplace(p.map, read), app |-> "none",
                     first |-> IF p.loads > 0 THEN p.first ELSE [file |-> f, size |-> size],
                     loads |-> p.loads + 1, asked |-> p.asked]
  PROVE  PackageOK(q, n + 1)
<1> DEFINE u == StatusText(f)
           e == Emplace(p.map, read)
<1>1. u \in Text /\ Len(u) \in Nat
  <2>1. IsStatus(f)
    BY FilesAreStatuses
  <2>. QED
    BY <2>1, StatusFileLaid, LenProperties DEF Text
<1>2. size \in 0 .. Len(u) /\ size <= BufferSize
  <2> DEFINE S == {Len(u), BufferSize}
             x == IF Len(u) <= BufferSize THEN Len(u) ELSE BufferSize
  <2>1. BufferSize \in Nat
    BY FilesAreStatuses
  <2>2. x \in S /\ S \subseteq Int /\ \A y \in S : x <= y
    BY <1>1, <2>1
  <2>. HIDE DEF S, x
  <2>3. Min(S) = x
    BY <2>2, MinIs
  <2>4. size \in 0 .. Min({Len(u), BufferSize})
    BY DEF ReadSizes
  <2>5. size \in 0 .. x
    BY <2>3, <2>4 DEF S
  <2>. QED
    BY <1>1, <2>1, <2>5 DEF x
<1>3. /\ p.loads \in Nat /\ p.loads <= n /\ p.asked \subseteq Asked /\ DOMAIN p.map \subseteq Seq(Symbols)
      /\ p.loads = 0 => p.buffer = <<>> /\ DOMAIN p.map \subseteq p.asked
      /\ p.loads > 0 => Loaded1(p)
  BY DEF PackageOK
<1>4. p.buffer \in Text /\ Len(p.buffer) <= BufferSize
  <2>1. CASE p.loads = 0
    <3>1. p.buffer = <<>>
      BY <1>3, <2>1
    <3>2. <<>> \in Text /\ Len(<<>>) = 0 /\ BufferSize \in Nat
      BY FilesAreStatuses DEF Text
    <3>. QED
      BY <3>1, <3>2
  <2>2. CASE p.loads # 0
    BY <1>3, <2>2 DEF Loaded1, Text
  <2>. QED
    BY <2>1, <2>2
<1>5. /\ q.buffer \in Text /\ Len(q.buffer) <= BufferSize
      /\ p.buffer = <<>> => q.buffer = read
  <2>1. q.buffer = SubSeq(u, 1, size) \o SubSeq(p.buffer, size + 1, Len(p.buffer))
    OBVIOUS
  <2> DEFINE b == p.buffer
  <2>2. b \in Text /\ Len(b) <= BufferSize
    BY <1>4
  <2>. HIDE DEF u, b
  <2>3. LET c == SubSeq(u, 1, size) \o SubSeq(b, size + 1, Len(b))
        IN  /\ c \in Text /\ Len(c) <= BufferSize
            /\ b = <<>> => c = SubSeq(u, 1, size)
    BY <1>1, <1>2, <2>2, BufferAfter
  <2>. QED
    BY <2>1, <2>3, Zenon DEF b, u
<1>6. read \in Text
  BY <1>1, <1>2, PrefixText
<1>7. q.map = e /\ q.app = "none" /\ q.loads = p.loads + 1 /\ q.asked = p.asked
  OBVIOUS
<1>8. DOMAIN e \subseteq Seq(Symbols)
  <2>1. DOMAIN e = DOMAIN p.map \cup KeysOf(read)
    BY EmplaceIs, Zenon DEF Emplaced
  <2>2. KeysOf(read) \subseteq Text
    BY <1>6, KeysAre
  <2>. HIDE DEF e
  <2>. QED
    BY <1>3, <2>1, <2>2 DEF Text
<1>9. CASE p.loads = 0
  <2>1. q.first = [file |-> f, size |-> size]
    BY <1>9
  <2>2. q.first.file = f /\ q.first.size = size
    BY <2>1
  <2>3. FirstText(q) = read
    BY <2>2 DEF FirstText
  <2>4. FirstMap(q) = Emplace(NoKeys, read)
    BY <2>3, Zenon DEF FirstMap
  <2>5. /\ KeptIn(Emplace(NoKeys, read), e, p.asked)
        /\ DOMAIN e \subseteq DOMAIN Emplace(NoKeys, read) \cup p.asked
    <3>1. DOMAIN p.map \subseteq p.asked
      BY <1>3, <1>9
    <3>. QED
      BY <3>1, FirstEmplace
  <2>. HIDE DEF e, u
  <2>6. Loaded1(q)
    <3>1. q.first.size \in 0 .. Len(StatusText(q.first.file))
      BY <1>2, <2>2 DEF u
    <3>2. KeptIn(FirstMap(q), q.map, q.asked)
      BY <1>7, <2>4, <2>5
    <3>. QED
      BY <1>5, <2>2, <3>1, <3>2, Zenon DEF Loaded1, Text
  <2>7. LoadedOnce(q)
    <3>1. q.buffer = FirstText(q)
      BY <1>3, <1>5, <1>9, <2>3
    <3>2. DOMAIN q.map \subseteq DOMAIN FirstMap(q) \cup q.asked
      BY <1>7, <2>4, <2>5
    <3>. QED
      BY <1>7, <3>1, <3>2 DEF LoadedOnce
  <2>. QED
    BY <1>3, <1>7, <1>8, <1>9, <2>6, <2>7 DEF PackageOK
<1>10. CASE p.loads # 0
  <2>1. q.first = p.first /\ p.loads > 0
    BY <1>3, <1>10
  <2>2. FirstMap(q) = FirstMap(p)
    BY <2>1, Zenon DEF FirstMap, FirstText
  <2>3. Loaded1(p)
    BY <1>3, <2>1
  <2>4. KeptIn(FirstMap(p), e, p.asked)
    <3>1. KeptIn(FirstMap(p), p.map, p.asked)
      BY <2>3, Zenon DEF Loaded1
    <3>. QED
      BY <3>1, EmplaceKeeps
  <2>. HIDE DEF e, u
  <2>5. Loaded1(q)
    <3>1. q.first.file \in StatusFiles /\ q.first.size \in 0 .. Len(StatusText(q.first.file))
      BY <2>1, <2>3, Zenon DEF Loaded1
    <3>2. KeptIn(FirstMap(q), q.map, q.asked)
      BY <1>7, <2>2, <2>4
    <3>. QED
      BY <1>5, <3>1, <3>2, Zenon DEF Loaded1, Text
  <2>. QED
    BY <1>3, <1>7, <1>8, <1>10, <2>5 DEF PackageOK
<1>. QED
  BY <1>9, <1>10

\* operator[] makes an entry.
LEMMA IndexedOK ==
  ASSUME NEW p, NEW n \in Nat, PackageOK(p, n), NEW k \in Asked, k \notin DOMAIN p.map,
         NEW m, m = [h \in DOMAIN p.map \cup {k} |-> IF h = k THEN <<>> ELSE p.map[h]],
         NEW q, q = [p EXCEPT !.map = m, !.asked = p.asked \cup {k}]
  PROVE  PackageOK(q, n)
<1>1. /\ p = [buffer |-> p.buffer, map |-> p.map, app |-> p.app,
              first |-> p.first, loads |-> p.loads, asked |-> p.asked]
      /\ p.loads \in Nat /\ p.loads <= n
      /\ p.app \in {"none", "yes", "no"} /\ p.asked \subseteq Asked
      /\ DOMAIN p.map \subseteq Seq(Symbols)
      /\ p.loads = 0 => p.buffer \in {NoObject, Gone, <<>>} /\ DOMAIN p.map \subseteq p.asked
      /\ p.loads > 0 => Loaded1(p)
      /\ p.loads = 1 => LoadedOnce(p)
  BY Zenon DEF PackageOK
<1>2. q = [buffer |-> p.buffer, map |-> m, app |-> p.app,
           first |-> p.first, loads |-> p.loads, asked |-> p.asked \cup {k}]
  BY <1>1
<1>3. /\ q.buffer = p.buffer /\ q.map = m /\ q.app = p.app /\ q.first = p.first
      /\ q.loads = p.loads /\ q.asked = p.asked \cup {k}
  BY <1>2
<1>4. DOMAIN m = DOMAIN p.map \cup {k} /\ \A h \in DOMAIN p.map : m[h] = p.map[h]
  OBVIOUS
<1>5. k \in Seq(Symbols)
  BY FilesAreStatuses
<1>6. q = [buffer |-> q.buffer, map |-> q.map, app |-> q.app,
           first |-> q.first, loads |-> q.loads, asked |-> q.asked]
  BY <1>2, <1>3, Zenon
<1>7. FirstMap(q) = FirstMap(p) /\ FirstText(q) = FirstText(p)
  BY <1>3, Zenon DEF FirstMap, FirstText
<1>8. ASSUME Loaded1(p) PROVE Loaded1(q)
  <2>1. KeptIn(FirstMap(p), p.map, p.asked)
    BY <1>8, Zenon DEF Loaded1
  <2>2. KeptIn(FirstMap(p), m, p.asked \cup {k})
    <3>1. \A h \in DOMAIN FirstMap(p) \ p.asked : h \in DOMAIN p.map /\ p.map[h] = FirstMap(p)[h]
      BY <2>1, Zenon DEF KeptIn
    <3>2. \A h \in DOMAIN FirstMap(p) \ (p.asked \cup {k}) : h \in DOMAIN m /\ m[h] = FirstMap(p)[h]
      BY <1>4, <3>1
    <3>. QED
      BY <3>2, Zenon DEF KeptIn
  <2>. QED
    BY <1>3, <1>7, <1>8, <2>2 DEF Loaded1
<1>9. ASSUME LoadedOnce(p) PROVE LoadedOnce(q)
  <2>1. p.buffer = FirstText(p) /\ DOMAIN p.map \subseteq DOMAIN FirstMap(p) \cup p.asked
    BY <1>9, Zenon DEF LoadedOnce
  <2>2. q.buffer = FirstText(q)
    BY <1>3, <1>7, <2>1
  <2>3. DOMAIN q.map \subseteq DOMAIN FirstMap(q) \cup q.asked
    BY <1>3, <1>4, <1>7, <2>1
  <2>4. q.asked # {}
    BY <1>3
  <2>. QED
    BY <2>2, <2>3, <2>4, Zenon DEF LoadedOnce
<1>10. p.loads = 0 => DOMAIN q.map \subseteq q.asked
  BY <1>1, <1>3, <1>4
<1>11. DOMAIN q.map \subseteq Seq(Symbols) /\ q.asked \subseteq Asked
  BY <1>1, <1>3, <1>4, <1>5
<1>. QED
  BY <1>1, <1>3, <1>6, <1>8, <1>9, <1>10, <1>11, Zenon DEF PackageOK

\* What is_app says depends on the entries that there are.
LEMMA SameSays ==
  ASSUME NEW m, NEW n, NEW b, KeptIn(n, m, {}), DOMAIN m \subseteq DOMAIN n
  PROVE  SaysApp(m, b) <=> SaysApp(n, b)
<1>1. \A k \in DOMAIN n : k \in DOMAIN m /\ m[k] = n[k]
  BY DEF KeptIn
<1>2. ASSUME NEW k PROVE HasValue(m, k) <=> HasValue(n, k) /\ m[k] = n[k]
  BY <1>1 DEF HasValue
<1>3. UidIsApp(m) <=> UidIsApp(n)
  <2>1. HasValue(m, Uid) <=> HasValue(n, Uid) /\ m[Uid] = n[Uid]
    BY <1>2
  <2>2. HasValue(n, Uid) => m[Uid] = n[Uid]
    BY <1>1 DEF HasValue
  <2>. QED
    BY <2>1, <2>2, Zenon DEF UidIsApp
<1>4. NameIsText(m) <=> NameIsText(n)
  <2>1. HasValue(m, Name) <=> HasValue(n, Name) /\ m[Name] = n[Name]
    BY <1>2
  <2>2. HasValue(n, Name) => m[Name] = n[Name]
    BY <1>1 DEF HasValue
  <2>. QED
    BY <2>1, <2>2, Zenon DEF NameIsText
<1>5. NameIsText(n) => m[Name] = n[Name]
  BY <1>1 DEF NameIsText, HasValue
<1>. QED
  BY <1>3, <1>4, <1>5, Zenon DEF SaysApp

\* is_app has returned what it does.
LEMMA SaidOK ==
  ASSUME NEW p, NEW n \in Nat, PackageOK(p, n), NEW x,
         x = "none" \/ x = IF SaysApp(p.map, p.buffer) THEN "yes" ELSE "no",
         NEW q, q = [p EXCEPT !.app = x]
  PROVE  PackageOK(q, n)
<1>1. /\ p = [buffer |-> p.buffer, map |-> p.map, app |-> p.app,
              first |-> p.first, loads |-> p.loads, asked |-> p.asked]
      /\ p.loads \in Nat /\ p.loads <= n
      /\ p.app \in {"none", "yes", "no"} /\ p.asked \subseteq Asked
      /\ DOMAIN p.map \subseteq Seq(Symbols)
      /\ p.loads = 0 => p.buffer \in {NoObject, Gone, <<>>} /\ DOMAIN p.map \subseteq p.asked
      /\ p.loads > 0 => Loaded1(p)
      /\ p.loads = 1 => LoadedOnce(p)
  BY Zenon DEF PackageOK
<1>2. q = [buffer |-> p.buffer, map |-> p.map, app |-> x,
           first |-> p.first, loads |-> p.loads, asked |-> p.asked]
  BY <1>1
<1>3. /\ q.buffer = p.buffer /\ q.map = p.map /\ q.app = x /\ q.first = p.first
      /\ q.loads = p.loads /\ q.asked = p.asked
  BY <1>2
<1>4. q = [buffer |-> q.buffer, map |-> q.map, app |-> q.app,
           first |-> q.first, loads |-> q.loads, asked |-> q.asked]
  BY <1>2, <1>3, Zenon
<1>5. FirstMap(q) = FirstMap(p) /\ FirstText(q) = FirstText(p)
  BY <1>3, Zenon DEF FirstMap, FirstText
<1>6. ASSUME Loaded1(p) PROVE Loaded1(q)
  BY <1>3, <1>5, <1>6 DEF Loaded1
<1>7. ASSUME Loaded1(p), LoadedOnce(p) PROVE LoadedOnce(q)
  <2>1. KeptIn(FirstMap(p), p.map, p.asked)
    BY <1>7, Zenon DEF Loaded1
  <2>2. p.buffer = FirstText(p) /\ DOMAIN p.map \subseteq DOMAIN FirstMap(p) \cup p.asked
    BY <1>7, Zenon DEF LoadedOnce
  <2>3. ASSUME p.asked = {}, x # "none"
        PROVE  x = "yes" <=> SaysApp(FirstMap(p), FirstText(p))
    <3>1. KeptIn(FirstMap(p), p.map, {}) /\ DOMAIN p.map \subseteq DOMAIN FirstMap(p)
      BY <2>1, <2>2, <2>3
    <3>2. SaysApp(p.map, p.buffer) <=> SaysApp(FirstMap(p), p.buffer)
      BY <3>1, SameSays, Zenon
    <3>3. SaysApp(p.map, p.buffer) <=> SaysApp(FirstMap(p), FirstText(p))
      BY <2>2, <3>2, Zenon
    <3>. QED
      BY <2>3, <3>3
  <2>. QED
    BY <1>3, <1>5, <2>2, <2>3 DEF LoadedOnce
<1>8. x \in {"none", "yes", "no"}
  OBVIOUS
<1>. QED
  BY <1>1, <1>3, <1>4, <1>6, <1>7, <1>8 DEF PackageOK

\* The invariant holds in the beginning, is kept by every step, and so holds always.
LEMMA PackagesStart == PackageInit => PackageInv
<1>. SUFFICES ASSUME PackageInit PROVE PackageInv
  OBVIOUS
<1>1. pkg = [o \in Objects |-> Empty(NoObject)] /\ terminated = FALSE /\ called = 0
  BY DEF PackageInit
<1>2. MaxLoads \in Nat
  BY FilesAreStatuses
<1>3. PackageOK(Empty(NoObject), 0)
  BY EmptyOK
<1>. HIDE DEF Empty
<1>4. pkg = [o \in Objects |-> pkg[o]] /\ \A o \in Objects : PackageOK(pkg[o], called)
  BY <1>1, <1>3
<1>5. terminated \in BOOLEAN
  BY DEF PackageInit
<1>6. called \in 0 .. MaxLoads
  <2>1. called = 0
    BY <1>1
  <2>. QED
    BY <1>2, <2>1
<1>. QED
  BY <1>4, <1>5, <1>6, Zenon DEF PackageInv

\* A step that puts a package that is as it should be in the place of o.
LEMMA PutOK ==
  ASSUME PackageInv, NEW o \in Objects, NEW p, NEW c \in Nat, called <= c, c <= MaxLoads, PackageOK(p, c),
         pkg' = [pkg EXCEPT ![o] = p], called' = c, terminated' \in BOOLEAN
  PROVE  PackageInv'
<1>1. /\ pkg = [h \in Objects |-> pkg[h]] /\ \A h \in Objects : PackageOK(pkg[h], called)
      /\ called \in 0 .. MaxLoads /\ called \in Nat
  BY FilesAreStatuses DEF PackageInv
<1>2. pkg' = [h \in Objects |-> pkg'[h]] /\ \A h \in Objects : pkg'[h] = IF h = o THEN p ELSE pkg[h]
  BY <1>1
<1>3. ASSUME NEW h \in Objects PROVE PackageOK(pkg'[h], c)
  <2>1. CASE h = o
    BY <1>2, <2>1
  <2>2. CASE h # o
    <3>1. PackageOK(pkg[h], c)
      BY <1>1, LaterOK
    <3>. QED
      BY <1>2, <2>2, <3>1
  <2>. QED
    BY <2>1, <2>2
<1>4. c \in 0 .. MaxLoads
  BY FilesAreStatuses
<1>. QED
  BY <1>2, <1>3, <1>4 DEF PackageInv

LEMMA PackageStep == PackageInv /\ [PackageNext]_packageVars => PackageInv'
<1>. SUFFICES ASSUME PackageInv, [PackageNext]_packageVars PROVE PackageInv'
  OBVIOUS
<1>1. /\ pkg = [o \in Objects |-> pkg[o]] /\ \A o \in Objects : PackageOK(pkg[o], called)
      /\ terminated \in BOOLEAN /\ called \in Nat /\ called <= MaxLoads /\ MaxLoads \in Nat
  BY FilesAreStatuses DEF PackageInv
<1>2. CASE UNCHANGED packageVars
  BY <1>2 DEF packageVars, PackageInv
<1>3. ASSUME NEW o \in Objects, Construct(o) PROVE PackageInv'
  <2> DEFINE p == Empty(<<>>)
  <2>1. pkg' = [pkg EXCEPT ![o] = p] /\ called' = called /\ terminated' \in BOOLEAN
    BY <1>1, <1>3 DEF Construct
  <2>2. PackageOK(p, called)
    BY <1>1, EmptyOK
  <2>. HIDE DEF p
  <2>. QED
    BY <1>1, <2>1, <2>2, PutOK
<1>4. ASSUME NEW o \in Objects, NEW f \in StatusFiles, NEW size \in ReadSizes(f), LoadStatus(o, f, size)
      PROVE  PackageInv'
  <2> DEFINE p == pkg[o]
  <2>1. PackageOK(p, called) /\ p.buffer # NoObject /\ terminated' \in BOOLEAN
    BY <1>1, <1>4 DEF LoadStatus, Exists
  <2>2. CASE size = 0 \/ p.buffer = Gone
    <3> DEFINE q == [p EXCEPT !.app = "none"]
    <3>1. pkg' = [pkg EXCEPT ![o].app = "none"] /\ called' = called
      BY <1>4, <2>2 DEF LoadStatus
    <3>2. pkg' = [pkg EXCEPT ![o] = q]
      BY <1>1, <3>1
    <3>3. PackageOK(q, called)
      <4>1. "none" = "none" \/ "none" = IF SaysApp(p.map, p.buffer) THEN "yes" ELSE "no"
        OBVIOUS
      <4>. HIDE DEF p
      <4>. QED
        BY <1>1, <2>1, <4>1, SaidOK
    <3>. HIDE DEF q
    <3>. QED
      BY <1>1, <2>1, <3>1, <3>2, <3>3, PutOK
  <2>3. CASE ~(size = 0 \/ p.buffer = Gone)
    <3> DEFINE read == SubSeq(StatusText(f), 1, size)
               q == [buffer |-> read \o SubSeq(p.buffer, size + 1, Len(p.buffer)),
                     map |-> Emplace(p.map, read), app |-> "none",
                     first |-> IF p.loads > 0 THEN p.first ELSE [file |-> f, size |-> size],
                     loads |-> p.loads + 1, asked |-> p.asked]
               c == called + 1
    <3>1. called < MaxLoads /\ called' = c /\ pkg' = [pkg EXCEPT ![o] = q]
      BY <1>4, <2>3, Zenon DEF LoadStatus
    <3>2. PackageOK(q, called + 1)
      <4>1. read = SubSeq(StatusText(f), 1, size)
        OBVIOUS
      <4>. HIDE DEF p, read
      <4>. QED
        BY <1>1, <2>1, <2>3, <4>1, LoadedOK
    <3>. HIDE DEF q
    <3>3. c \in Nat /\ called <= c /\ c <= MaxLoads
      BY <1>1, <3>1
    <3>. HIDE DEF c
    <3>4. PackageOK(q, c)
      BY <3>2 DEF c
    <3>. QED
      BY <2>1, <3>1, <3>3, <3>4, PutOK
  <2>. QED
    BY <2>2, <2>3
<1>5. ASSUME NEW o \in Objects, NEW k \in Asked, Index(o, k) PROVE PackageInv'
  <2> DEFINE p == pkg[o]
             m == [h \in DOMAIN p.map \cup {k} |-> IF h = k THEN <<>> ELSE p.map[h]]
             q == [p EXCEPT !.map = m, !.asked = p.asked \cup {k}]
  <2>1. PackageOK(p, called) /\ k \notin DOMAIN p.map /\ terminated' \in BOOLEAN /\ called' = called
    BY <1>1, <1>5 DEF Index
  <2>2. pkg' = [pkg EXCEPT ![o] = q]
    <3>1. pkg' = [pkg EXCEPT ![o].map = [h \in DOMAIN pkg[o].map \cup {k} |-> IF h = k THEN <<>> ELSE pkg[o].map[h]],
                             ![o].asked = pkg[o].asked \cup {k}]
      BY <1>5 DEF Index
    <3>2. pkg' = [pkg EXCEPT ![o].map = m, ![o].asked = p.asked \cup {k}]
      BY <3>1, Zenon
    <3>. HIDE DEF m
    <3>. QED
      BY <1>1, <3>2
  <2>3. PackageOK(q, called)
    <3>. HIDE DEF p
    <3>. QED
      BY <1>1, <2>1, IndexedOK
  <2>. HIDE DEF q
  <2>. QED
    BY <1>1, <2>1, <2>2, <2>3, PutOK
<1>6. ASSUME NEW o \in Objects, NEW s \in Objects, Move(o, s) PROVE PackageInv'
  <2> DEFINE e == Empty(Gone)
  <2>1. /\ pkg' = [pkg EXCEPT ![o] = pkg[s], ![s] = e]
        /\ called' = called /\ terminated' = terminated
    BY <1>6 DEF Move
  <2>2. PackageOK(e, called)
    BY <1>1, EmptyOK
  <2>. HIDE DEF e
  <2>3. /\ pkg' = [h \in Objects |-> pkg'[h]]
        /\ \A h \in Objects : pkg'[h] = e \/ \E g \in Objects : pkg'[h] = pkg[g]
    BY <1>1, <2>1
  <2>4. ASSUME NEW h \in Objects PROVE PackageOK(pkg'[h], called)
    BY <1>1, <2>2, <2>3
  <2>. QED
    BY <1>1, <2>1, <2>3, <2>4 DEF PackageInv
<1>7. ASSUME NEW o \in Objects, NEW readable \in BOOLEAN, IsApp(o, readable) PROVE PackageInv'
  <2> DEFINE p == pkg[o]
             fails == UidIsApp(p.map) /\ NameIsText(p.map) /\ ~readable
             x == IF fails THEN "none" ELSE IF SaysApp(p.map, p.buffer) THEN "yes" ELSE "no"
             q == [p EXCEPT !.app = x]
  <2>1. PackageOK(p, called) /\ terminated' = fails /\ called' = called /\ pkg' = [pkg EXCEPT ![o].app = x]
    BY <1>1, <1>7 DEF IsApp
  <2>2. pkg' = [pkg EXCEPT ![o] = q]
    <3>. HIDE DEF x
    <3>. QED
      BY <1>1, <2>1
  <2>3. x = "none" \/ x = IF SaysApp(p.map, p.buffer) THEN "yes" ELSE "no"
    <3>. HIDE DEF fails
    <3>. QED
      OBVIOUS
  <2>4. terminated' \in BOOLEAN
    BY <2>1
  <2>. HIDE DEF x, fails
  <2>5. PackageOK(q, called)
    <3>. HIDE DEF p
    <3>. QED
      BY <1>1, <2>1, <2>3, SaidOK
  <2>. HIDE DEF q
  <2>. QED
    BY <1>1, <2>1, <2>2, <2>4, <2>5, PutOK
<1>8. ASSUME NEW o \in Objects, Destroy(o) PROVE PackageInv'
  <2> DEFINE p == Empty(NoObject)
  <2>1. pkg' = [pkg EXCEPT ![o] = p] /\ called' = called /\ terminated' \in BOOLEAN
    BY <1>1, <1>8 DEF Destroy
  <2>2. PackageOK(p, called)
    BY <1>1, EmptyOK
  <2>. HIDE DEF p
  <2>. QED
    BY <1>1, <2>1, <2>2, PutOK
<1>. QED
  BY <1>2, <1>3, <1>4, <1>5, <1>6, <1>7, <1>8, Zenon DEF PackageNext

LEMMA PackagesStay == PackageSpec => []PackageInv
BY PackagesStart, PackageStep, PTL DEF PackageSpec

\* What the first load has read of a file.
LEMMA FirstTextIs ==
  ASSUME NEW p, Loaded1(p)
  PROVE  LET f == p.first.file
             t == FirstText(p)
         IN  /\ IsStatus(f) /\ f \in StatusFiles
             /\ t \in Text /\ Len(t) = p.first.size /\ Len(t) \in Nat
             /\ Prefix(t, StatusText(f)) /\ Len(t) <= Len(StatusText(f)) /\ Len(StatusText(f)) \in Nat
<1> DEFINE f == p.first.file
           n == p.first.size
           u == StatusText(f)
<1>1. f \in StatusFiles /\ n \in 0 .. Len(u)
  BY Zenon DEF Loaded1
<1>2. IsStatus(f)
  BY <1>1, FilesAreStatuses
<1>3. u \in Text /\ Len(u) \in Nat
  BY <1>2, StatusFileLaid, LenProperties DEF Text
<1> DEFINE t == SubSeq(u, 1, n)
<1>4. t \in Text /\ Len(t) = n /\ Prefix(t, u)
  <2>. HIDE DEF u, n
  <2>. QED
    BY <1>1, <1>3, PrefixText
<1>5. t = FirstText(p)
  BY Zenon DEF FirstText
<1>. HIDE DEF t, u, n
<1>6. Len(t) \in Nat /\ Len(t) <= Len(u)
  BY <1>1, <1>3, <1>4
<1>. QED
  BY <1>1, <1>2, <1>3, <1>4, <1>5, <1>6 DEF u, n

\* What the map has of a line of the first load that came whole.
LEMMA FirstLineRead ==
  ASSUME PackageInv, NEW o \in Objects, pkg[o].loads >= 1, NEW l \in FirstLines(o)
  PROVE  /\ l.key \in DOMAIN pkg[o].map
         /\ Gives(FirstText(pkg[o]), pkg[o].map[l.key], ValuesOf(l))
         /\ ValuesOf(l) \in Seq(Seq(Word))
<1> DEFINE p == pkg[o]
           f == p.first.file
           t == FirstText(p)
<1>1. PackageOK(p, called)
  BY DEF PackageInv
<1>2. Loaded1(p)
  BY <1>1 DEF PackageOK
<1>3. /\ IsStatus(f) /\ t \in Text /\ Len(t) = p.first.size /\ Prefix(t, StatusText(f))
  BY <1>2, FirstTextIs
<1>4. DOMAIN f = 1 .. Len(f)
  BY <1>3, StatusFileLaid
<1>5. PICK i \in DOMAIN f : /\ l = f[i] /\ Len(StatusText(SubSeq(f, 1, i))) <= p.first.size
                            /\ \A h \in 1 .. i - 1 : f[h].key # f[i].key
                            /\ f[i].key \notin p.asked
  BY DEF FirstLines
<1> DEFINE m == Emplace(NoKeys, t)
<1>6. f[i].key \in DOMAIN m /\ Gives(t, m[f[i].key], ValuesOf(f[i]))
  <2>1. i \in 1 .. Len(f) /\ StatusEnds(f, i) <= Len(t) /\ \A h \in 1 .. i - 1 : f[h].key # f[i].key
    BY <1>3, <1>4, <1>5 DEF StatusEnds
  <2>. HIDE DEF f, t
  <2>. QED
    BY <1>3, <2>1, WholeValues
<1>7. KeptIn(m, p.map, p.asked)
  BY <1>2, Zenon DEF Loaded1, FirstMap
<1>8. l.key \in DOMAIN p.map /\ p.map[l.key] = m[l.key]
  <2>. HIDE DEF m, p, f
  <2>. QED
    BY <1>5, <1>6, <1>7 DEF KeptIn
<1>9. IsEntry(l)
  <2>1. l \in Range(f)
    BY <1>5 DEF Range
  <2>. QED
    BY <1>3, <2>1 DEF IsStatus
<1>10. ValuesOf(l) \in Seq(Seq(Word))
  BY <1>9, ValuesAre
<1>. HIDE DEF m
<1>. QED
  BY <1>5, <1>6, <1>8, <1>10, Zenon

\* After one load, and however the package has been moved since, the lines of
\* the status file that came whole have their values in the map (load, the move
\* constructor and the views of basic_package, for every file and buffer size).
THEOREM ValuesRead == PackageSpec => []ValuesAreFile
<1>1. PackageInv => ValuesAreFile
  <2>. SUFFICES ASSUME PackageInv PROVE ValuesAreFile
    OBVIOUS
  <2>1. PackageTypeOK
    <3>1. terminated \in BOOLEAN /\ called \in 0 .. MaxLoads /\ MaxLoads \in Nat
      BY FilesAreStatuses DEF PackageInv
    <3>2. ASSUME NEW o \in Objects
          PROVE  /\ \/ pkg[o].buffer \in {NoObject, Gone}
                    \/ Range(pkg[o].buffer) \subseteq Symbols /\ Len(pkg[o].buffer) <= BufferSize
                 /\ \A k \in DOMAIN pkg[o].map : Range(k) \subseteq Symbols
                 /\ pkg[o].app \in {"none", "yes", "no"}
                 /\ pkg[o].loads \in 0 .. MaxLoads
                 /\ pkg[o].asked \subseteq Asked
      <4> DEFINE p == pkg[o]
      <4>1. PackageOK(p, called)
        BY DEF PackageInv
      <4>. HIDE DEF p
      <4>2. /\ p.loads \in Nat /\ p.loads <= called
            /\ p.app \in {"none", "yes", "no"} /\ p.asked \subseteq Asked
            /\ DOMAIN p.map \subseteq Seq(Symbols)
            /\ p.loads = 0 => p.buffer \in {NoObject, Gone, <<>>}
            /\ p.loads > 0 => p.buffer \in Seq(Symbols) /\ Len(p.buffer) <= BufferSize
        BY <4>1 DEF PackageOK, Loaded1
      <4>3. \A s \in Seq(Symbols) : Range(s) \subseteq Symbols
        BY DEF Range
      <4>4. p.buffer \in {NoObject, Gone} \/ (Range(p.buffer) \subseteq Symbols /\ Len(p.buffer) <= BufferSize)
        <5> DEFINE b == p.buffer
        <5>1. ASSUME b = <<>> PROVE b \in Seq(Symbols) /\ Len(b) <= BufferSize
          <6>1. BufferSize \in Nat
            BY FilesAreStatuses
          <6>. QED
            BY <5>1, <6>1
        <5>2. b \in {NoObject, Gone, <<>>} \/ (b \in Seq(Symbols) /\ Len(b) <= BufferSize)
          <6>1. p.loads = 0 \/ p.loads > 0
            BY <4>2
          <6>. QED
            BY <4>2, <6>1, Zenon
        <5>. HIDE DEF b, NoObject, Gone
        <5>3. b \in {NoObject, Gone} \/ b = <<>> \/ (b \in Seq(Symbols) /\ Len(b) <= BufferSize)
          BY <5>2
        <5>4. b \in {NoObject, Gone} \/ (b \in Seq(Symbols) /\ Len(b) <= BufferSize)
          BY <5>1, <5>3, Zenon
        <5>. QED
          BY <4>3, <5>4, Zenon DEF b
      <4>5. \A k \in DOMAIN p.map : Range(k) \subseteq Symbols
        BY <4>2, <4>3
      <4>6. p.loads \in 0 .. MaxLoads
        BY <3>1, <4>2
      <4>. QED
        BY <4>2, <4>4, <4>5, <4>6 DEF p
    <3>. QED
      BY <3>1, <3>2, Zenon DEF PackageTypeOK
  <2>2. ASSUME NEW o \in Objects, pkg[o].loads = 1, NEW l \in FirstLines(o)
        PROVE  /\ l.key \in DOMAIN pkg[o].map
               /\ [i \in DOMAIN pkg[o].map[l.key] |-> ReadsNow(pkg[o].buffer, pkg[o].map[l.key][i])] = ValuesOf(l)
    <3> DEFINE p == pkg[o]
               t == FirstText(p)
               values == p.map[l.key]
               V == ValuesOf(l)
    <3>1. l.key \in DOMAIN p.map /\ Gives(t, values, V) /\ V \in Seq(Seq(Word))
      BY <2>2, FirstLineRead
    <3>2. p.buffer = t
      <4>1. PackageOK(p, called)
        BY DEF PackageInv
      <4>2. LoadedOnce(p)
        BY <2>2, <4>1 DEF PackageOK
      <4>. QED
        BY <4>2, Zenon DEF LoadedOnce
    <3>. HIDE DEF V, values, t
    <3>3. DOMAIN values = 1 .. Len(V) /\ \A i \in 1 .. Len(V) : ReadsNow(t, values[i]) = V[i]
      BY <3>1, Zenon DEF Gives
    <3>4. V = [i \in 1 .. Len(V) |-> V[i]]
      BY <3>1
    <3>5. [i \in DOMAIN values |-> ReadsNow(p.buffer, values[i])] = V
      BY <3>2, <3>3, <3>4
    <3>. QED
      BY <3>1, <3>5 DEF values, V
  <2>. QED
    BY <2>1, <2>2, Zenon DEF ValuesAreFile
<1>. QED
  BY <1>1, PackagesStay, PTL

\* However often a package is loaded, and whatever operator[] puts into its map,
\* the numbers of the keys that the first load had whole stay (data_map_.emplace
\* of load leaves a key alone that is there, for every file and buffer size).
THEOREM NumbersKept == PackageSpec => []NumbersStay
<1>1. PackageInv => NumbersStay
  <2>. SUFFICES ASSUME PackageInv,
                       NEW o \in Objects, pkg[o].loads >= 1, NEW l \in FirstLines(o),
                       NEW i \in DOMAIN ValuesOf(l), IsInteger(ValuesOf(l)[i])
                PROVE  i \in DOMAIN pkg[o].map[l.key] /\ pkg[o].map[l.key][i] = [number |-> ValuesOf(l)[i]]
    BY DEF NumbersStay
  <2> DEFINE t == FirstText(pkg[o])
             values == pkg[o].map[l.key]
             V == ValuesOf(l)
  <2>1. Gives(t, values, V) /\ V \in Seq(Seq(Word))
    BY FirstLineRead
  <2>2. i \in DOMAIN V /\ IsInteger(V[i])
    OBVIOUS
  <2>. HIDE DEF t, values, V
  <2>3. i \in 1 .. Len(V)
    BY <2>1, <2>2, LenProperties
  <2>4. DOMAIN values = 1 .. Len(V) /\ values[i] = [number |-> V[i]]
    BY <2>1, <2>2, <2>3, Zenon DEF Gives
  <2>. QED
    BY <2>3, <2>4 DEF values, V
<1>. QED
  BY <1>1, PackagesStay, PTL

--------------------------------------------------------------------------------
(* is_app *)

\* What a name is before the colon.
LEMMA PackageOf ==
  ASSUME NEW w \in Seq(Word)
  PROVE  w = Package(w) \/ IsPrefix(Append(Package(w), Colon), w)
<1> DEFINE A == Symbols \ {Colon}
           e == Past(w, 0, A)
           n == SubSeq(w, 1, e)
<1>1. w \in Text /\ w \in Seq(Symbols) /\ Len(w) \in Nat /\ Colon \in Symbols
  <2>1. Word \subseteq Symbols /\ Colon \in Symbols
    BY FilesAreStatuses DEF Word, Symbols
  <2>2. w \in Seq(Symbols)
    BY <2>1, SeqMonotonic, Zenon
  <2>. QED
    BY <2>1, <2>2, LenProperties DEF Text
<1>2. e \in 0 .. Len(w) /\ RunEnd(w, e, A)
  <2>1. 0 \in 0 .. Len(w)
    BY <1>1
  <2>. HIDE DEF A
  <2>. QED
    BY <1>1, <2>1, PastRuns
<1>3. n = Package(w)
  BY DEF Package
<1>. HIDE DEF e
<1>4. n \in Seq(Symbols) /\ Len(n) = e /\ \A i \in 1 .. e : n[i] = w[i]
  BY <1>1, <1>2
<1>5. CASE e = Len(w)
  <2>1. n = w
    <3>. HIDE DEF n
    <3>1. \A i \in 1 .. Len(n) : n[i] = w[i]
      BY <1>4
    <3>. QED
      BY <1>1, <1>4, <1>5, <3>1, SeqEqual
  <2>. QED
    BY <1>3, <2>1
<1>6. CASE e # Len(w)
  <2> DEFINE c == Append(n, Colon)
             x == e + 1
  <2>1. At(w, e) = Colon /\ e < Len(w)
    <3>1. At(w, e) \notin A
      BY <1>2, <1>6 DEF RunEnd
    <3>2. e + 1 \in 1 .. Len(w)
      BY <1>1, <1>2, <1>6
    <3>3. At(w, e) \in Symbols
      BY <1>1, <3>2, ElementOfSeq DEF At
    <3>. QED
      BY <1>2, <1>6, <3>1, <3>3
  <2>. HIDE DEF n
  <2>2. /\ c \in Seq(Symbols) /\ Len(c) = x /\ x \in Nat /\ x <= Len(w)
        /\ \A i \in 1 .. x : c[i] = w[i]
    <3>1. c \in Seq(Symbols) /\ Len(c) = Len(n) + 1 /\ (\A i \in 1 .. Len(n) : c[i] = n[i]) /\ c[Len(n) + 1] = Colon
      BY <1>1, <1>4, AppendProperties
    <3>2. w[x] = Colon
      BY <2>1 DEF At
    <3>3. x \in Nat /\ x <= Len(w) /\ e \in Nat
      BY <1>1, <1>2, <2>1
    <3>. HIDE DEF c
    <3>4. ASSUME NEW i \in 1 .. x PROVE c[i] = w[i]
      <4>1. CASE i = x
        BY <1>4, <3>1, <3>2, <4>1
      <4>2. CASE i # x
        <5>1. i \in 1 .. e
          BY <3>3, <4>2
        <5>. QED
          BY <1>4, <3>1, <5>1
      <4>. QED
        BY <4>1, <4>2
    <3>. QED
      BY <1>4, <3>1, <3>3, <3>4
  <2>. HIDE DEF c, x
  <2>3. SubSeq(c, 1, Len(c)) = SubSeq(w, 1, Len(c))
    <3> DEFINE a == SubSeq(c, 1, x)
               b == SubSeq(w, 1, x)
    <3>1. a \in Seq(Symbols) /\ Len(a) = x /\ \A i \in 1 .. x : a[i] = c[i]
      BY <2>2
    <3>2. b \in Seq(Symbols) /\ Len(b) = x /\ \A i \in 1 .. x : b[i] = w[i]
      BY <1>1, <2>2
    <3>. HIDE DEF a, b
    <3>3. Len(a) = Len(b) /\ \A i \in 1 .. Len(a) : a[i] = b[i]
      BY <2>2, <3>1, <3>2
    <3>4. a = b
      BY <3>1, <3>2, <3>3, SeqEqual
    <3>. QED
      BY <2>2, <3>4 DEF a, b
  <2>4. IsPrefix(c, w)
    BY <2>2, <2>3 DEF IsPrefix
  <2>. QED
    BY <1>3, <2>4 DEF c
<1>. QED
  BY <1>5, <1>6

\* The package of a name that is n, or n with a colon behind it.
LEMMA PackageIs ==
  ASSUME NEW w \in Seq(Word), NEW n \in Seq(Word \ {Colon}), w = n \/ IsPrefix(Append(n, Colon), w)
  PROVE  Package(w) = n
<1> DEFINE A == Symbols \ {Colon}
           e == Len(n)
<1>1. /\ Word \subseteq Symbols /\ Colon \in Symbols /\ w \in Text /\ w \in Seq(Symbols) /\ Len(w) \in Nat
      /\ n \in Seq(Symbols) /\ e \in Nat /\ \A i \in 1 .. e : n[i] \in A
  <2>1. Word \subseteq Symbols /\ Colon \in Symbols /\ Word \ {Colon} \subseteq Symbols
    BY FilesAreStatuses DEF Word, Symbols
  <2>2. w \in Seq(Symbols) /\ n \in Seq(Symbols)
    BY <2>1, SeqMonotonic, Zenon
  <2>3. e \in Nat /\ \A i \in 1 .. e : n[i] \in Word \ {Colon}
    BY ElementOfSeq, LenProperties
  <2>. QED
    BY <2>1, <2>2, <2>3, LenProperties DEF Text
<1>2. /\ e <= Len(w) /\ \A i \in 1 .. e : w[i] = n[i]
      /\ e = Len(w) \/ At(w, e) = Colon
  <2>1. CASE w = n
    BY <1>1, <2>1
  <2>2. CASE IsPrefix(Append(n, Colon), w)
    <3> DEFINE c == Append(n, Colon)
               x == e + 1
    <3>1. c \in Seq(Symbols) /\ Len(c) = x /\ (\A i \in 1 .. e : c[i] = n[i]) /\ c[x] = Colon
      BY <1>1, AppendProperties
    <3>. HIDE DEF c
    <3>2. Len(c) <= Len(w) /\ SubSeq(c, 1, Len(c)) = SubSeq(w, 1, Len(c))
      BY <2>2 DEF IsPrefix, c
    <3>3. x \in Nat /\ x <= Len(w)
      BY <1>1, <3>1, <3>2
    <3>4. \A i \in 1 .. x : SubSeq(c, 1, x)[i] = c[i] /\ SubSeq(w, 1, x)[i] = w[i]
      <4>. HIDE DEF x
      <4>. QED
        BY <1>1, <3>1, <3>3
    <3>5. \A i \in 1 .. x : w[i] = c[i]
      BY <3>1, <3>2, <3>4
    <3>6. x \in 1 .. x /\ \A i \in 1 .. e : i \in 1 .. x
      BY <1>1
    <3>7. w[x] = Colon
      BY <3>1, <3>5, <3>6
    <3>. QED
      BY <1>1, <3>1, <3>3, <3>5, <3>6, <3>7 DEF At
  <2>. QED
    BY <2>1, <2>2
<1>3. Past(w, 0, A) = e
  <2>1. 0 \in 0 .. Len(w) /\ e \in 0 .. Len(w)
    BY <1>1, <1>2
  <2>2. Run(w, 0, e, A)
    <3>1. ASSUME NEW q \in 0 .. e - 1 PROVE At(w, q) \in A
      <4>1. q + 1 \in 1 .. e
        BY <1>1
      <4>. HIDE DEF e, A
      <4>. QED
        BY <1>1, <1>2, <4>1 DEF At
    <3>. QED
      BY <3>1 DEF Run
  <2>3. RunEnd(w, e, A)
    BY <1>2 DEF RunEnd
  <2>. HIDE DEF A, e
  <2>. QED
    BY <1>1, <2>1, <2>2, <2>3, PastIs
<1>4. Package(w) = SubSeq(w, 1, e)
  BY <1>3, Zenon DEF Package
<1> DEFINE r == SubSeq(w, 1, e)
<1>5. r \in Seq(Symbols) /\ Len(r) = e /\ \A i \in 1 .. e : r[i] = w[i]
  <2>. HIDE DEF e
  <2>. QED
    BY <1>1, <1>2
<1>. HIDE DEF r
<1>6. Len(r) = Len(n) /\ \A i \in 1 .. Len(r) : r[i] = n[i]
  BY <1>2, <1>5
<1>7. r = n
  <2>. HIDE DEF e
  <2>. QED
    BY <1>1, <1>5, <1>6, SeqEqual
<1>. QED
  BY <1>4, <1>7 DEF r

\* The first word of a line of a file.
LEMMA FirstWordIs ==
  ASSUME NEW f \in StatusFiles, NEW i \in 1 .. Len(f), Len(ValuesOf(f[i])) \in Nat \ {0},
         NEW k, f[i].key = k
  PROVE  LET w == ValuesOf(f[i])[1]
         IN  w \in FirstWords(f, k) /\ w \in Seq(Word) /\ (k = Uid => IsInteger(w))
<1> DEFINE l == f[i]
           V == ValuesOf(l)
           n == Len(l.words)
<1>1. IsStatus(f)
  BY FilesAreStatuses
<1>2. i \in DOMAIN f /\ l \in Range(f)
  BY <1>1, StatusFileLaid DEF Range
<1>3. IsEntry(l)
  BY <1>1, <1>2 DEF IsStatus
<1>4. V # <<>> /\ 1 \in 1 .. Len(V)
  <2>. HIDE DEF V
  <2>1. Len(V) \in Nat \ {0}
    BY DEF V
  <2>. QED
    BY <2>1
<1>5. /\ n \in Nat /\ Len(V) = IF l.trailing THEN n + 1 ELSE n
      /\ \A j \in 1 .. n : V[j] = l.words[j]
      /\ l.trailing => V[n + 1] = <<>>
      /\ V \in Seq(Seq(Word))
  BY <1>3, ValuesAre
<1>6. V[1] \in Seq(Word)
  <2>. HIDE DEF V
  <2>. QED
    BY <1>4, <1>5, ElementOfSeq
<1>7. V[1] \in FirstWords(f, k)
  <2>. HIDE DEF V
  <2>1. l \in {m \in Range(f) : m.key = k /\ ValuesOf(m) # <<>>}
    BY <1>2, <1>4 DEF V
  <2>. QED
    BY <2>1 DEF FirstWords, V
<1>8. ASSUME k = Uid PROVE IsInteger(V[1])
  <2>1. CASE n = 0
    <3>1. l.trailing /\ n + 1 = 1
      <4>. HIDE DEF V
      <4>. QED
        BY <1>4, <1>5, <2>1
    <3>2. V[1] = <<>>
      BY <1>5, <3>1
    <3>3. IsInteger(<<>>)
      BY DEF IsInteger
    <3>. QED
      BY <3>2, <3>3, Zenon
  <2>2. CASE n # 0
    <3>1. 1 \in 1 .. n
      BY <1>5, <2>2
    <3>2. V[1] = l.words[1] /\ l.words[1] \in Range(l.words)
      <4>1. V[1] = l.words[1]
        BY <1>5, <3>1
      <4>2. DOMAIN l.words = 1 .. n
        BY <1>3, EntryIs
      <4>. QED
        BY <3>1, <4>1, <4>2 DEF Range
    <3>3. \A w \in Range(l.words) : IsInteger(w)
      BY <1>2, <1>8, NameBeforeUid
    <3>. QED
      BY <3>2, <3>3
  <2>. QED
    BY <2>1, <2>2
<1>. QED
  BY <1>6, <1>7, <1>8

\* Where is_app says yes, by what the first load has read, the file is an app's.
LEMMA YesIsApp ==
  ASSUME NEW f \in StatusFiles, NEW t \in Text, Prefix(t, StatusText(f)),
         SaysApp(Emplace(NoKeys, t), t)
  PROVE  FileIsApp(f)
<1> DEFINE m == Emplace(NoKeys, t)
<1>1. UidIsApp(m) /\ NameIsText(m) /\ Found(ReadsNow(t, m[Name][1]))
  BY Zenon DEF SaysApp
<1>2. HasValue(m, Uid) /\ IsNumber(m[Uid][1]) /\ Len(m[Uid][1].number) >= AppDigits
  BY <1>1, Zenon DEF UidIsApp
<1>3. HasValue(m, Name) /\ ~IsNumber(m[Name][1])
  BY <1>1, Zenon DEF NameIsText
<1>4. IsStatus(f)
  BY FilesAreStatuses
<1>5. Len(f) \in Nat /\ DOMAIN f = 1 .. Len(f) /\ Len(t) \in Nat
  BY <1>4, StatusFileLaid, LenProperties DEF Text
<1>. HIDE DEF m
<1>6. PICK i \in 1 .. Len(f) : ValueFrom(f, t, Uid, m[Uid], i)
  BY <1>2, <1>4, ValueHasLine DEF m
<1>7. PICK j \in 1 .. Len(f) : ValueFrom(f, t, Name, m[Name], j)
  BY <1>3, <1>4, ValueHasLine DEF m
<1>8. /\ f[i].key = Uid /\ Len(ValuesOf(f[i])) \in Nat \ {0}
      /\ Len(ReadsNow(t, m[Uid][1])) \in 0 .. Len(ValuesOf(f[i])[1])
      /\ i > 1 => StatusEnds(f, i - 1) <= Len(t)
  BY <1>6, Zenon DEF ValueFrom
<1>9. /\ f[j].key = Name /\ Len(ValuesOf(f[j])) \in Nat \ {0}
      /\ StatusEnds(f, j) <= Len(t) => Gives(t, m[Name], ValuesOf(f[j]))
  BY <1>7, Zenon DEF ValueFrom
<1> DEFINE u == ValuesOf(f[i])[1]
           w == ValuesOf(f[j])[1]
<1>10. u \in FirstWords(f, Uid) /\ IsInteger(u) /\ u \in Seq(Word)
  BY <1>8, FirstWordIs
<1>11. w \in FirstWords(f, Name) /\ w \in Seq(Word)
  BY <1>9, FirstWordIs
<1>12. Len(u) >= AppDigits
  <2>1. ReadsNow(t, m[Uid][1]) = m[Uid][1].number
    BY <1>2, Zenon DEF ReadsNow
  <2> DEFINE a == Len(m[Uid][1].number)
  <2>2. Len(ReadsNow(t, m[Uid][1])) = a /\ a >= AppDigits
    BY <1>2, <2>1
  <2>. HIDE DEF a, u
  <2>3. a \in 0 .. Len(u)
    BY <1>8, <2>2 DEF u
  <2>4. Len(u) \in Nat
    BY <1>10, LenProperties
  <2>. QED
    BY <2>2, <2>3, <2>4, NameBeforeUid
<1>13. Gives(t, m[Name], ValuesOf(f[j]))
  <2>1. j < i
    BY <1>5, <1>8, <1>9, NameBeforeUid
  <2>2. i > 1 /\ i - 1 \in 0 .. Len(f) /\ j \in 0 .. i - 1
    BY <1>5, <2>1
  <2>3. StatusEnds(f, i - 1) <= Len(t)
    BY <1>8, <2>2
  <2>4. StatusEnds(f, j) <= StatusEnds(f, i - 1) /\ StatusEnds(f, j) \in Nat /\ StatusEnds(f, i - 1) \in Nat
    BY <1>4, <2>2, StatusEndsGrow
  <2>5. StatusEnds(f, j) <= Len(t)
    BY <1>5, <2>3, <2>4
  <2>. QED
    BY <1>9, <2>5
<1>14. ReadsNow(t, m[Name][1]) = w /\ ~IsInteger(w)
  <2> DEFINE V == ValuesOf(f[j])
  <2>1. 1 \in 1 .. Len(V)
    <3>. HIDE DEF V
    <3>1. Len(V) \in Nat \ {0}
      BY <1>9 DEF V
    <3>. QED
      BY <3>1
  <2>2. ReadsNow(t, m[Name][1]) = V[1] /\ (IsNumber(m[Name][1]) <=> IsInteger(V[1]))
    BY <1>13, <2>1, Zenon DEF Gives
  <2>. QED
    BY <1>3, <2>2, Zenon
<1>. HIDE DEF u, w
<1>15. \E n \in Installed \cup {<<>>} : w = n \/ IsPrefix(Append(n, Colon), w)
  <2>1. Package(w) \in Installed \cup {<<>>}
    BY <1>1, <1>14 DEF Found
  <2>2. w = Package(w) \/ IsPrefix(Append(Package(w), Colon), w)
    BY <1>11, PackageOf
  <2>. QED
    BY <2>1, <2>2, Zenon
<1>. QED
  BY <1>10, <1>11, <1>12, <1>14, <1>15, Zenon DEF FileIsApp

\* A line with a value in a file that came whole is read into the map.
LEMMA WordIsRead ==
  ASSUME NEW f \in StatusFiles, NEW t \in Text, Prefix(t, StatusText(f)), Len(t) = Len(StatusText(f)),
         NEW k, NEW w \in FirstWords(f, k)
  PROVE  LET m == Emplace(NoKeys, t)
         IN  /\ HasValue(m, k) /\ ReadsNow(t, m[k][1]) = w /\ w \in Seq(Word)
             /\ IsNumber(m[k][1]) <=> IsInteger(w)
<1> DEFINE m == Emplace(NoKeys, t)
<1>1. IsStatus(f)
  BY FilesAreStatuses
<1>2. /\ Len(f) \in Nat /\ DOMAIN f = 1 .. Len(f) /\ Len(t) \in Nat
      /\ StatusEnds(f, Len(f)) = Len(StatusText(f))
  BY <1>1, StatusFileLaid, LenProperties DEF Text
<1>3. PICK l \in Range(f) : l.key = k /\ ValuesOf(l) # <<>> /\ w = ValuesOf(l)[1]
  BY DEF FirstWords
<1>4. PICK i \in 1 .. Len(f) : l = f[i]
  BY <1>2, <1>3 DEF Range
<1> DEFINE V == ValuesOf(l)
<1>5. IsEntry(l) /\ V \in Seq(Seq(Word)) /\ V # <<>>
  BY <1>1, <1>3, ValuesAre DEF IsStatus
<1>6. StatusEnds(f, i) <= Len(t)
  <2>1. i \in 0 .. Len(f) /\ Len(f) \in 0 .. Len(f) /\ i \in 0 .. Len(f)
    BY <1>2
  <2>2. StatusEnds(f, i) <= StatusEnds(f, Len(f))
    BY <1>1, <2>1, StatusEndsGrow
  <2>. QED
    BY <1>2, <2>2
<1>7. \A h \in 1 .. i - 1 : f[h].key # f[i].key
  <2>1. ASSUME NEW h \in 1 .. i - 1, f[h].key = f[i].key PROVE FALSE
    <3>1. h \in DOMAIN f /\ i \in DOMAIN f /\ h # i
      BY <1>2
    <3>. QED
      BY <2>1, <3>1, NameBeforeUid
  <2>. QED
    BY <2>1
<1>8. k \in DOMAIN m /\ Gives(t, m[k], V)
  <2>1. f[i].key \in DOMAIN m /\ Gives(t, m[f[i].key], ValuesOf(f[i]))
    BY <1>1, <1>6, <1>7, WholeValues
  <2>. HIDE DEF m
  <2>. QED
    BY <1>3, <1>4, <2>1
<1> DEFINE values == m[k]
<1>. HIDE DEF V, values
<1>9. 1 \in 1 .. Len(V)
  BY <1>5
<1>10. DOMAIN values = 1 .. Len(V) /\ ReadsNow(t, values[1]) = V[1] /\ (IsNumber(values[1]) <=> IsInteger(V[1]))
  BY <1>8, <1>9, Zenon DEF Gives, values
<1>11. values # <<>>
  BY <1>9, <1>10
<1>12. w = V[1] /\ w \in Seq(Word)
  BY <1>3, <1>5, <1>9, ElementOfSeq DEF V
<1>. HIDE DEF m
<1>13. HasValue(m, k)
  BY <1>8, <1>11, Zenon DEF HasValue, values
<1>. QED
  BY <1>10, <1>12, <1>13, Zenon DEF values, m

\* Where a file that came whole is an app's, is_app says yes.
LEMMA AppIsYes ==
  ASSUME NEW f \in StatusFiles, NEW t \in Text, Prefix(t, StatusText(f)), Len(t) = Len(StatusText(f)),
         FileIsApp(f)
  PROVE  SaysApp(Emplace(NoKeys, t), t)
<1> DEFINE m == Emplace(NoKeys, t)
<1>1. PICK u \in FirstWords(f, Uid) : IsInteger(u) /\ Len(u) >= AppDigits
  BY Zenon DEF FileIsApp
<1>2. PICK w \in FirstWords(f, Name) : ~IsInteger(w) /\ \E n \in Installed \cup {<<>>} : w = n \/ IsPrefix(Append(n, Colon), w)
  BY Zenon DEF FileIsApp
<1>3. HasValue(m, Uid) /\ ReadsNow(t, m[Uid][1]) = u /\ IsNumber(m[Uid][1])
  BY <1>1, WordIsRead
<1>4. HasValue(m, Name) /\ ReadsNow(t, m[Name][1]) = w /\ ~IsNumber(m[Name][1]) /\ w \in Seq(Word)
  BY <1>2, WordIsRead
<1>. HIDE DEF m
<1>5. UidIsApp(m)
  <2>1. m[Uid][1].number = u
    BY <1>3, Zenon DEF ReadsNow
  <2>. QED
    BY <1>1, <1>3, <2>1 DEF UidIsApp
<1>6. NameIsText(m)
  BY <1>4, Zenon DEF NameIsText
<1>7. Found(w)
  <2>1. PICK n \in Installed \cup {<<>>} : w = n \/ IsPrefix(Append(n, Colon), w)
    BY <1>2
  <2>2. n \in Seq(Word \ {Colon})
    <3>1. <<>> \in Seq(Word \ {Colon})
      OBVIOUS
    <3>. QED
      BY <2>1, <3>1, NameBeforeUid
  <2>3. Package(w) = n
    BY <1>4, <2>1, <2>2, PackageIs
  <2>. QED
    BY <2>1, <2>3 DEF Found
<1>8. SaysApp(m, t)
  BY <1>4, <1>5, <1>6, <1>7, Zenon DEF SaysApp
<1>. QED
  BY <1>8 DEF m

\* After one load is_app, asked of a package whose file may have been cut
\* anywhere, says yes of an app only, and no of an app only where the file was
\* cut (is_app and name_is_app, for every file, buffer size and set of names).
THEOREM AppsAreApps == PackageSpec => []AppMeansApp
<1>1. PackageInv => AppMeansApp
  <2>. SUFFICES ASSUME PackageInv, NEW o \in Objects, pkg[o].loads = 1, pkg[o].asked = {}
                PROVE  /\ pkg[o].app = "yes" => FileIsApp(pkg[o].first.file)
                       /\ pkg[o].app = "no" /\ FileIsApp(pkg[o].first.file) =>
                             pkg[o].first.size < Len(StatusText(pkg[o].first.file))
    BY DEF AppMeansApp
  <2> DEFINE p == pkg[o]
             f == p.first.file
             t == FirstText(p)
  <2>1. PackageOK(p, called)
    BY DEF PackageInv
  <2>2. Loaded1(p) /\ LoadedOnce(p)
    BY <2>1 DEF PackageOK
  <2>3. /\ f \in StatusFiles /\ t \in Text /\ Len(t) = p.first.size /\ Prefix(t, StatusText(f))
        /\ Len(t) \in Nat /\ Len(t) <= Len(StatusText(f)) /\ Len(StatusText(f)) \in Nat
    BY <2>2, FirstTextIs
  <2>4. p.app # "none" => (p.app = "yes" <=> SaysApp(FirstMap(p), t))
    BY <2>2, Zenon DEF LoadedOnce
  <2>5. FirstMap(p) = Emplace(NoKeys, t)
    BY Zenon DEF FirstMap
  <2>. HIDE DEF p, f, t
  <2>6. ASSUME p.app = "yes" PROVE FileIsApp(f)
    <3>1. SaysApp(Emplace(NoKeys, t), t)
      BY <2>4, <2>5, <2>6
    <3>. QED
      BY <2>3, <3>1, YesIsApp
  <2>7. ASSUME p.app = "no", FileIsApp(f) PROVE p.first.size < Len(StatusText(f))
    <3>1. ~SaysApp(Emplace(NoKeys, t), t)
      BY <2>4, <2>5, <2>7
    <3>2. Len(t) # Len(StatusText(f))
      BY <2>3, <2>7, <3>1, AppIsYes
    <3>. QED
      BY <2>3, <3>2
  <2>. QED
    BY <2>6, <2>7 DEF p, f
<1>. QED
  BY <1>1, PackagesStay, PTL
================================================================================

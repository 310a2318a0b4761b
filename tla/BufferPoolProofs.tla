---------------------------- MODULE BufferPoolProofs ----------------------------
(***************************************************************************)
(* Proofs about BufferPool, for any threads, number of buffers and number   *)
(* of buffers a caller holds at a time.                                     *)
(***************************************************************************)
EXTENDS BufferPool, SequenceTheorems, FiniteSetTheorems, TLAPS

--------------------------------------------------------------------------------
(* What the stack operations do to the vector *)

\* Popping the back leaves the rest in place.
LEMMA PopBack ==
  ASSUME NEW s \in Seq(Buffers), s # <<>>
  PROVE  LET r == SubSeq(s, 1, Len(s) - 1)
         IN  /\ s[Len(s)] \in Buffers
             /\ Len(s) \in DOMAIN s
             /\ r \in Seq(Buffers)
             /\ Len(r) = Len(s) - 1
             /\ DOMAIN r = DOMAIN s \ {Len(s)}
             /\ \A i \in DOMAIN r : r[i] = s[i]
<1> DEFINE r == SubSeq(s, 1, Len(s) - 1)
<1>1. Len(s) \in Nat /\ Len(s) # 0 /\ DOMAIN s = 1 .. Len(s)
  BY LenProperties, EmptySeq
<1>2. /\ s[Len(s)] \in Buffers
      /\ Len(s) \in DOMAIN s
  BY <1>1, ElementOfSeq
<1>3. /\ r \in Seq(Buffers)
      /\ Len(r) = Len(s) - 1
      /\ \A i \in 1 .. Len(s) - 1 : r[i] = s[i]
  BY <1>1, SubSeqProperties
<1>4. DOMAIN r = 1 .. Len(s) - 1
  BY <1>3, LenProperties
<1>. QED
  BY <1>1, <1>2, <1>3, <1>4

\* Pushing at the back leaves the rest in place.
LEMMA PushBack ==
  ASSUME NEW s \in Seq(Buffers), NEW b \in Buffers
  PROVE  /\ Append(s, b) \in Seq(Buffers)
         /\ Len(Append(s, b)) = Len(s) + 1
         /\ Len(s) \in Nat
         /\ DOMAIN s = 1 .. Len(s)
         /\ DOMAIN Append(s, b) = 1 .. Len(s) + 1
         /\ \A i \in DOMAIN s : Append(s, b)[i] = s[i]
         /\ Append(s, b)[Len(s) + 1] = b
BY LenProperties, AppendProperties

--------------------------------------------------------------------------------
(* Type correctness *)

\* Every step keeps the variables in their types.
LEMMA TypeStep == TypeOK /\ [Next]_vars => TypeOK'
<1> SUFFICES ASSUME TypeOK, [Next]_vars PROVE TypeOK'
  OBVIOUS
<1> USE DEF TypeOK, States
<1>1. ASSUME NEW t \in Threads, Take(t) \/ TryAcquire(t) PROVE TypeOK'
  <2>1. free # <<>> /\ free' = SubSeq(free, 1, Len(free) - 1)
        /\ held' = [held EXCEPT ![t] = @ \cup {free[Len(free)]}]
        /\ pc' \in [Threads -> States]
    BY <1>1 DEF Take, TryAcquire, PopTo
  <2>2. free' \in Seq(Buffers) /\ free[Len(free)] \in Buffers
    BY <2>1, PopBack
  <2>. QED
    BY <2>1, <2>2
<1>2. ASSUME NEW t \in Threads, NEW b \in Buffers, Release(t, b) PROVE TypeOK'
  BY <1>2, PushBack DEF Release, NotifyOne, Blocked
<1>3. ASSUME NEW t \in Threads,
             \/ Acquire(t) \/ AcquireNotice(t) \/ NoticeBegin(t) \/ NoticeEnd(t)
             \/ Block(t) \/ SpuriousWake(t)
      PROVE  TypeOK'
  BY <1>3 DEF Acquire, AcquireNotice, NoticeBegin, NoticeEnd, Block, SpuriousWake
<1>4. CASE UNCHANGED vars
  BY <1>4 DEF vars
<1>. QED
  BY <1>1, <1>2, <1>3, <1>4 DEF Next, AcquireStep

\* The initial vector holds each buffer once.
LEMMA TypeInit == Init => TypeOK
<1>1. [i \in 1 .. BufferCount |-> i] \in Seq(1 .. BufferCount)
  BY BufferAssumption DEF BufferAssumption
<1>. QED
  BY <1>1 DEF Init, TypeOK, States, Buffers

\* buffer_pool's variables never leave their types.
THEOREM TypeCorrect == SafeSpec => []TypeOK
BY TypeInit, TypeStep, PTL DEF SafeSpec

--------------------------------------------------------------------------------
(* No stranded buffer *)

\* The sets the invariant counts are finite.
LEMMA CountsAreNat ==
  ASSUME NEW S, S \subseteq Threads
  PROVE  IsFiniteSet(S) /\ Cardinality(S) \in Nat
BY BufferAssumption, FS_Subset, FS_CardinalityType DEF BufferAssumption

\* Every step keeps each free buffer covered by a thread about to look while
\* some thread sleeps.
LEMMA StrandedStep ==
  TypeOK /\ NoStrandedBuffer /\ [Next]_vars => NoStrandedBuffer'
<1> SUFFICES ASSUME TypeOK, NoStrandedBuffer, [Next]_vars, Blocked' # {}
             PROVE  Len(free') <= Cardinality(Rechecking')
  BY DEF NoStrandedBuffer
<1> USE DEF TypeOK, States
<1>1. /\ IsFiniteSet(Rechecking) /\ Cardinality(Rechecking) \in Nat
      /\ IsFiniteSet(Rechecking') /\ Cardinality(Rechecking') \in Nat
  BY CountsAreNat DEF Rechecking
<1>2. Len(free) \in Nat
  BY LenProperties
<1>3. Blocked # {} => Len(free) <= Cardinality(Rechecking)
  BY DEF NoStrandedBuffer
<1>4. ASSUME NEW t \in Threads, Take(t)
      PROVE  Len(free') <= Cardinality(Rechecking')
  <2>1. Len(free') = Len(free) - 1
    BY <1>4, PopBack DEF Take, PopTo
  <2>2. Rechecking' = Rechecking \ {t} /\ Blocked' = Blocked
    BY <1>4 DEF Take, Rechecking, Blocked
  <2>3. Len(free) <= Cardinality(Rechecking)
    BY <1>3, <2>2
  <2>4. CASE t \in Rechecking
    <3>1. Cardinality(Rechecking') = Cardinality(Rechecking) - 1
      BY <1>1, <2>2, <2>4, FS_RemoveElement
    <3>. QED
      BY <1>1, <1>2, <2>1, <2>3, <3>1
  <2>5. CASE t \notin Rechecking
    <3>1. Rechecking' = Rechecking
      BY <2>2, <2>5
    <3>. QED
      BY <1>1, <1>2, <2>1, <2>3, <3>1
  <2>. QED
    BY <2>4, <2>5
<1>5. ASSUME NEW t \in Threads, TryAcquire(t)
      PROVE  Len(free') <= Cardinality(Rechecking')
  <2>1. Len(free') = Len(free) - 1
    BY <1>5, PopBack DEF TryAcquire, PopTo
  <2>2. Rechecking' = Rechecking /\ Blocked' = Blocked
    BY <1>5 DEF TryAcquire, Rechecking, Blocked
  <2>. QED
    BY <1>1, <1>2, <1>3, <2>1, <2>2
<1>6. ASSUME NEW t \in Threads, NEW b \in Buffers, Release(t, b)
      PROVE  Len(free') <= Cardinality(Rechecking')
  <2>1. Len(free') = Len(free) + 1
    BY <1>6, PushBack DEF Release
  <2>2. Blocked # {}
    BY <1>6 DEF Release, NotifyOne, Blocked
  <2>3. PICK u \in Blocked : pc' = [pc EXCEPT ![u] = "lock"]
    BY <1>6, <2>2 DEF Release, NotifyOne
  <2>4. Rechecking' = Rechecking \cup {u} /\ u \notin Rechecking
    BY <2>3 DEF Rechecking, Blocked
  <2>5. Cardinality(Rechecking') = Cardinality(Rechecking) + 1
    BY <1>1, <2>4, FS_AddElement
  <2>. QED
    BY <1>1, <1>2, <1>3, <2>1, <2>2, <2>5
<1>7. ASSUME NEW t \in Threads, Acquire(t) \/ NoticeEnd(t) \/ SpuriousWake(t)
      PROVE  Len(free') <= Cardinality(Rechecking')
  <2>1. Rechecking' = Rechecking \cup {t} /\ t \notin Rechecking
    BY <1>7 DEF Acquire, NoticeEnd, SpuriousWake, Rechecking
  <2>2. free' = free /\ Blocked # {}
    BY <1>7 DEF Acquire, NoticeEnd, SpuriousWake, Blocked
  <2>3. Cardinality(Rechecking') = Cardinality(Rechecking) + 1
    BY <1>1, <2>1, FS_AddElement
  <2>. QED
    BY <1>1, <1>2, <1>3, <2>2, <2>3
<1>8. ASSUME NEW t \in Threads, AcquireNotice(t)
      PROVE  Len(free') <= Cardinality(Rechecking')
  <2>1. free' = free /\ Rechecking' = Rechecking /\ Blocked' = Blocked
    BY <1>8 DEF AcquireNotice, Rechecking, Blocked
  <2>. QED
    BY <1>3, <2>1
<1>9. ASSUME NEW t \in Threads, NoticeBegin(t) \/ Block(t)
      PROVE  Len(free') <= Cardinality(Rechecking')
  <2>1. Len(free') = 0
    BY <1>9 DEF NoticeBegin, Block
  <2>. QED
    BY <1>1, <2>1
<1>10. CASE UNCHANGED vars
  BY <1>3, <1>10 DEF vars, Blocked, Rechecking
<1>. QED
  BY <1>4, <1>5, <1>6, <1>7, <1>8, <1>9, <1>10 DEF Next, AcquireStep

\* No buffer lies free while everybody who wants one sleeps.
THEOREM NoneStranded == SafeSpec => []NoStrandedBuffer
<1>1. Init => NoStrandedBuffer
  BY DEF Init, NoStrandedBuffer, Blocked
<1>. QED
  BY <1>1, TypeCorrect, StrandedStep, PTL DEF SafeSpec

--------------------------------------------------------------------------------
(* Conservation and exclusivity *)

\* Popping moves exactly the top of the stack from the vector to the caller.
LEMMA PopConserves ==
  ASSUME TypeOK, BuffersConserved, NEW t \in Threads, PopTo(t)
  PROVE  /\ BuffersConserved'
         /\ \E b \in Buffers :
              /\ IsFree(b)
              /\ held' = [held EXCEPT ![t] = @ \cup {b}]
              /\ \A c : IsFree(c)' <=> (IsFree(c) /\ c # b)
<1> USE DEF TypeOK
<1>1. PICK b \in Buffers : b = free[Len(free)]
  BY PopBack DEF PopTo
<1>2. /\ Len(free) \in DOMAIN free
      /\ DOMAIN free' = DOMAIN free \ {Len(free)}
      /\ \A i \in DOMAIN free' : free'[i] = free[i]
  BY PopBack DEF PopTo
<1>3. held' = [held EXCEPT ![t] = @ \cup {b}]
  BY <1>1 DEF PopTo
<1>4. IsFree(b)
  BY <1>1, <1>2 DEF IsFree
<1>5. \A i, j \in DOMAIN free : free[i] = free[j] => i = j
  BY DEF BuffersConserved
<1>6. \A c : IsFree(c)' <=> (IsFree(c) /\ c # b)
  BY <1>1, <1>2, <1>5 DEF IsFree
<1>7. \A u \in Threads : b \notin held[u]
  BY <1>4 DEF BuffersConserved
<1>8. \A u \in Threads : held'[u] = IF u = t THEN held[u] \cup {b} ELSE held[u]
  BY <1>3
<1>9. \A i, j \in DOMAIN free' : free'[i] = free'[j] => i = j
  BY <1>2, <1>5
<1>10. ASSUME NEW u \in Threads, NEW c \in held'[u]
       PROVE  ~IsFree(c)' /\ \A v \in Threads : c \in held'[v] => u = v
  <2>1. CASE c = b
    BY <1>6, <1>7, <1>8, <1>10, <2>1
  <2>2. CASE c # b
    <3>1. \A v \in Threads : c \in held'[v] <=> c \in held[v]
      BY <1>8, <2>2
    <3>2. c \in held[u]
      BY <1>10, <3>1
    <3>3. ~IsFree(c) /\ \A v \in Threads : c \in held[v] => u = v
      BY <3>2 DEF BuffersConserved
    <3>. QED
      BY <1>6, <3>1, <3>3
  <2>. QED
    BY <2>1, <2>2
<1>11. \A c \in Buffers : IsFree(c)' \/ \E u \in Threads : c \in held'[u]
  BY <1>6, <1>8 DEF BuffersConserved
<1>. QED
  BY <1>3, <1>4, <1>6, <1>9, <1>10, <1>11 DEF BuffersConserved

\* Releasing moves exactly the buffer given back to the vector.
LEMMA ReleaseConserves ==
  ASSUME TypeOK, BuffersConserved, NEW t \in Threads, NEW b \in Buffers, Release(t, b)
  PROVE  /\ BuffersConserved'
         /\ \A c : IsFree(c)' <=> (IsFree(c) \/ c = b)
<1> USE DEF TypeOK
<1>1. /\ Len(free) \in Nat
      /\ DOMAIN free = 1 .. Len(free)
      /\ DOMAIN free' = 1 .. Len(free) + 1
      /\ \A i \in DOMAIN free : free'[i] = free[i]
      /\ free'[Len(free) + 1] = b
  BY PushBack DEF Release
<1>2. /\ b \in held[t]
      /\ \A u \in Threads : held'[u] = IF u = t THEN held[u] \ {b} ELSE held[u]
  BY DEF Release
<1>3. \A c : IsFree(c)' <=> (IsFree(c) \/ c = b)
  BY <1>1 DEF IsFree
<1>4. ~IsFree(b)
  BY <1>2 DEF BuffersConserved
<1>5. ASSUME NEW i \in DOMAIN free', NEW j \in DOMAIN free', free'[i] = free'[j]
      PROVE  i = j
  <2>1. CASE i \in DOMAIN free /\ j \in DOMAIN free
    BY <1>1, <1>5, <2>1 DEF BuffersConserved
  <2>2. CASE i \notin DOMAIN free \/ j \notin DOMAIN free
    BY <1>1, <1>4, <1>5, <2>2 DEF IsFree
  <2>. QED
    BY <2>1, <2>2
<1>6. ASSUME NEW u \in Threads, NEW c \in held'[u]
      PROVE  ~IsFree(c)' /\ \A v \in Threads : c \in held'[v] => u = v
  <2>1. c \in held[u] /\ \A v \in Threads : c \in held'[v] => c \in held[v]
    BY <1>2, <1>6
  <2>2. ~IsFree(c) /\ \A v \in Threads : c \in held[v] => u = v
    BY <2>1 DEF BuffersConserved
  <2>3. c # b
    BY <1>2, <1>6, <2>2
  <2>. QED
    BY <1>3, <2>1, <2>2, <2>3
<1>7. \A c \in Buffers : IsFree(c)' \/ \E u \in Threads : c \in held'[u]
  BY <1>2, <1>3 DEF BuffersConserved
<1>. QED
  BY <1>3, <1>5, <1>6, <1>7 DEF BuffersConserved

\* Every step keeps each buffer in exactly one place.
LEMMA ConservedStep == TypeOK /\ BuffersConserved /\ [Next]_vars => BuffersConserved'
<1> SUFFICES ASSUME TypeOK, BuffersConserved, [Next]_vars PROVE BuffersConserved'
  OBVIOUS
<1>1. ASSUME NEW t \in Threads, Take(t) \/ TryAcquire(t) PROVE BuffersConserved'
  BY <1>1, PopConserves DEF Take, TryAcquire
<1>2. ASSUME NEW t \in Threads, NEW b \in Buffers, Release(t, b) PROVE BuffersConserved'
  BY <1>2, ReleaseConserves
<1>3. CASE UNCHANGED <<free, held>>
  BY <1>3 DEF BuffersConserved, IsFree
<1>. QED
  BY <1>1, <1>2, <1>3
  DEF Next, AcquireStep, Acquire, AcquireNotice, NoticeBegin, NoticeEnd, Block, SpuriousWake, vars

\* The constructor's vector holds each buffer once and nobody holds any.
LEMMA ConservedInit == Init => BuffersConserved
BY BufferAssumption DEF BufferAssumption, Init, BuffersConserved, IsFree, Buffers

\* A buffer is never handed to two callers, never lost and never duplicated.
THEOREM Exclusive == SafeSpec => []BuffersConserved
BY ConservedInit, TypeCorrect, ConservedStep, PTL DEF SafeSpec

--------------------------------------------------------------------------------
(* Refinement of BufferService *)

\* Every step of the pool is a step of the service or changes nothing in it.
LEMMA ServiceStep ==
  TypeOK /\ BuffersConserved /\ [Next]_vars => [Service!Next]_(Service!vars)
<1> SUFFICES ASSUME TypeOK, BuffersConserved, [Next]_vars
             PROVE  Service!Next \/ UNCHANGED Service!vars
  OBVIOUS
<1> DEFINE Available == {b \in Buffers : IsFree(b)}
           Waiting == {t \in Threads : pc[t] # "out"}
<1> USE DEF TypeOK, States
<1>1. ASSUME NEW t \in Threads, Take(t) \/ TryAcquire(t) PROVE Service!Next
  <2>1. PICK b \in Buffers : /\ IsFree(b)
                             /\ held' = [held EXCEPT ![t] = @ \cup {b}]
                             /\ \A c : IsFree(c)' <=> (IsFree(c) /\ c # b)
    BY <1>1, PopConserves DEF Take, TryAcquire
  <2>2. Service!Get(t, b)
    BY <2>1 DEF Service!Get
  <2>3. b \in Available
    BY <2>1
  <2>4. CASE Take(t)
    <3>1. t \in Waiting /\ Waiting' = Waiting \ {t}
      BY <2>4 DEF Take
    <3>2. Service!Grant(t)
      BY <2>2, <2>3, <3>1 DEF Service!Grant
    <3>. QED
      BY <3>2 DEF Service!Next
  <2>5. CASE TryAcquire(t)
    <3>1. t \notin Waiting /\ Waiting' = Waiting
      BY <2>5 DEF TryAcquire
    <3>2. Service!GrantNow(t)
      BY <2>2, <2>3, <3>1 DEF Service!GrantNow
    <3>. QED
      BY <3>2 DEF Service!Next
  <2>. QED
    BY <1>1, <2>4, <2>5
<1>2. ASSUME NEW t \in Threads, NEW b \in Buffers, Release(t, b) PROVE Service!Next
  <2>1. Available' = Available \cup {b}
    BY <1>2, ReleaseConserves
  <2>2. Waiting' = Waiting
    BY <1>2 DEF Release, NotifyOne, Blocked
  <2>3. Service!GiveBack(t, b)
    BY <1>2, <2>1, <2>2 DEF Release, Service!GiveBack
  <2>. QED
    BY <2>3 DEF Service!Next
<1>3. ASSUME NEW t \in Threads, Acquire(t) \/ AcquireNotice(t) PROVE Service!Next
  <2>1. t \notin Waiting /\ Waiting' = Waiting \cup {t}
    BY <1>3 DEF Acquire, AcquireNotice
  <2>2. UNCHANGED <<free, held>>
    BY <1>3 DEF Acquire, AcquireNotice
  <2>3. Service!Request(t)
    BY <2>1, <2>2 DEF Service!Request, IsFree
  <2>. QED
    BY <2>3 DEF Service!Next
<1>4. ASSUME NEW t \in Threads, NoticeBegin(t) \/ NoticeEnd(t) \/ Block(t) \/ SpuriousWake(t)
      PROVE  UNCHANGED Service!vars
  <2>1. Waiting' = Waiting /\ UNCHANGED <<free, held>>
    BY <1>4 DEF NoticeBegin, NoticeEnd, Block, SpuriousWake
  <2>. QED
    BY <2>1 DEF Service!vars, IsFree
<1>5. CASE UNCHANGED vars
  BY <1>5 DEF vars, Service!vars, IsFree
<1>. QED
  BY <1>1, <1>2, <1>3, <1>4, <1>5 DEF Next, AcquireStep

\* buffer_pool implements the safety half of the service its callers rely on.
THEOREM PoolImplementsService == SafeSpec => Service!SafeSpec
<1>1. Init => Service!Init
  BY BufferAssumption DEF BufferAssumption, Init, Service!Init, IsFree, Buffers
<1>2. SafeSpec => [](TypeOK /\ BuffersConserved)
  BY TypeCorrect, Exclusive, PTL
<1>. QED
  BY <1>1, <1>2, ServiceStep, PTL DEF SafeSpec, Service!SafeSpec
================================================================================

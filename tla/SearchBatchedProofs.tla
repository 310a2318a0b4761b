-------------------------- MODULE SearchBatchedProofs --------------------------
(***************************************************************************)
(* Proofs about SearchBatched with one worker, for any plan of chunks, any   *)
(* size of a batch and any number of buffers.  One worker makes a sequential *)
(* program of the tasks: the invariant says how far it is in the plan.      *)
(***************************************************************************)
EXTENDS SearchBatched, SequenceTheorems, FiniteSetTheorems, WellFoundedInduction, TLAPS

solo == CHOOSE w \in Workers : TRUE
OneWorker == Workers = {solo}

--------------------------------------------------------------------------------
(* The inductive invariant *)

at == job[solo]

\* How many chunks of the plan the worker has taken: those compared, those in
\* the batch, and the one it is about to append.
InBatch == IF at = "reset" THEN 0 ELSE Len(remotes)
Coming == IF at \in {"acquire", "append"} THEN 1 ELSE 0
Taken == Len(compared) + InBatch + Coming
Done == IF at = "none" THEN Taken ELSE Taken - 1

\* The thread pool: what has been taken, and what waits behind it.
PoolInv == /\ Taken <= handed
           /\ at # "none" => Taken >= 1
           /\ task[solo] = IF at = "none" THEN Nothing ELSE plan[Taken]
           /\ queue = [i \in 1 .. handed - Taken |-> plan[Taken + i]]
           /\ counter = handed - Done
           /\ fate \in [Chunks -> {"unsubmitted", "accepted", "done"}]
           /\ \A i \in DOMAIN plan : /\ fate[plan[i]] = "unsubmitted" <=> i > handed
                                     /\ fate[plan[i]] = "done" <=> i <= Done
           /\ \A c \in Chunks : fate[c] # "unsubmitted" => \E i \in DOMAIN plan : c = plan[i]

\* The buffer pool: its buffers are in their first order whenever the worker
\* has none, and the one it has is the last.
TopInv == /\ held[solo] = IF at \in {"none", "acquire", "countdown"} THEN {} ELSE {BufferCount}
          /\ free = [i \in 1 .. (IF held[solo] = {} THEN BufferCount ELSE BufferCount - 1) |-> i]
          /\ pc[solo] = IF at = "acquire" THEN "check" ELSE "out"

\* The batch: the chunks after those compared, all with that one buffer.
BatchInv == /\ locals = [i \in 1 .. Len(remotes) |-> BufferCount]
            /\ at # "reset" => \A i \in DOMAIN remotes : remotes[i] = plan[Len(compared) + i]
            /\ Len(remotes) = currCount + IF at = "count" THEN 1 ELSE 0
            /\ IF at \in {"read", "compare", "reset"} THEN currCount = RegionCount
               ELSE IF at = "test" THEN currCount <= RegionCount
               ELSE currCount < RegionCount
            /\ \A i \in DOMAIN compared : compared[i].at = plan[i]
            /\ Len(compared) % RegionCount = 0

\* What has been read into the buffer when comp comes to look at it.
ReadNow == {i \in 1 .. RegionCount : \A j \in 1 .. i : remotes[j] \notin Unreadable}
ContentInv == at = "compare" /\ ReadNow # {} => content[BufferCount] = remotes[Max(ReadNow)]

IInv == /\ OneWorker /\ TypeOK /\ PoolInv /\ TopInv /\ BatchInv
        /\ ContentInv /\ BytesOfBatch

--------------------------------------------------------------------------------
(* Greatest elements, quotients *)

\* Every nonempty set of numbers has a least one.
LEMMA Least ==
  ASSUME NEW T, T \subseteq Nat, T # {}
  PROVE  \E n \in T : \A m \in T : n <= m
<1>1. IsWellFoundedOn(OpToRel(<, Nat), Nat)
  BY NatLessThanWellFounded
<1>2. PICK n \in T : \A m \in T : ~(<<m, n>> \in OpToRel(<, Nat))
  BY <1>1, WFMin
<1>3. \A k, m \in Nat : <<m, k>> \in OpToRel(<, Nat) <=> m < k
  BY DEF OpToRel
<1>4. \A m \in T : ~(m < n)
  BY <1>2, <1>3
<1>5. \A m \in T : n <= m
  BY <1>4
<1>. QED
  BY <1>5

\* Max is the one element that no other exceeds, and a bounded set has one.
LEMMA MaxIs ==
  ASSUME NEW S, S \subseteq Nat, NEW x \in S, \A y \in S : y <= x
  PROVE  Max(S) = x
<1>1. \A z \in S : (\A y \in S : z >= y) => z = x
  OBVIOUS
<1>2. x \in S /\ \A y \in S : x >= y
  OBVIOUS
<1>. QED
  BY <1>1, <1>2 DEF Max

LEMMA MaxExists ==
  ASSUME NEW n \in Nat, NEW S, S \subseteq 1 .. n, S # {}
  PROVE  Max(S) \in S /\ \A y \in S : y <= Max(S)
<1> DEFINE T == {n - x : x \in S}
<1>1. T \subseteq Nat /\ T # {}
  OBVIOUS
<1>2. PICK k \in T : \A m \in T : k <= m
  BY <1>1, Least
<1>3. PICK x \in S : k = n - x
  OBVIOUS
<1>4. ASSUME NEW y \in S PROVE y <= x
  <2>1. n - y \in T
    OBVIOUS
  <2>2. x \in 1 .. n /\ y \in 1 .. n /\ n - x <= n - y
    BY <1>2, <1>3, <2>1
  <2>. QED
    BY <2>2
<1>5. S \subseteq Nat
  OBVIOUS
<1>6. Max(S) = x
  BY <1>4, <1>5, MaxIs
<1>. QED
  BY <1>4, <1>6

\* Below and above a multiple of d quotients differ.
LEMMA Quotients ==
  ASSUME NEW d \in Nat \ {0}, NEW l \in Nat, l % d = 0, NEW a \in Nat
  PROVE  /\ a < l => a \div d < l \div d
         /\ a \in l .. l + d - 1 => a \div d = l \div d
<1>1. PICK m \in Nat, r \in 0 .. d - 1 :
         l = d * m + r /\ r = l % d /\ m = l \div d
  OBVIOUS
<1>2. PICK q \in Nat, s \in 0 .. d - 1 :
         a = d * q + s /\ s = a % d /\ q = a \div d
  OBVIOUS
<1>3. ASSUME q >= m + 1 PROVE a >= l + d
  <2>1. d * q >= d * (m + 1) /\ d * (m + 1) = d * m + d
    BY <1>3
  <2>. QED
    BY <1>1, <1>2, <2>1
<1>4. ASSUME q >= m PROVE a >= l
  <2>1. d * q >= d * m
    BY <1>4
  <2>. QED
    BY <1>1, <1>2, <2>1
<1>5. ASSUME q < m PROVE a < l
  <2>1. q + 1 <= m
    BY <1>5
  <2>2. d * (q + 1) <= d * m /\ d * (q + 1) = d * q + d
    BY <2>1
  <2>. QED
    BY <1>1, <1>2, <2>2
<1>. QED
  BY <1>1, <1>2, <1>3, <1>4, <1>5

--------------------------------------------------------------------------------
(* What the invariant says, flat *)

\* The chunks of a plan are chunks, each once.
LEMMA PlanFacts ==
  ASSUME IInv
  PROVE  /\ Len(plan) \in Nat /\ DOMAIN plan = 1 .. Len(plan) /\ handed \in 0 .. Len(plan)
         /\ \A i \in DOMAIN plan : plan[i] \in Chunks
         /\ \A i, j \in DOMAIN plan : plan[i] = plan[j] => i = j
<1>1. plan \in Plans /\ handed \in 0 .. Len(plan)
  BY DEF IInv, TypeOK
<1>2. plan \in Seq(Chunks) /\ \A i, j \in DOMAIN plan : plan[i] = plan[j] => i = j
  BY <1>1, BatchedAssumption
<1>. QED
  BY <1>1, <1>2, LenProperties, ElementOfSeq

\* Where the worker is, and how long the batch and the record of comp are.
LEMMA Shape ==
  ASSUME IInv
  PROVE  /\ Workers = {solo} /\ job \in [Workers -> Jobs] /\ at \in Jobs
         /\ remotes \in Seq(Chunks) /\ Len(remotes) \in Nat /\ DOMAIN remotes = 1 .. Len(remotes)
         /\ Len(compared) \in Nat /\ DOMAIN compared = 1 .. Len(compared)
         /\ compared \in Seq([at : Chunks, bytes : Chunks \cup {Nothing}])
         /\ RegionCount \in Nat \ {0} /\ currCount \in Nat /\ handed \in Nat
         /\ Taken \in Nat
         /\ BufferCount \in Nat \ {0}
<1>1. Workers = {solo} /\ job \in [Workers -> Jobs] /\ at \in Jobs /\ currCount \in Nat
  BY DEF IInv, OneWorker, TypeOK, at
<1>2. remotes \in Seq(Chunks) /\ Len(remotes) \in Nat /\ DOMAIN remotes = 1 .. Len(remotes)
  BY LenProperties DEF IInv, TypeOK
<1>3. compared \in Seq([at : Chunks, bytes : Chunks \cup {Nothing}])
  BY DEF IInv, TypeOK
<1>4. Len(compared) \in Nat /\ DOMAIN compared = 1 .. Len(compared)
  BY <1>3, LenProperties
<1>5. Cardinality(Workers) = 1
  BY <1>1, FS_Singleton
<1>6. Taken \in Nat
  <2>1. InBatch \in Nat
    BY <1>2 DEF InBatch
  <2>2. Coming \in Nat
    BY DEF Coming
  <2>. QED
    BY <1>4, <2>1, <2>2 DEF Taken
<1>. QED
  BY <1>1, <1>2, <1>3, <1>4, <1>5, <1>6, PlanFacts, BatchedAssumption

\* A step of a worker is a step of the one worker, and says where it goes.
LEMMA Moves ==
  ASSUME IInv, NEW from, NEW to \in Jobs, JobStep(solo, from, to)
  PROVE  at = from /\ at' = to /\ job' \in [Workers -> Jobs]
BY Shape DEF JobStep, at

\* What comp goes through when a batch is full is all of the batch.
LEMMA WholeBatch ==
  ASSUME IInv, at \in {"read", "compare"}
  PROVE  /\ Batch = 1 .. RegionCount /\ Len(remotes) = RegionCount
         /\ \A i \in Batch : locals[i] = BufferCount /\ remotes[i] \in Chunks
<1>1. currCount = RegionCount /\ Len(remotes) = RegionCount
  BY Shape DEF IInv, BatchInv
<1>2. locals = [i \in 1 .. RegionCount |-> BufferCount]
  BY <1>1 DEF IInv, BatchInv
<1>3. Len(locals) = RegionCount
  BY <1>2, Shape
<1>4. Min({RegionCount, RegionCount, RegionCount}) = RegionCount
  BY Shape DEF Min
<1>5. Batch = 1 .. RegionCount
  BY <1>1, <1>3, <1>4 DEF Batch
<1>6. \A i \in 1 .. RegionCount : remotes[i] \in Chunks
  BY <1>1, Shape, ElementOfSeq
<1>. QED
  BY <1>1, <1>2, <1>5, <1>6

\* comp's record grows by the batch.
LEMMA Compared ==
  ASSUME IInv, FlushCompare(solo)
  PROVE  /\ Len(compared') = Len(compared) + RegionCount
         /\ DOMAIN compared' = 1 .. Len(compared) + RegionCount
         /\ \A i \in 1 .. Len(compared) : compared'[i] = compared[i]
         /\ \A i \in 1 .. RegionCount :
               compared'[Len(compared) + i] = [at |-> remotes[i], bytes |-> content[BufferCount]]
         /\ compared' \in Seq([at : Chunks, bytes : Chunks \cup {Nothing}])
<1> DEFINE Rec == [at : Chunks, bytes : Chunks \cup {Nothing}]
           new == [i \in 1 .. RegionCount |-> [at |-> remotes[i], bytes |-> content[BufferCount]]]
<1>1. at = "compare"
  BY Shape DEF FlushCompare, JobStep, at
<1>2. compared' = compared \o new
  <2>1. [i \in Batch |-> [at |-> remotes[i], bytes |-> content[locals[i]]]] = new
    BY <1>1, WholeBatch
  <2>. QED
    BY <2>1 DEF FlushCompare
<1>3. content[BufferCount] \in Chunks \cup {Nothing}
  BY Shape DEF IInv, TypeOK, BP!Buffers
<1>4. \A i \in 1 .. RegionCount : new[i] \in Rec
  BY <1>1, <1>3, WholeBatch
<1>5. new \in Seq(Rec) /\ Len(new) = RegionCount
  <2>1. RegionCount \in Nat /\ DOMAIN new = 1 .. RegionCount
    BY Shape
  <2>2. new \in [1 .. RegionCount -> Rec]
    BY <1>4
  <2>. HIDE DEF Rec, new
  <2>3. new \in Seq(Rec)
    BY <2>1, <2>2, SeqDef
  <2>. QED
    BY <2>1, <2>3, LenProperties
<1>6. compared \in Seq(Rec)
  BY Shape
<1>. HIDE DEF new, Rec
<1>7. /\ compared \o new \in Seq(Rec)
      /\ Len(compared \o new) = Len(compared) + RegionCount
      /\ \A i \in 1 .. Len(compared) + RegionCount :
            (compared \o new)[i] = IF i <= Len(compared) THEN compared[i]
                                   ELSE new[i - Len(compared)]
  BY <1>5, <1>6, ConcatProperties
<1>8. \A i \in 1 .. RegionCount : compared'[Len(compared) + i] = new[i]
  BY <1>2, <1>7, Shape
<1>9. DOMAIN (compared \o new) = 1 .. Len(compared) + RegionCount
  BY <1>7, LenProperties
<1>. QED
  BY <1>2, <1>7, <1>8, <1>9, Shape DEF new, Rec

--------------------------------------------------------------------------------
(* Every step keeps each part of the invariant *)

\* The first n buffers, in order, as a stack.
LEMMA Stack ==
  ASSUME NEW n \in Nat
  PROVE  /\ Append([i \in 1 .. n |-> i], n + 1) = [i \in 1 .. n + 1 |-> i]
         /\ SubSeq([i \in 1 .. n + 1 |-> i], 1, n) = [i \in 1 .. n |-> i]
         /\ Len([i \in 1 .. n |-> i]) = n
         /\ [i \in 1 .. n |-> i] \in Seq(1 .. n)
OBVIOUS

\* What a step of the worker leaves alone.
LEMMA Steps ==
  ASSUME IInv, [Next]_vars
  PROVE  \/ Submit
         \/ TaskStep(solo)
         \/ UNCHANGED vars
BY Shape DEF Next

\* The buffers.
LEMMA TopStep == IInv /\ [Next]_vars => TopInv' /\ BP!TypeOK'
<1> SUFFICES ASSUME IInv, [Next]_vars PROVE TopInv' /\ BP!TypeOK'
  OBVIOUS
<1>0. /\ TopInv /\ BP!TypeOK /\ Workers = {solo} /\ BufferCount \in Nat \ {0} /\ at \in Jobs
      /\ held \in [Workers -> SUBSET BP!Buffers] /\ pc \in [Workers -> BP!States]
  BY Shape DEF IInv, TypeOK, BP!TypeOK
<1>1. ASSUME UNCHANGED <<free, held, pc>>,
             \/ at' = at
             \/ at = "countdown" /\ at' = "none"
             \/ /\ at \in Jobs \ {"none", "acquire", "countdown"}
                /\ at' \in Jobs \ {"none", "acquire", "countdown"}
      PROVE  TopInv' /\ BP!TypeOK'
  <2>1. BP!TypeOK'
    BY <1>0, <1>1 DEF BP!TypeOK
  <2>2. /\ at \in {"none", "acquire", "countdown"} <=> at' \in {"none", "acquire", "countdown"}
        /\ at = "acquire" <=> at' = "acquire"
    BY <1>1
  <2>3. /\ held' = held /\ free' = free /\ pc' = pc
    BY <1>1
  <2>4. TopInv'
    BY <1>0, <2>2, <2>3 DEF TopInv
  <2>. QED
    BY <2>1, <2>4
<1>2. CASE Start(solo)
  <2>1. /\ at = "none" /\ at' = "acquire" /\ UNCHANGED <<free, held>>
        /\ pc' = [pc EXCEPT ![solo] = "check"]
    BY <1>2, Moves DEF Start, BP!AcquireNotice, Jobs
  <2>. QED
    BY <1>0, <2>1 DEF TopInv, BP!TypeOK, BP!States
<1>3. CASE GetBuffer(solo)
  <2>1. /\ at = "acquire" /\ at' = "append"
        /\ pc' = [pc EXCEPT ![solo] = "out"]
        /\ held' = [held EXCEPT ![solo] = @ \cup {free[Len(free)]}]
        /\ free' = SubSeq(free, 1, Len(free) - 1)
    BY <1>3, Moves DEF GetBuffer, BP!Take, BP!PopTo, Jobs
  <2>2. held[solo] = {} /\ free = [i \in 1 .. BufferCount |-> i]
    BY <1>0, <2>1 DEF TopInv
  <2>3. PICK n \in Nat : BufferCount = n + 1
    BY <1>0
  <2>4. Len(free) = BufferCount /\ free[Len(free)] = BufferCount
    BY <1>0, <2>2, Stack
  <2>5. free' = [i \in 1 .. BufferCount - 1 |-> i] /\ free' \in Seq(1 .. BufferCount - 1)
    BY <2>1, <2>2, <2>3, <2>4, Stack
  <2>6. held'[solo] = {BufferCount} /\ held' \in [Workers -> SUBSET BP!Buffers]
    BY <1>0, <2>1, <2>2, <2>4 DEF BP!Buffers
  <2>7. free' \in Seq(BP!Buffers)
    BY <1>0, <2>5 DEF BP!Buffers
  <2>. QED
    BY <1>0, <2>1, <2>5, <2>6, <2>7 DEF TopInv, BP!TypeOK, BP!States
<1>4. CASE Release(solo)
  <2>1. PICK b \in held[solo] : BP!Release(solo, b)
    BY <1>4 DEF Release
  <2>2. at = "release" /\ at' = "countdown"
    BY <1>4, Moves DEF Release, Jobs
  <2>3. b = BufferCount /\ held[solo] = {BufferCount} /\ pc[solo] = "out"
        /\ free = [i \in 1 .. BufferCount - 1 |-> i]
    BY <1>0, <2>1, <2>2 DEF TopInv
  <2>4. /\ held' = [held EXCEPT ![solo] = @ \ {b}]
        /\ free' = Append(free, b)
        /\ UNCHANGED pc
    BY <1>0, <2>1, <2>3 DEF BP!Release, BP!NotifyOne, BP!Blocked
  <2>5. PICK n \in Nat : BufferCount = n + 1
    BY <1>0
  <2>6. free' = [i \in 1 .. BufferCount |-> i] /\ free' \in Seq(BP!Buffers)
    BY <1>0, <2>3, <2>4, <2>5, Stack DEF BP!Buffers
  <2>7. held'[solo] = {} /\ held' \in [Workers -> SUBSET BP!Buffers]
    BY <1>0, <2>3, <2>4
  <2>. QED
    BY <1>0, <2>2, <2>3, <2>4, <2>6, <2>7 DEF TopInv, BP!TypeOK
<1>5. CASE AppendRegion(solo) \/ CountRegion(solo) \/ FlushRead(solo) \/ FlushCompare(solo)
           \/ FlushReset(solo) \/ CountDown(solo)
  <2>1. \E from, to \in Jobs :
           /\ JobStep(solo, from, to)
           /\ \/ from = "countdown" /\ to = "none"
              \/ /\ from \notin {"none", "acquire", "countdown"}
                 /\ to \notin {"none", "acquire", "countdown"}
    BY <1>5 DEF AppendRegion, CountRegion, FlushRead, FlushCompare, FlushReset, CountDown, Jobs
  <2>2. UNCHANGED <<free, held, pc>>
    BY <1>5 DEF AppendRegion, CountRegion, FlushRead, FlushCompare, FlushReset, CountDown,
                bufferVars
  <2>. QED
    BY <1>1, <2>1, <2>2, Moves
<1>6. CASE Test(solo)
  <2>1. /\ UNCHANGED <<free, held, pc>>
        /\ JobStep(solo, "test", "read") \/ JobStep(solo, "test", "release")
    BY <1>6 DEF Test, bufferVars
  <2>. QED
    BY <1>1, <2>1, Moves DEF Jobs
<1>7. CASE Submit \/ UNCHANGED vars
  BY <1>1, <1>7 DEF Submit, vars, bufferVars, at
<1>. QED
  BY <1>2, <1>3, <1>4, <1>5, <1>6, <1>7, Steps DEF TaskStep

\* The amounts, flat.
LEMMA Amounts ==
  /\ (at = "reset" => InBatch = 0) /\ (at # "reset" => InBatch = Len(remotes))
  /\ (at \in {"acquire", "append"} => Coming = 1) /\ (at \notin {"acquire", "append"} => Coming = 0)
  /\ (at' = "reset" => InBatch' = 0) /\ (at' # "reset" => InBatch' = Len(remotes'))
  /\ (at' \in {"acquire", "append"} => Coming' = 1)
  /\ (at' \notin {"acquire", "append"} => Coming' = 0)
  /\ Taken = Len(compared) + InBatch + Coming
  /\ Taken' = Len(compared') + InBatch' + Coming'
  /\ (at = "none" => Done = Taken) /\ (at # "none" => Done = Taken - 1)
  /\ (at' = "none" => Done' = Taken') /\ (at' # "none" => Done' = Taken' - 1)
BY DEF InBatch, Coming, Taken, Done

\* Within a task nothing that the thread pool sees changes.
LEMMA PoolFrame ==
  ASSUME IInv, UNCHANGED <<plan, handed, queue, fate, counter, task>>, Taken' = Taken,
         at' = at \/ (at # "none" /\ at' # "none")
  PROVE  PoolInv'
<1>1. Done' = Done
  BY Amounts
<1>2. at = "none" <=> at' = "none"
  OBVIOUS
<1>3. PoolInv
  BY DEF IInv
<1>. QED
  BY <1>1, <1>2, <1>3 DEF PoolInv

\* What has been compared is settled.
LEMMA BytesFrame ==
  ASSUME BytesOfBatch, UNCHANGED compared
  PROVE  BytesOfBatch'
BY DEF BytesOfBatch, WasRead, BatchOf

LEMMA GetBufferKeeps ==
  ASSUME IInv, [Next]_vars, GetBuffer(solo)
  PROVE  IInv'
<1>1. /\ at = "acquire" /\ at' = "append" /\ job' \in [Workers -> Jobs]
      /\ UNCHANGED <<poolVars, callerVars, counter, task, batchVars, content, compared>>
  BY Moves DEF GetBuffer, Jobs
<1>2. UNCHANGED <<plan, handed, queue, fate, counter, task, locals, remotes, currCount,
                  content, compared>>
  BY <1>1 DEF poolVars, callerVars, batchVars
<1>3. Taken' = Taken
  BY <1>1, <1>2, Amounts, Shape
<1>4. PoolInv'
  BY <1>1, <1>2, <1>3, PoolFrame
<1>5. TypeOK'
  BY <1>1, <1>2, TopStep DEF IInv, TypeOK
<1>6. BatchInv'
  BY <1>1, <1>2 DEF IInv, BatchInv
<1>7. ContentInv'
  BY <1>1 DEF ContentInv
<1>. QED
  BY <1>2, <1>4, <1>5, <1>6, <1>7, TopStep, BytesFrame DEF IInv, OneWorker

LEMMA AppendRegionKeeps ==
  ASSUME IInv, [Next]_vars, AppendRegion(solo)
  PROVE  IInv'
<1>1. /\ at = "append" /\ at' = "count" /\ job' \in [Workers -> Jobs]
      /\ locals' = Append(locals, Mine(solo))
      /\ remotes' = Append(remotes, task[solo])
      /\ UNCHANGED <<plan, handed, queue, fate, counter, task, currCount, content, compared>>
  BY Moves DEF AppendRegion, Jobs, poolVars, callerVars
<1>2. Mine(solo) = BufferCount
  <2>1. held[solo] = {BufferCount}
    BY <1>1 DEF IInv, TopInv
  <2>. QED
    BY <2>1 DEF Mine
<1>3. /\ Taken = Len(compared) + Len(remotes) + 1 /\ task[solo] = plan[Taken]
      /\ Taken \in DOMAIN plan
  <2>1. Taken = Len(compared) + Len(remotes) + 1
    BY <1>1, Amounts
  <2>2. Taken <= handed /\ task[solo] = plan[Taken]
    BY <1>1 DEF IInv, PoolInv
  <2>. QED
    BY <2>1, <2>2, Shape, PlanFacts
<1>4. task[solo] \in Chunks
  BY <1>3, PlanFacts
<1>5. /\ remotes' \in Seq(Chunks) /\ Len(remotes') = Len(remotes) + 1
      /\ \A i \in 1 .. Len(remotes) : remotes'[i] = remotes[i]
      /\ remotes'[Len(remotes) + 1] = task[solo]
  BY <1>1, <1>4, Shape
<1>6. Taken' = Taken
  BY <1>1, <1>3, <1>5, Amounts, Shape
<1>7. PoolInv'
  BY <1>1, <1>6, PoolFrame
<1>8. locals' = [i \in 1 .. Len(remotes') |-> BufferCount]
  <2>1. locals = [i \in 1 .. Len(remotes) |-> BufferCount]
    BY DEF IInv, BatchInv
  <2>. QED
    BY <1>1, <1>2, <1>5, <2>1, Shape
<1>9. locals' \in Seq(BP!Buffers)
  <2>1. BufferCount \in BP!Buffers
    BY Shape DEF BP!Buffers
  <2>2. locals \in Seq(BP!Buffers)
    BY DEF IInv, TypeOK
  <2>. QED
    BY <1>1, <1>2, <2>1, <2>2
<1>10. TypeOK'
  BY <1>1, <1>5, <1>9, TopStep DEF IInv, TypeOK
<1>11. BatchInv'
  <2>1. BatchInv
    BY DEF IInv
  <2>2. \A i \in DOMAIN remotes' : remotes'[i] = plan'[Len(compared') + i]
    <3>1. DOMAIN remotes' = 1 .. Len(remotes) + 1
      BY <1>5, LenProperties
    <3>2. ASSUME NEW i \in 1 .. Len(remotes) + 1 PROVE remotes'[i] = plan[Len(compared) + i]
      <4>1. CASE i \in 1 .. Len(remotes)
        BY <1>1, <1>5, <2>1, <4>1, Shape DEF BatchInv
      <4>2. CASE i = Len(remotes) + 1
        BY <1>3, <1>5, <4>2, Shape
      <4>. QED
        BY <4>1, <4>2, Shape
    <3>. QED
      BY <1>1, <3>1, <3>2
  <2>3. Len(remotes) = currCount /\ currCount < RegionCount
    BY <1>1, <2>1, Shape DEF BatchInv
  <2>. QED
    BY <1>1, <1>5, <1>8, <2>1, <2>2, <2>3, Shape DEF BatchInv
<1>12. ContentInv'
  BY <1>1 DEF ContentInv
<1>. QED
  BY <1>1, <1>7, <1>10, <1>11, <1>12, TopStep, BytesFrame DEF IInv, OneWorker

LEMMA CountRegionKeeps ==
  ASSUME IInv, [Next]_vars, CountRegion(solo)
  PROVE  IInv'
<1>1. /\ at = "count" /\ at' = "test" /\ job' \in [Workers -> Jobs]
      /\ currCount' = currCount + 1
      /\ UNCHANGED <<plan, handed, queue, fate, counter, task, locals, remotes, content, compared>>
  BY Moves DEF CountRegion, Jobs, poolVars, callerVars
<1>2. Taken' = Taken
  BY <1>1, Amounts, Shape
<1>3. PoolInv'
  BY <1>1, <1>2, PoolFrame
<1>4. TypeOK'
  BY <1>1, TopStep DEF IInv, TypeOK
<1>5. BatchInv'
  <2>1. BatchInv
    BY DEF IInv
  <2>2. Len(remotes) = currCount' /\ currCount' <= RegionCount
    BY <1>1, <2>1, Shape DEF BatchInv
  <2>. QED
    BY <1>1, <2>1, <2>2, Shape DEF BatchInv
<1>6. ContentInv'
  BY <1>1 DEF ContentInv
<1>. QED
  BY <1>1, <1>3, <1>4, <1>5, <1>6, TopStep, BytesFrame DEF IInv, OneWorker

LEMMA TestKeeps ==
  ASSUME IInv, [Next]_vars, Test(solo)
  PROVE  IInv'
<1>1. /\ at = "test" /\ at' = (IF currCount = RegionCount THEN "read" ELSE "release")
      /\ job' \in [Workers -> Jobs]
      /\ UNCHANGED <<plan, handed, queue, fate, counter, task, locals, remotes, currCount,
                     content, compared>>
  <2>1. (IF currCount = RegionCount THEN "read" ELSE "release") \in Jobs
    BY DEF Jobs
  <2>. QED
    BY <2>1, Moves DEF Test, poolVars, callerVars, batchVars
<1>2. Taken' = Taken
  BY <1>1, Amounts, Shape
<1>3. PoolInv'
  BY <1>1, <1>2, PoolFrame
<1>4. TypeOK'
  BY <1>1, TopStep DEF IInv, TypeOK
<1>5. BatchInv'
  <2>1. BatchInv
    BY DEF IInv
  <2>2. currCount <= RegionCount /\ Len(remotes) = currCount
    BY <1>1, <2>1, Shape DEF BatchInv
  <2>. QED
    BY <1>1, <2>1, <2>2, Shape DEF BatchInv
<1>6. ContentInv'
  BY <1>1 DEF ContentInv
<1>. QED
  BY <1>1, <1>3, <1>4, <1>5, <1>6, TopStep, BytesFrame DEF IInv, OneWorker

LEMMA FlushReadKeeps ==
  ASSUME IInv, [Next]_vars, FlushRead(solo)
  PROVE  IInv'
<1>1. /\ at = "read" /\ at' = "compare" /\ job' \in [Workers -> Jobs]
      /\ content' = [b \in BP!Buffers |-> ReadInto(b)]
      /\ UNCHANGED <<plan, handed, queue, fate, counter, task, locals, remotes, currCount, compared>>
  BY Moves DEF FlushRead, Jobs, poolVars, callerVars, batchVars
<1>2. Taken' = Taken
  BY <1>1, Amounts, Shape
<1>3. PoolInv'
  BY <1>1, <1>2, PoolFrame
<1>4. /\ Batch = 1 .. RegionCount
      /\ \A i \in Batch : locals[i] = BufferCount /\ remotes[i] \in Chunks
  BY <1>1, WholeBatch
<1>5. ASSUME NEW b \in BP!Buffers
      PROVE  /\ ReadInto(b) \in Chunks \cup {Nothing}
             /\ b = BufferCount /\ ReadNow # {} => ReadInto(b) = remotes[Max(ReadNow)]
  <2> DEFINE into == {i \in Batch : locals[i] = b /\ \A j \in 1 .. i : remotes[j] \notin Unreadable}
  <2>1. ReadInto(b) = IF into = {} THEN content[b] ELSE remotes[Max(into)]
    BY DEF ReadInto
  <2>2. into \subseteq 1 .. RegionCount /\ RegionCount \in Nat
    BY <1>4, Shape
  <2>3. b = BufferCount => into = ReadNow
    BY <1>4 DEF ReadNow
  <2>. HIDE DEF into
  <2>4. into # {} => Max(into) \in into
    BY <2>2, MaxExists
  <2>5. into # {} => remotes[Max(into)] \in Chunks
    BY <1>4, <2>2, <2>4
  <2>6. content[b] \in Chunks \cup {Nothing}
    BY DEF IInv, TypeOK
  <2>. QED
    BY <2>1, <2>3, <2>5, <2>6
<1>6. content' \in [BP!Buffers -> Chunks \cup {Nothing}]
  BY <1>1, <1>5
<1>7. TypeOK'
  BY <1>1, <1>6, TopStep DEF IInv, TypeOK
<1>8. BatchInv'
  BY <1>1 DEF IInv, BatchInv
<1>9. ContentInv'
  <2>1. BufferCount \in BP!Buffers
    BY Shape DEF BP!Buffers
  <2>2. ReadNow # {} => content'[BufferCount] = remotes[Max(ReadNow)]
    BY <1>1, <1>5, <2>1
  <2>3. ReadNow' = ReadNow
    BY <1>1 DEF ReadNow
  <2>. QED
    BY <1>1, <2>2, <2>3 DEF ContentInv
<1>. QED
  BY <1>1, <1>3, <1>7, <1>8, <1>9, TopStep, BytesFrame DEF IInv, OneWorker

\* The batch that has just been compared is a batch of its own.
LEMMA NewBatch ==
  ASSUME IInv, FlushCompare(solo)
  PROVE  BytesOfBatch'
<1> DEFINE quo(i) == (i - 1) \div RegionCount
<1>0. PICK L \in Nat, N \in Nat : L = Len(compared) /\ N = L + RegionCount
  <2>1. Len(compared) \in Nat /\ Len(compared) + RegionCount \in Nat
    BY Shape
  <2>. QED
    BY <2>1
<1>1. at = "compare"
  BY Moves DEF FlushCompare, Jobs
<1>2. /\ Len(compared') = N /\ DOMAIN compared' = 1 .. N /\ DOMAIN compared = 1 .. L
      /\ \A i \in 1 .. L : compared'[i] = compared[i]
      /\ \A k \in 1 .. RegionCount :
            compared'[L + k].at = remotes[k] /\ compared'[L + k].bytes = content[BufferCount]
  <2>1. /\ Len(compared') = N /\ DOMAIN compared' = 1 .. N /\ DOMAIN compared = 1 .. L
        /\ \A i \in 1 .. L : compared'[i] = compared[i]
    BY <1>0, Compared, Shape
  <2>2. \A k \in 1 .. RegionCount :
            compared'[L + k] = [at |-> remotes[k], bytes |-> content[BufferCount]]
    BY <1>0, Compared
  <2>3. ASSUME NEW k \in 1 .. RegionCount
        PROVE  compared'[L + k].at = remotes[k] /\ compared'[L + k].bytes = content[BufferCount]
    <3>1. compared'[L + k] = [at |-> remotes[k], bytes |-> content[BufferCount]]
      BY <2>2
    <3>. QED
      BY <3>1
  <2>. QED
    BY <2>1, <2>3
<1>3. L \in Nat /\ RegionCount \in Nat \ {0} /\ L % RegionCount = 0 /\ N = L + RegionCount
  BY <1>0, Shape DEF IInv, BatchInv
<1>. HIDE DEF quo
<1>4. \A i \in 1 .. N : (i <= L => quo(i) < L \div RegionCount)
                        /\ (i > L => quo(i) = L \div RegionCount)
  <2>1. ASSUME NEW i \in 1 .. N
        PROVE  (i <= L => quo(i) < L \div RegionCount) /\ (i > L => quo(i) = L \div RegionCount)
    <3>1. i - 1 \in Nat /\ (i <= L => i - 1 < L) /\ (i > L => i - 1 \in L .. L + RegionCount - 1)
      BY <1>3
    <3>. QED
      BY <1>3, <3>1, Quotients DEF quo
  <2>. QED
    BY <2>1
<1>5. \A i \in 1 .. N : BatchOf(i)' = {j \in 1 .. N : quo(j) = quo(i)}
  BY <1>2 DEF BatchOf, quo
<1>6. \A i \in 1 .. L : BatchOf(i) = {j \in 1 .. L : quo(j) = quo(i)}
  BY <1>2 DEF BatchOf, quo
<1>7. \A i \in 1 .. L : i \in 1 .. N
  BY <1>3
<1>8. ASSUME NEW i \in 1 .. L PROVE BatchOf(i)' = BatchOf(i)
  <2>1. \A j \in 1 .. N : quo(j) = quo(i) => j \in 1 .. L
    <3>1. ASSUME NEW j \in 1 .. N, quo(j) = quo(i) PROVE j <= L
      <4>1. quo(i) < L \div RegionCount
        BY <1>4, <1>7
      <4>2. j > L => quo(j) = L \div RegionCount
        BY <1>4
      <4>3. L \div RegionCount \in Int
        BY <1>3
      <4>. QED
        BY <1>3, <3>1, <4>1, <4>2, <4>3
    <3>. QED
      BY <3>1
  <2>. QED
    BY <1>5, <1>6, <1>7, <2>1
<1>9. ASSUME NEW i \in 1 .. N, i > L PROVE BatchOf(i)' = L + 1 .. N
  <2>1. \A j \in 1 .. N : quo(j) = quo(i) <=> j > L
    <3>1. quo(i) = L \div RegionCount /\ L \div RegionCount \in Int
      BY <1>3, <1>4, <1>9
    <3>. QED
      BY <1>3, <1>4, <3>1
  <2>2. {j \in 1 .. N : j > L} = L + 1 .. N
    BY <1>3
  <2>. QED
    BY <1>5, <2>1, <2>2
<1>10. ASSUME NEW i \in DOMAIN compared', {j \in BatchOf(i)' : WasRead(j)'} # {}
       PROVE  compared'[i].bytes = compared'[Max({j \in BatchOf(i)' : WasRead(j)'})].at
  <2>1. i \in 1 .. N
    BY <1>2, <1>10
  <2>2. CASE i <= L
    <3>1. i \in 1 .. L /\ i \in DOMAIN compared
      BY <1>2, <2>1, <2>2
    <3>2. BatchOf(i) \subseteq 1 .. L
      BY <1>6, <3>1
    <3>3. \A j \in BatchOf(i) : WasRead(j)' = WasRead(j)
      BY <1>2, <1>6, <1>8, <3>1, <3>2 DEF WasRead
    <3>4. {j \in BatchOf(i)' : WasRead(j)'} = {j \in BatchOf(i) : WasRead(j)}
      BY <1>8, <3>1, <3>3
    <3> DEFINE read == {j \in BatchOf(i) : WasRead(j)}
    <3>5. read # {} /\ read \subseteq 1 .. L
      BY <1>10, <3>2, <3>4
    <3>6. compared[i].bytes = compared[Max(read)].at
      BY <3>1, <3>5 DEF IInv, BytesOfBatch
    <3>. HIDE DEF read
    <3>7. Max(read) \in 1 .. L
      BY <1>3, <3>5, MaxExists
    <3>. QED
      BY <1>2, <3>1, <3>4, <3>6, <3>7 DEF read
  <2>3. CASE i > L
    <3> DEFINE read == {j \in BatchOf(i)' : WasRead(j)'}
    <3>1. BatchOf(i)' = L + 1 .. N
      BY <1>9, <2>1, <2>3
    <3>2. ASSUME NEW k \in 1 .. RegionCount
          PROVE  WasRead(L + k)' <=> \A m \in 1 .. k : remotes[m] \notin Unreadable
      <4>1. L + k \in 1 .. N /\ L + k > L
        BY <1>3
      <4>2. BatchOf(L + k)' = L + 1 .. N
        BY <1>9, <4>1
      <4>3. WasRead(L + k)' <=> \A j \in L + 1 .. N : j <= L + k => compared'[j].at \notin Unreadable
        BY <4>2 DEF WasRead
      <4>4. \A m \in 1 .. k : compared'[L + m].at = remotes[m] /\ L + m \in L + 1 .. N /\ L + m <= L + k
        BY <1>2, <1>3
      <4>5. \A j \in L + 1 .. N : j <= L + k => \E m \in 1 .. k : j = L + m
        <5>1. ASSUME NEW j \in L + 1 .. N, j <= L + k PROVE \E m \in 1 .. k : j = L + m
          <6>1. j - L \in 1 .. k /\ j = L + (j - L)
            BY <1>3, <5>1
          <6>. QED
            BY <6>1
        <5>. QED
          BY <5>1
      <4>. QED
        BY <4>3, <4>4, <4>5
    <3>3. \A k \in 1 .. RegionCount : L + k \in read <=> k \in ReadNow
      BY <1>3, <3>1, <3>2 DEF ReadNow
    <3>4. \A j \in read : j \in L + 1 .. N
      BY <3>1
    <3>. HIDE DEF read
    <3>5. \A j \in read : j - L \in ReadNow /\ j = L + (j - L)
      BY <1>3, <3>3, <3>4
    <3>6. ReadNow # {} /\ ReadNow \subseteq 1 .. RegionCount
      BY <1>10, <3>5 DEF read, ReadNow
    <3>7. Max(ReadNow) \in ReadNow /\ \A k \in ReadNow : k <= Max(ReadNow)
      BY <1>3, <3>6, MaxExists
    <3> DEFINE top == Max(ReadNow)
    <3>8. top \in 1 .. RegionCount /\ L + top \in read
      BY <3>3, <3>6, <3>7
    <3>9. \A j \in read : j <= L + top
      <4>. HIDE DEF top
      <4>1. \A j \in read : j - L <= top
        BY <3>5, <3>7 DEF top
      <4>. QED
        BY <1>3, <3>4, <3>8, <4>1
    <3>10. read \subseteq Nat
      BY <1>3, <3>4
    <3>. HIDE DEF top
    <3>11. Max(read) = L + top
      BY <3>8, <3>9, <3>10, MaxIs
    <3>12. compared'[L + top].at = remotes[top]
      BY <1>2, <3>8
    <3>13. content[BufferCount] = remotes[top]
      BY <1>1, <3>6 DEF IInv, ContentInv, top
    <3>14. compared'[i].bytes = content[BufferCount]
      <4>1. i - L \in 1 .. RegionCount /\ i = L + (i - L)
        BY <1>3, <2>1, <2>3
      <4>. QED
        BY <1>2, <4>1
    <3>. QED
      BY <3>11, <3>12, <3>13, <3>14 DEF read
  <2>. QED
    BY <1>3, <2>1, <2>2, <2>3
<1>. QED
  BY <1>10 DEF BytesOfBatch

LEMMA Division ==
  ASSUME NEW d \in Nat \ {0}, NEW a \in Nat
  PROVE  \E q \in Nat, r \in 0 .. d - 1 : a = d * q + r /\ r = a % d
OBVIOUS

\* A multiple of d and d make a multiple.
LEMMA NextMultiple ==
  ASSUME NEW d \in Nat \ {0}, NEW l \in Nat, l % d = 0
  PROVE  (l + d) % d = 0
<1>1. PICK a \in Nat : a = l + d
  OBVIOUS
<1>2. PICK q \in Nat, r \in 0 .. d - 1 : l = d * q + r /\ r = l % d
  BY Division
<1>3. PICK m \in Nat, s \in 0 .. d - 1 : a = d * m + s /\ s = a % d
  BY Division
<1>4. /\ d * q \in Nat /\ d * m \in Nat /\ d * (q + 1) = d * q + d
      /\ d * (q + 2) = d * q + d + d
  OBVIOUS
<1>5. m >= q + 2 => d * m >= d * (q + 2)
  OBVIOUS
<1>6. m <= q => d * m <= d * q
  OBVIOUS
<1>7. m = q + 1
  BY <1>1, <1>2, <1>3, <1>4, <1>5, <1>6
<1>8. d * m + s = d * q + d /\ d * m = d * q + d
  BY <1>1, <1>2, <1>3, <1>4, <1>7
<1>9. s = 0
  BY <1>4, <1>8
<1>. QED
  BY <1>1, <1>3, <1>9

LEMMA FlushCompareKeeps ==
  ASSUME IInv, [Next]_vars, FlushCompare(solo)
  PROVE  IInv'
<1>1. /\ at = "compare" /\ at' = "reset" /\ job' \in [Workers -> Jobs]
      /\ UNCHANGED <<plan, handed, queue, fate, counter, task, locals, remotes, currCount, content>>
  BY Moves DEF FlushCompare, Jobs, poolVars, callerVars, batchVars
<1>2. PICK l \in Nat, d \in Nat \ {0} : l = Len(compared) /\ d = RegionCount /\ l % d = 0
  <2>1. Len(compared) \in Nat /\ RegionCount \in Nat \ {0} /\ Len(compared) % RegionCount = 0
    BY Shape DEF IInv, BatchInv
  <2>. QED
    BY <2>1
<1>3. Len(remotes) = d /\ Len(compared') = l + d
  BY <1>1, <1>2, WholeBatch, Compared
<1>4. Taken = l + d /\ Taken' = l + d
  BY <1>1, <1>2, <1>3, Amounts
<1>5. PoolInv'
  BY <1>1, <1>4, PoolFrame
<1>6. TypeOK'
  BY <1>1, TopStep, Compared DEF IInv, TypeOK
<1>7. \A i \in DOMAIN compared' : compared'[i].at = plan[i]
  <2>1. ASSUME NEW i \in 1 .. l PROVE compared'[i].at = plan[i]
    <3>1. compared'[i] = compared[i] /\ i \in DOMAIN compared
      BY <1>2, Compared, Shape
    <3>. QED
      BY <3>1 DEF IInv, BatchInv
  <2>2. ASSUME NEW k \in 1 .. d PROVE compared'[l + k].at = plan[l + k]
    <3>1. compared'[l + k] = [at |-> remotes[k], bytes |-> content[BufferCount]]
      BY <1>2, Compared
    <3>2. remotes[k] = plan[l + k]
      BY <1>1, <1>2, <1>3, Shape DEF IInv, BatchInv
    <3>. QED
      BY <3>1, <3>2
  <2>3. ASSUME NEW i \in 1 .. l + d PROVE compared'[i].at = plan[i]
    <3>1. CASE i <= l
      BY <1>2, <2>1, <3>1
    <3>2. CASE i > l
      <4>1. i - l \in 1 .. d /\ l + (i - l) = i
        BY <1>2, <3>2
      <4>. QED
        BY <2>2, <4>1
    <3>. QED
      BY <1>2, <3>1, <3>2
  <2>. QED
    BY <1>2, <2>3, Compared
<1>8. (l + d) % d = 0
  BY <1>2, NextMultiple
<1>9. BatchInv'
  BY <1>1, <1>2, <1>3, <1>7, <1>8 DEF IInv, BatchInv
<1>10. ContentInv'
  BY <1>1 DEF ContentInv
<1>. QED
  BY <1>1, <1>5, <1>6, <1>9, <1>10, TopStep, NewBatch DEF IInv, OneWorker

LEMMA FlushResetKeeps ==
  ASSUME IInv, [Next]_vars, FlushReset(solo)
  PROVE  IInv'
<1>1. /\ at = "reset" /\ at' = "release" /\ job' \in [Workers -> Jobs]
      /\ locals' = <<>> /\ remotes' = <<>> /\ currCount' = 0
      /\ UNCHANGED <<plan, handed, queue, fate, counter, task, content, compared>>
  BY Moves DEF FlushReset, Jobs, poolVars, callerVars
<1>2. Len(remotes') = 0 /\ DOMAIN remotes' = {}
  BY <1>1
<1>3. Taken' = Taken
  BY <1>1, <1>2, Amounts, Shape
<1>4. PoolInv'
  BY <1>1, <1>3, PoolFrame
<1>5. TypeOK'
  BY <1>1, TopStep DEF IInv, TypeOK
<1>6. locals' = [i \in 1 .. Len(remotes') |-> BufferCount]
  BY <1>1, <1>2
<1>7. BatchInv'
  <2>1. BatchInv
    BY DEF IInv
  <2>. QED
    BY <1>1, <1>2, <1>6, <2>1, Shape DEF BatchInv
<1>8. ContentInv'
  BY <1>1 DEF ContentInv
<1>. QED
  BY <1>1, <1>4, <1>5, <1>7, <1>8, TopStep, BytesFrame DEF IInv, OneWorker

LEMMA ReleaseKeeps ==
  ASSUME IInv, [Next]_vars, Release(solo)
  PROVE  IInv'
<1>1. /\ at = "release" /\ at' = "countdown" /\ job' \in [Workers -> Jobs]
      /\ UNCHANGED <<plan, handed, queue, fate, counter, task, locals, remotes, currCount,
                     content, compared>>
  BY Moves DEF Release, Jobs, poolVars, callerVars, batchVars
<1>2. Taken' = Taken
  BY <1>1, Amounts, Shape
<1>3. PoolInv'
  BY <1>1, <1>2, PoolFrame
<1>4. TypeOK'
  BY <1>1, TopStep DEF IInv, TypeOK
<1>5. BatchInv'
  BY <1>1 DEF IInv, BatchInv
<1>6. ContentInv'
  BY <1>1 DEF ContentInv
<1>. QED
  BY <1>1, <1>3, <1>4, <1>5, <1>6, TopStep, BytesFrame DEF IInv, OneWorker

LEMMA CountDownKeeps ==
  ASSUME IInv, [Next]_vars, CountDown(solo)
  PROVE  IInv'
<1>1. /\ at = "countdown" /\ at' = "none" /\ job' \in [Workers -> Jobs]
      /\ counter' = counter - 1
      /\ fate' = [fate EXCEPT ![task[solo]] = "done"]
      /\ task' = [task EXCEPT ![solo] = Nothing]
      /\ UNCHANGED <<plan, handed, queue, locals, remotes, currCount, content, compared>>
  BY Moves DEF CountDown, Pool!Finish, Jobs, callerVars, batchVars
<1>2. PICK t \in Nat : t = Taken
  BY Shape
<1>3. /\ Taken' = t /\ Done = t - 1 /\ Done' = t
  BY <1>1, <1>2, Amounts, Shape
<1>4. /\ t >= 1 /\ t <= handed /\ task[solo] = plan[t]
      /\ queue = [i \in 1 .. handed - t |-> plan[t + i]]
      /\ counter = handed - (t - 1)
      /\ fate \in [Chunks -> {"unsubmitted", "accepted", "done"}]
      /\ \A i \in DOMAIN plan : /\ fate[plan[i]] = "unsubmitted" <=> i > handed
                                /\ fate[plan[i]] = "done" <=> i <= t - 1
      /\ \A c \in Chunks : fate[c] # "unsubmitted" => \E i \in DOMAIN plan : c = plan[i]
  BY <1>1, <1>2, <1>3 DEF IInv, PoolInv
<1>5. t \in DOMAIN plan /\ plan[t] \in Chunks /\ handed \in Nat
  BY <1>4, PlanFacts
<1>6. task \in [Workers -> Chunks \cup {Nothing}]
  BY DEF IInv, TypeOK
<1>7. /\ task' \in [Workers -> Chunks \cup {Nothing}] /\ task'[solo] = Nothing
      /\ counter' = handed - t /\ counter' \in Nat
  BY <1>1, <1>4, <1>5, <1>6, Shape
<1>8. /\ fate' \in [Chunks -> {"unsubmitted", "accepted", "done"}]
      /\ \A i \in DOMAIN plan : /\ fate'[plan[i]] = "unsubmitted" <=> i > handed
                                /\ fate'[plan[i]] = "done" <=> i <= t
      /\ \A c \in Chunks : fate'[c] # "unsubmitted" => \E i \in DOMAIN plan : c = plan[i]
  <2>1. fate' = [fate EXCEPT ![plan[t]] = "done"]
    BY <1>1, <1>4
  <2>2. \A c \in Chunks : fate'[c] = IF c = plan[t] THEN "done" ELSE fate[c]
    BY <1>4, <2>1
  <2>3. fate' \in [Chunks -> {"unsubmitted", "accepted", "done"}]
    BY <1>4, <2>1
  <2>4. ASSUME NEW i \in DOMAIN plan
        PROVE  /\ fate'[plan[i]] = "unsubmitted" <=> i > handed
               /\ fate'[plan[i]] = "done" <=> i <= t
    <3>1. i \in Nat /\ plan[i] \in Chunks /\ (plan[i] = plan[t] => i = t)
      BY <1>5, PlanFacts
    <3>2. CASE i = t
      BY <1>4, <1>5, <2>2, <3>1, <3>2
    <3>3. CASE i # t
      BY <1>2, <1>4, <2>2, <3>1, <3>3
    <3>. QED
      BY <3>2, <3>3
  <2>5. \A c \in Chunks : fate'[c] # "unsubmitted" => \E i \in DOMAIN plan : c = plan[i]
    BY <1>4, <1>5, <2>2
  <2>. QED
    BY <2>3, <2>4, <2>5
<1>9. PoolInv'
  BY <1>1, <1>3, <1>4, <1>7, <1>8 DEF PoolInv
<1>10. TypeOK'
  BY <1>1, <1>7, TopStep DEF IInv, TypeOK
<1>11. BatchInv'
  BY <1>1 DEF IInv, BatchInv
<1>12. ContentInv'
  BY <1>1 DEF ContentInv
<1>. QED
  BY <1>1, <1>9, <1>10, <1>11, <1>12, TopStep, BytesFrame DEF IInv, OneWorker

\* The stretch of a plan p that is handed out and not yet taken, as a queue.
LEMMA Window ==
  ASSUME NEW S, NEW p \in Seq(S), NEW t \in Nat, NEW n \in Nat, t <= n, n <= Len(p),
         NEW q, q = [i \in 1 .. n - t |-> p[t + i]]
  PROVE  /\ n < Len(p) => Append(q, p[n + 1]) = [i \in 1 .. (n + 1) - t |-> p[t + i]]
         /\ q # <<>> => /\ t < n
                        /\ Head(q) = p[t + 1]
                        /\ Tail(q) = [i \in 1 .. n - (t + 1) |-> p[(t + 1) + i]]
<1>1. \A i \in 1 .. n - t : p[t + i] \in S
  BY ElementOfSeq
<1>2. q \in Seq(S) /\ Len(q) = n - t
  BY <1>1
<1>3. n < Len(p) => Append(q, p[n + 1]) = [i \in 1 .. (n + 1) - t |-> p[t + i]]
  BY <1>2
<1>4. q # <<>> => t < n
  BY <1>2, EmptySeq
<1>5. ASSUME q # <<>> PROVE Head(q) = p[t + 1]
  BY <1>2, <1>4, <1>5
<1>6. ASSUME q # <<>> PROVE Tail(q) = [i \in 1 .. n - (t + 1) |-> p[(t + 1) + i]]
  <2>1. /\ Tail(q) \in Seq(S) /\ Len(Tail(q)) = n - (t + 1)
        /\ \A i \in 1 .. n - (t + 1) : Tail(q)[i] = q[i + 1]
    <3>1. q # <<>> /\ q \in Seq(S)
      BY <1>2, <1>6
    <3>2. /\ Tail(q) \in Seq(S) /\ Len(Tail(q)) = Len(q) - 1
          /\ \A i \in 1 .. Len(Tail(q)) : Tail(q)[i] = q[i + 1]
      BY <3>1, HeadTailProperties
    <3>3. Len(Tail(q)) = n - (t + 1)
      BY <1>2, <1>4, <1>6, <3>2
    <3>. QED
      BY <3>2, <3>3
  <2>2. \A i \in 1 .. n - (t + 1) : q[i + 1] = p[(t + 1) + i]
    BY <1>4, <1>6
  <2>3. Tail(q) = [i \in 1 .. n - (t + 1) |-> Tail(q)[i]]
    BY <2>1
  <2>. QED
    BY <2>1, <2>2, <2>3
<1>. QED
  BY <1>3, <1>4, <1>5, <1>6

LEMMA StartKeeps ==
  ASSUME IInv, [Next]_vars, Start(solo)
  PROVE  IInv'
<1>1. /\ at = "none" /\ at' = "acquire" /\ job' \in [Workers -> Jobs]
      /\ queue # <<>> /\ queue' = Tail(queue)
      /\ task' = [task EXCEPT ![solo] = Head(queue)]
      /\ UNCHANGED <<plan, handed, fate, counter, locals, remotes, currCount, content, compared>>
  BY Moves DEF Start, Pool!Start, Jobs, callerVars, batchVars
<1>2. PICK t \in Nat : t = Taken
  BY Shape
<1>3. /\ Taken' = t + 1 /\ Done = t /\ Done' = t
  BY <1>1, <1>2, Amounts, Shape
<1>4. PoolInv
  BY DEF IInv
<1>5. /\ plan \in Seq(Chunks) /\ handed \in Nat /\ handed <= Len(plan)
      /\ t <= handed /\ queue = [i \in 1 .. handed - t |-> plan[t + i]]
  BY <1>2, <1>4, PlanFacts, BatchedAssumption DEF IInv, TypeOK, PoolInv
<1>6. /\ t < handed /\ Head(queue) = plan[t + 1]
      /\ queue' = [i \in 1 .. handed - (t + 1) |-> plan[(t + 1) + i]]
  BY <1>1, <1>5, Window
<1>7. plan[t + 1] \in Chunks
  BY <1>5, <1>6, PlanFacts
<1>8. task \in [Workers -> Chunks \cup {Nothing}]
  BY DEF IInv, TypeOK
<1>9. task' \in [Workers -> Chunks \cup {Nothing}] /\ task'[solo] = plan[t + 1]
  BY <1>1, <1>6, <1>7, <1>8, Shape
<1>10. PoolInv'
  <2>1. t + 1 <= handed /\ t + 1 >= 1
    BY <1>5, <1>6
  <2>2. /\ Taken' <= handed' /\ Taken' >= 1
        /\ task'[solo] = plan'[Taken']
        /\ queue' = [i \in 1 .. handed' - Taken' |-> plan'[Taken' + i]]
        /\ counter' = handed' - Done'
    BY <1>1, <1>2, <1>3, <1>4, <1>6, <1>9, <2>1 DEF PoolInv
  <2>3. Done' = Done
    BY <1>3
  <2>. QED
    BY <1>1, <1>4, <2>2, <2>3 DEF PoolInv
<1>11. TypeOK'
  BY <1>1, <1>9, TopStep DEF IInv, TypeOK
<1>12. BatchInv'
  BY <1>1 DEF IInv, BatchInv
<1>13. ContentInv'
  BY <1>1 DEF ContentInv
<1>. QED
  BY <1>1, <1>10, <1>11, <1>12, <1>13, TopStep, BytesFrame DEF IInv, OneWorker

LEMMA SubmitKeeps ==
  ASSUME IInv, [Next]_vars, Submit
  PROVE  IInv'
<1>1. /\ handed < Len(plan) /\ handed' = handed + 1 /\ counter' = counter + 1
      /\ queue' = Append(queue, plan[handed + 1])
      /\ fate[plan[handed + 1]] = "unsubmitted"
      /\ fate' = [fate EXCEPT ![plan[handed + 1]] = "accepted"]
      /\ UNCHANGED <<plan, task, job, locals, remotes, currCount, content, compared>>
  BY DEF Submit, Pool!Accept, batchVars
<1>2. at' = at
  BY <1>1 DEF at
<1>3. PICK t \in Nat : t = Taken
  BY Shape
<1>4. Taken' = t /\ Done' = Done
  BY <1>1, <1>2, <1>3, Amounts
<1>5. PoolInv
  BY DEF IInv
<1>6. /\ plan \in Seq(Chunks) /\ handed \in Nat /\ handed <= Len(plan) /\ Len(plan) \in Nat
      /\ t <= handed /\ queue = [i \in 1 .. handed - t |-> plan[t + i]]
  BY <1>3, <1>5, PlanFacts, BatchedAssumption DEF IInv, TypeOK, PoolInv
<1>7. queue' = [i \in 1 .. (handed + 1) - t |-> plan[t + i]]
  BY <1>1, <1>6, Window
<1>8. handed + 1 \in DOMAIN plan /\ plan[handed + 1] \in Chunks
  BY <1>1, <1>6, PlanFacts
<1>9. Done \in Int /\ Done <= t
  BY <1>3, Amounts
<1>10. /\ fate \in [Chunks -> {"unsubmitted", "accepted", "done"}]
       /\ \A i \in DOMAIN plan : /\ fate[plan[i]] = "unsubmitted" <=> i > handed
                                 /\ fate[plan[i]] = "done" <=> i <= Done
       /\ \A c \in Chunks : fate[c] # "unsubmitted" => \E i \in DOMAIN plan : c = plan[i]
  BY <1>5 DEF PoolInv
<1>11. /\ fate' \in [Chunks -> {"unsubmitted", "accepted", "done"}]
       /\ \A i \in DOMAIN plan : /\ fate'[plan[i]] = "unsubmitted" <=> i > handed + 1
                                 /\ fate'[plan[i]] = "done" <=> i <= Done
       /\ \A c \in Chunks : fate'[c] # "unsubmitted" => \E i \in DOMAIN plan : c = plan[i]
  <2>1. fate' \in [Chunks -> {"unsubmitted", "accepted", "done"}]
    BY <1>1, <1>10
  <2>2. \A c \in Chunks : fate'[c] = IF c = plan[handed + 1] THEN "accepted" ELSE fate[c]
    BY <1>1, <1>10
  <2>3. ASSUME NEW i \in DOMAIN plan
        PROVE  /\ fate'[plan[i]] = "unsubmitted" <=> i > handed + 1
               /\ fate'[plan[i]] = "done" <=> i <= Done
    <3>1. i \in Nat /\ plan[i] \in Chunks /\ (plan[i] = plan[handed + 1] => i = handed + 1)
      BY <1>8, PlanFacts
    <3>2. CASE i = handed + 1
      BY <1>6, <1>9, <2>2, <3>1, <3>2
    <3>3. CASE i # handed + 1
      <4>1. fate'[plan[i]] = fate[plan[i]]
        BY <2>2, <3>1, <3>3
      <4>2. i > handed <=> i > handed + 1
        BY <1>6, <3>1, <3>3
      <4>. QED
        BY <1>10, <4>1, <4>2
    <3>. QED
      BY <3>2, <3>3
  <2>4. \A c \in Chunks : fate'[c] # "unsubmitted" => \E i \in DOMAIN plan : c = plan[i]
    BY <1>8, <1>10, <2>2
  <2>. QED
    BY <2>1, <2>3, <2>4
<1>12. PoolInv'
  <2>1. /\ Taken' <= handed' /\ counter' = handed' - Done'
        /\ queue' = [i \in 1 .. handed' - Taken' |-> plan'[Taken' + i]]
    <3>1. counter = handed - Done
      BY <1>10, <1>5 DEF PoolInv
    <3>2. counter' = (handed + 1) - Done /\ t <= handed + 1
      BY <1>1, <1>6, <1>9, <3>1
    <3>. QED
      BY <1>1, <1>4, <1>7, <3>2
  <2>2. Taken' = Taken
    BY <1>3, <1>4
  <2>3. /\ at' # "none" => Taken' >= 1
        /\ task'[solo] = IF at' = "none" THEN Nothing ELSE plan'[Taken']
    BY <1>1, <1>2, <1>5, <2>2 DEF PoolInv
  <2>. QED
    BY <1>1, <1>4, <1>11, <2>1, <2>3 DEF PoolInv
<1>13. TypeOK'
  <2>1. handed' \in 0 .. Len(plan') /\ counter' \in Nat
    BY <1>1, <1>6 DEF IInv, TypeOK
  <2>. QED
    BY <1>1, <2>1, TopStep DEF IInv, TypeOK
<1>14. BatchInv'
  BY <1>1, <1>2 DEF IInv, BatchInv
<1>15. ContentInv'
  BY <1>1, <1>2 DEF IInv, ContentInv, ReadNow
<1>. QED
  BY <1>1, <1>12, <1>13, <1>14, <1>15, TopStep, BytesFrame DEF IInv, OneWorker

LEMMA IInvStep == IInv /\ [Next]_vars => IInv'
<1> SUFFICES ASSUME IInv, [Next]_vars PROVE IInv'
  OBVIOUS
<1>1. CASE UNCHANGED vars
  <2>1. UNCHANGED <<queue, running, fate, closed, drained, free, held, pc, plan, handed, counter,
                    task, job, locals, remotes, currCount, content, compared>>
    BY <1>1 DEF vars, poolVars, bufferVars, callerVars, batchVars
  <2>2. at' = at
    BY <2>1 DEF at
  <2>3. Taken' = Taken /\ ReadNow' = ReadNow
    BY <2>1, <2>2, Amounts DEF ReadNow
  <2>4. PoolInv'
    BY <2>1, <2>2, <2>3, PoolFrame
  <2>5. TypeOK'
    BY <2>1, TopStep DEF IInv, TypeOK
  <2>6. BatchInv'
    BY <2>1, <2>2 DEF IInv, BatchInv
  <2>7. ContentInv'
    BY <2>1, <2>2, <2>3 DEF IInv, ContentInv
  <2>. QED
    BY <2>1, <2>4, <2>5, <2>6, <2>7, TopStep, BytesFrame DEF IInv, OneWorker
<1>. QED
  BY <1>1, Steps, SubmitKeeps, StartKeeps, GetBufferKeeps, AppendRegionKeeps, CountRegionKeeps,
     TestKeeps, FlushReadKeeps, FlushCompareKeeps, FlushResetKeeps, ReleaseKeeps, CountDownKeeps
  DEF TaskStep

LEMMA IInvInit == OneWorker /\ Init => IInv
<1> SUFFICES ASSUME OneWorker, Init PROVE IInv
  OBVIOUS
<1>1. /\ Workers = {solo} /\ BufferCount \in Nat /\ RegionCount \in Nat \ {0} /\ plan \in Plans
      /\ plan \in Seq(Chunks)
  BY BatchedAssumption DEF OneWorker, Init
<1>2. /\ handed = 0 /\ counter = 0 /\ queue = <<>> /\ fate = [c \in Chunks |-> "unsubmitted"]
      /\ locals = <<>> /\ remotes = <<>> /\ currCount = 0 /\ compared = <<>>
      /\ task = [w \in Workers |-> Nothing] /\ job = [w \in Workers |-> "none"]
      /\ content = [b \in BP!Buffers |-> Nothing]
      /\ free = [i \in 1 .. BufferCount |-> i] /\ held = [w \in Workers |-> {}]
      /\ pc = [w \in Workers |-> "out"]
  BY DEF Init, Pool!Init, BP!Init
<1>3. at = "none" /\ Len(remotes) = 0 /\ Len(compared) = 0
  BY <1>1, <1>2 DEF at
<1>4. DOMAIN remotes = {} /\ DOMAIN compared = {}
  BY <1>2
<1>5. Taken = 0 /\ Done = 0
  BY <1>3, Amounts
<1>6. BP!TypeOK
  <2>1. free \in Seq(BP!Buffers)
    BY <1>1, <1>2, Stack DEF BP!Buffers
  <2>. QED
    BY <1>2, <2>1 DEF BP!TypeOK, BP!States
<1>7. TypeOK
  BY <1>1, <1>2, <1>6 DEF TypeOK, Jobs
<1>8. PoolInv
  <2>1. Len(plan) \in Nat /\ DOMAIN plan = 1 .. Len(plan) /\ \A i \in DOMAIN plan : plan[i] \in Chunks
    BY <1>1, LenProperties, ElementOfSeq
  <2>2. queue = [i \in 1 .. handed - Taken |-> plan[Taken + i]]
    BY <1>2, <1>5
  <2>3. task[solo] = Nothing
    BY <1>1, <1>2
  <2>. QED
    BY <1>2, <1>3, <1>5, <2>1, <2>2, <2>3 DEF PoolInv
<1>9. TopInv
  BY <1>1, <1>2, <1>3 DEF TopInv
<1>10. BatchInv
  <2>1. locals = [i \in 1 .. Len(remotes) |-> BufferCount]
    BY <1>2, <1>3
  <2>2. 0 % RegionCount = 0
    BY <1>1
  <2>. QED
    BY <1>1, <1>2, <1>3, <1>4, <2>1, <2>2 DEF BatchInv
<1>11. ContentInv /\ BytesOfBatch
  BY <1>3, <1>4 DEF ContentInv, BytesOfBatch
<1>. QED
  BY <1>7, <1>8, <1>9, <1>10, <1>11 DEF IInv

LEMMA Inductive == OneWorker => (Spec => []IInv)
<1>1. OneWorker /\ Init => IInv
  BY IInvInit
<1>2. IInv /\ [Next]_vars => IInv'
  BY IInvStep
<1>. QED
  BY <1>1, <1>2, PTL DEF Spec

--------------------------------------------------------------------------------
(* What follows *)

\* With one worker every chunk of a batch is compared against the bytes of the
\* last chunk of that batch that could be read (read_mem.hpp's flush, with the
\* one buffer that release gives back before anything is read into it).
THEOREM BatchBytes == OneWorker => (Spec => []BytesOfBatch)
<1>1. IInv => BytesOfBatch
  BY DEF IInv
<1>. QED
  BY <1>1, Inductive, PTL

LEMMA AtMostOne ==
  ASSUME NEW S, \A i, j \in S : i = j
  PROVE  Cardinality(S) = IF S # {} THEN 1 ELSE 0
<1>1. CASE S # {}
  <2>1. PICK i \in S : TRUE
    BY <1>1
  <2>2. S = {i}
    BY <2>1
  <2>. QED
    BY <1>1, <2>2, FS_Singleton
<1>2. CASE S = {}
  BY <1>2, FS_EmptySet
<1>. QED
  BY <1>1, <1>2

\* A chunk has been appended when it is among those taken, the coming one aside.
LEMMA AppendedIs ==
  ASSUME IInv, NEW c \in Chunks, at \notin {"compare", "reset"}
  PROVE  Appended(c) <=> \E i \in 1 .. Len(compared) + Len(remotes) : plan[i] = c
<1>1. PICK t \in Nat, l \in Nat, r \in Nat : t = Taken /\ l = Len(compared) /\ r = Len(remotes)
  BY Shape
<1>2. at \in Jobs /\ handed \in Nat /\ Workers = {solo} /\ Nothing \notin Chunks
  BY Shape, BatchedAssumption
<1>3. /\ at \in {"acquire", "append"} => t = l + r + 1
      /\ at \notin {"acquire", "append"} => t = l + r
  BY <1>1, Amounts
<1>4. /\ at = "none" => Done = t
      /\ at # "none" => Done = t - 1
  BY <1>1, Amounts
<1>5. /\ t <= handed /\ (at # "none" => t >= 1)
      /\ task[solo] = IF at = "none" THEN Nothing ELSE plan[t]
      /\ \A i \in DOMAIN plan : fate[plan[i]] = "done" <=> i <= Done
      /\ \A d \in Chunks : fate[d] # "unsubmitted" => \E i \in DOMAIN plan : d = plan[i]
  BY <1>1 DEF IInv, PoolInv
<1>6. fate[c] = "done" <=> \E i \in DOMAIN plan : plan[i] = c /\ i <= Done
  BY <1>5
<1>7. \A i : i \in DOMAIN plan /\ i <= Done <=> i \in 1 .. Done
  BY <1>1, <1>4, <1>5, PlanFacts
<1>8. Appended(c) <=> \/ \E i \in 1 .. Done : plan[i] = c
                      \/ task[solo] = c /\ at \notin {"acquire", "append"}
  BY <1>2, <1>6, <1>7 DEF Appended, at
<1>9. CASE at \in {"none", "acquire", "append"}
  <2>1. Done = l + r
    BY <1>1, <1>3, <1>4, <1>9
  <2>2. ~(task[solo] = c /\ at \notin {"acquire", "append"})
    BY <1>2, <1>5, <1>9
  <2>. QED
    BY <1>1, <1>8, <2>1, <2>2
<1>10. CASE at \notin {"none", "acquire", "append"}
  <2>1. Done = t - 1 /\ t = l + r /\ t >= 1 /\ task[solo] = plan[t]
    BY <1>3, <1>4, <1>5, <1>10
  <2>2. 1 .. t = (1 .. t - 1) \cup {t}
    BY <1>1, <2>1
  <2>3. Appended(c) <=> \E i \in 1 .. t : plan[i] = c
    BY <1>8, <1>10, <2>1, <2>2
  <2>. QED
    BY <1>1, <2>1, <2>3
<1>. QED
  BY <1>9, <1>10

LEMMA Whole == IInv => BatchesWhole
<1> SUFFICES ASSUME IInv PROVE BatchesWhole
  OBVIOUS
<1>1. PICK l \in Nat, r \in Nat : l = Len(compared) /\ r = Len(remotes)
  BY Shape
<1>2. /\ DOMAIN compared = 1 .. l /\ DOMAIN remotes = 1 .. r
      /\ \A i \in 1 .. l : compared[i].at = plan[i]
  BY <1>1, Shape DEF IInv, BatchInv
<1>3. /\ l + r <= Len(plan) \/ at = "reset"
      /\ l <= Len(plan)
  <2>1. Taken <= handed /\ Taken \in Nat
    BY Shape DEF IInv, PoolInv
  <2>2. InBatch \in Nat /\ Coming \in Nat /\ (at # "reset" => InBatch = r)
    BY <1>1, Amounts DEF InBatch, Coming
  <2>. QED
    BY <1>1, <2>1, <2>2, Amounts, PlanFacts
<1>4. \A i, j \in 1 .. Len(plan) : plan[i] = plan[j] => i = j
  BY PlanFacts
<1>5. ASSUME NEW c \in Chunks
      PROVE  Compares(c) = IF \E i \in 1 .. l : plan[i] = c THEN 1 ELSE 0
  <2> DEFINE S == {i \in DOMAIN compared : compared[i].at = c}
  <2>1. \A i : i \in S <=> i \in 1 .. l /\ plan[i] = c
    BY <1>2
  <2>2. Compares(c) = Cardinality(S)
    BY DEF Compares
  <2>. HIDE DEF S
  <2>3. \A i, j \in S : i = j
    BY <1>1, <1>3, <1>4, <2>1, PlanFacts
  <2>4. Cardinality(S) = IF S # {} THEN 1 ELSE 0
    BY <2>3, AtMostOne
  <2>. QED
    BY <2>1, <2>2, <2>4
<1>6. ASSUME NEW c \in Chunks, at \notin {"compare", "reset"}
      PROVE  Compares(c) + Pending(c) = IF Appended(c) THEN 1 ELSE 0
  <2>1. \A i \in 1 .. r : remotes[i] = plan[l + i]
    <3>1. at # "reset"
      BY <1>6
    <3>2. \A i \in DOMAIN remotes : remotes[i] = plan[Len(compared) + i]
      BY <3>1 DEF IInv, BatchInv
    <3>. QED
      BY <1>1, <1>2, <3>2
  <2>2. \A i \in 1 .. r : l + i \in 1 .. Len(plan)
    BY <1>1, <1>3, <1>6, PlanFacts
  <2>3. \A i, j \in 1 .. r : remotes[i] = c /\ remotes[j] = c => i = j
    <3>1. ASSUME NEW i \in 1 .. r, NEW j \in 1 .. r, remotes[i] = c, remotes[j] = c PROVE i = j
      <4>1. plan[l + i] = plan[l + j] /\ l + i \in 1 .. Len(plan) /\ l + j \in 1 .. Len(plan)
        BY <2>1, <2>2, <3>1
      <4>2. l + i = l + j
        BY <1>4, <4>1
      <4>. QED
        BY <1>1, <4>2
    <3>. QED
      BY <3>1
  <2>4. Pending(c) = IF \E i \in 1 .. r : remotes[i] = c THEN 1 ELSE 0
    <3> DEFINE S == {i \in DOMAIN remotes : remotes[i] = c}
    <3>1. \A i : i \in S <=> i \in 1 .. r /\ remotes[i] = c
      BY <1>2
    <3>2. Pending(c) = Cardinality(S)
      BY DEF Pending
    <3>. HIDE DEF S
    <3>3. Cardinality(S) = IF S # {} THEN 1 ELSE 0
      BY <2>3, <3>1, AtMostOne
    <3>. QED
      BY <3>1, <3>2, <3>3
  <2>5. (\E i \in 1 .. r : remotes[i] = c) => ~ \E j \in 1 .. l : plan[j] = c
    <3>1. ASSUME NEW i \in 1 .. r, remotes[i] = c, NEW j \in 1 .. l, plan[j] = c PROVE FALSE
      <4>1. plan[l + i] = plan[j] /\ j \in 1 .. Len(plan)
        BY <1>1, <1>3, <2>1, <3>1, PlanFacts
      <4>2. l + i = j
        BY <1>4, <2>2, <4>1
      <4>. QED
        BY <1>1, <4>2
    <3>. QED
      BY <3>1
  <2>6. (\E i \in 1 .. l + r : plan[i] = c)
          <=> (\E i \in 1 .. l : plan[i] = c) \/ (\E i \in 1 .. r : remotes[i] = c)
    <3>1. ASSUME NEW i \in 1 .. l + r, plan[i] = c
          PROVE  (\E j \in 1 .. l : plan[j] = c) \/ (\E j \in 1 .. r : remotes[j] = c)
      <4>1. CASE i <= l
        BY <1>1, <3>1, <4>1
      <4>2. CASE i > l
        <5>1. i - l \in 1 .. r /\ l + (i - l) = i
          BY <1>1, <4>2
        <5>. QED
          BY <2>1, <3>1, <5>1
      <4>. QED
        BY <1>1, <4>1, <4>2
    <3>2. \A i \in 1 .. l : i \in 1 .. l + r
      BY <1>1
    <3>3. \A i \in 1 .. r : l + i \in 1 .. l + r
      BY <1>1
    <3>. QED
      BY <2>1, <3>1, <3>2, <3>3
  <2>7. Appended(c) <=> \E i \in 1 .. l + r : plan[i] = c
    BY <1>1, <1>6, AppendedIs
  <2>. QED
    BY <1>5, <2>4, <2>5, <2>6, <2>7
<1>7. BatchHasRoom
  <2>1. at = "append" => currCount < RegionCount
    BY DEF IInv, BatchInv
  <2>. QED
    BY <2>1, Shape DEF BatchHasRoom, at
<1>8. \A c \in Chunks : Compares(c) <= 1
  BY <1>5
<1>9. (\A w \in Workers : job[w] \notin {"compare", "reset"}) => at \notin {"compare", "reset"}
  BY Shape DEF at
<1>. QED
  BY <1>6, <1>7, <1>8, <1>9 DEF IInv, BatchInv, BatchesWhole

\* With one worker the batch never overflows, no chunk is compared twice or
\* lost between the batch and comp, and comp sees the plan in order, by whole
\* batches: what read_mem.hpp's assertion and its loop rely on.
THEOREM WholeBatches == OneWorker => (Spec => []BatchesWhole)
BY Whole, Inductive, PTL
================================================================================

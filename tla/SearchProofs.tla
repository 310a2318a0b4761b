------------------------------ MODULE SearchProofs ------------------------------
(***************************************************************************)
(* Proofs about Search, for any set of workers, number of buffers and plan  *)
(* of searches.  What has been proved of the two pools is used of the pools  *)
(* that Search instantiates: a step of Search is a step of each pool or     *)
(* leaves it alone, so the pools' invariants hold in it.                    *)
(***************************************************************************)
EXTENDS Search, SequenceTheorems, FiniteSetTheorems, TLAPS

TPP == INSTANCE ThreadPoolProofs WITH Clients <- {Caller}, Closers <- {},
                                      Tasks <- Chunks, NoTask <- NoChunk
BPP == INSTANCE BufferPoolProofs WITH Threads <- Workers, MaxHeld <- 1

--------------------------------------------------------------------------------
(* The inductive invariant *)

\* What is known of the pools, whatever uses them.
PoolsInv == /\ TPP!IInv
            /\ BPP!TypeOK /\ BPP!BuffersConserved
            /\ ~stop

\* Where the caller is says how far each search has got: ids are given out in
\* order, only the search the caller is in is unfinished, and an erased waiter
\* has nothing left to count.
CallerInv ==
    /\ currId \in 0 .. Len(Plan)
    /\ step \in {"map", "submit"} => callId = currId
    /\ step # "idle" => callId \in Ids /\ waiter[callId] = "live"
    /\ \A id \in Ids :
          /\ waiter[id] = "absent" <=> currId < id
          /\ progress[id] \in 0 .. Len(Plan[id])
          /\ waiter[id] = "absent" => progress[id] = 0
          /\ waiter[id] # "absent" /\ ~(step \in {"map", "submit"} /\ id = callId)
               => progress[id] = Len(Plan[id])
          /\ waiter[id] = "erased" => counter[id] = 0
    /\ step = "submit" => progress[callId] # 0
    /\ step = "erase" => counter[callId] = 0

\* A chunk has been submitted exactly if it has been counted, but for the one
\* that is about to be.
Submitting(id, i) == step = "submit" /\ id = callId /\ i = progress[id]
SubmittedInv ==
    \A id \in Ids : \A i \in DOMAIN Plan[id] :
        fate[Plan[id][i]] # "unsubmitted" <=> i <= progress[id] /\ ~Submitting(id, i)

\* A worker has no more than one buffer, and while it looks at it, it finds in
\* it the bytes of its chunk if these could be read.
OneBuffer == \A w \in Workers : \A b, c \in held[w] : b = c
ContentInv == \A w \in Workers : \A b \in held[w] :
                 job[w] = "compare" /\ current[w] \notin Unreadable => content[b] = current[w]

\* A chunk has been scanned exactly if its task is past comp.
ScannedInv ==
    \A c \in Chunks :
        c \in scanned <=> \/ fate[c] = "done"
                          \/ \E w \in Workers : /\ current[w] = c
                                                /\ job[w] \in {"release", "countdown", "notify"}

IInv == /\ PoolsInv /\ CallerInv /\ SubmittedInv
        /\ JobsMatchPools /\ CounterIsOutstanding
        /\ OneBuffer /\ ContentInv /\ ScannedInv
        /\ printed \subseteq scanned /\ ReportsExact

--------------------------------------------------------------------------------
(* The pools *)

\* The pools are instantiated with constants they allow.
LEMMA PoolConstants == TPP!PoolAssumption /\ BPP!BufferAssumption
<1>1. IsFiniteSet({Caller})
  BY FS_Singleton
<1>. QED
  BY <1>1, SearchAssumption DEF TPP!PoolAssumption, BPP!BufferAssumption,
                                IsFiniteSet, TPP!IsFiniteSet, BPP!IsFiniteSet

\* The thread pool starts as ThreadPool says, and its own steps keep its
\* invariant and leave stop_ alone.
LEMMA ThreadPoolInit == TP!Init => TPP!IInv
<1>1. TP!Init => TPP!Init
  BY DEF TP!Init, TPP!Init
<1>. QED
  BY <1>1, PoolConstants, TPP!IInvInit

LEMMA ThreadPoolStep ==
  ASSUME TPP!IInv,
         \/ \E c \in Chunks : TP!Submit(Caller, c)
         \/ TP!SubmitNotify(Caller)
         \/ \E w \in Workers : \/ TP!WorkerTake(w) \/ TP!WorkerBlock(w)
                              \/ TP!SpuriousWake(w) \/ TP!WorkerFinish(w)
         \/ UNCHANGED poolVars
  PROVE  TPP!IInv' /\ stop' = stop
<1>1. ASSUME NEW c \in Chunks, TP!Submit(Caller, c) PROVE TPP!Next /\ stop' = stop
  <2>1. TPP!Submit(Caller, c) /\ stop' = stop
    BY <1>1 DEF TP!Submit, TP!Enqueue, TP!Refuse, TPP!Submit, TPP!Enqueue, TPP!Refuse
  <2>. QED
    BY <2>1 DEF TPP!Next
<1>2. ASSUME TP!SubmitNotify(Caller) PROVE TPP!Next /\ stop' = stop
  <2>1. TPP!SubmitNotify(Caller) /\ stop' = stop
    BY <1>2 DEF TP!SubmitNotify, TP!NotifyOne, TP!Blocked,
                TPP!SubmitNotify, TPP!NotifyOne, TPP!Blocked
  <2>. QED
    BY <2>1 DEF TPP!Next
<1>3. ASSUME NEW w \in Workers,
             TP!WorkerTake(w) \/ TP!WorkerBlock(w) \/ TP!SpuriousWake(w) \/ TP!WorkerFinish(w)
      PROVE  TPP!Next /\ stop' = stop
  <2>1. /\ \/ TPP!WorkerTake(w) \/ TPP!WorkerBlock(w)
           \/ TPP!SpuriousWake(w) \/ TPP!WorkerFinish(w)
        /\ stop' = stop
    BY <1>3 DEF TP!WorkerTake, TP!WorkerBlock, TP!SpuriousWake, TP!WorkerFinish,
                TPP!WorkerTake, TPP!WorkerBlock, TPP!SpuriousWake, TPP!WorkerFinish
  <2>. QED
    BY <2>1 DEF TPP!Next, TPP!WorkerLoop
<1>4. ASSUME UNCHANGED poolVars PROVE UNCHANGED TPP!vars /\ stop' = stop
  BY <1>4 DEF poolVars, TPP!vars
<1>. QED
  BY <1>1, <1>2, <1>3, <1>4, PoolConstants, TPP!IInvStep

\* The same of the buffer pool.
LEMMA BufferPoolInit == BP!Init => BPP!TypeOK /\ BPP!BuffersConserved
<1>1. BP!Init => BPP!Init
  BY DEF BP!Init, BPP!Init
<1>. QED
  BY <1>1, PoolConstants, BPP!TypeInit, BPP!ConservedInit

LEMMA BufferPoolStep ==
  ASSUME BPP!TypeOK, BPP!BuffersConserved,
         \/ \E w \in Workers : \/ BP!AcquireNotice(w) \/ BP!Take(w)
                              \/ BP!NoticeBegin(w) \/ BP!NoticeEnd(w)
                              \/ BP!Block(w) \/ BP!SpuriousWake(w)
                              \/ \E b \in held[w] : BP!Release(w, b)
         \/ UNCHANGED bufferVars
  PROVE  BPP!TypeOK' /\ BPP!BuffersConserved'
<1>1. ASSUME NEW w \in Workers, NEW b \in held[w], BP!Release(w, b) PROVE BPP!Next
  <2>1. b \in BPP!Buffers
    BY DEF BPP!TypeOK
  <2>2. BPP!Release(w, b)
    BY <1>1 DEF BP!Release, BP!NotifyOne, BP!Blocked, BPP!Release, BPP!NotifyOne, BPP!Blocked
  <2>. QED
    BY <2>1, <2>2 DEF BPP!Next
<1>2. ASSUME NEW w \in Workers,
             \/ BP!AcquireNotice(w) \/ BP!Take(w) \/ BP!NoticeBegin(w) \/ BP!NoticeEnd(w)
             \/ BP!Block(w) \/ BP!SpuriousWake(w)
      PROVE  BPP!Next
  <2>1. \/ BPP!AcquireNotice(w) \/ BPP!Take(w) \/ BPP!NoticeBegin(w) \/ BPP!NoticeEnd(w)
        \/ BPP!Block(w) \/ BPP!SpuriousWake(w)
    BY <1>2 DEF BP!AcquireNotice, BP!Take, BP!PopTo, BP!NoticeBegin, BP!NoticeEnd, BP!Block,
                BP!SpuriousWake, BPP!AcquireNotice, BPP!Take, BPP!PopTo, BPP!NoticeBegin,
                BPP!NoticeEnd, BPP!Block, BPP!SpuriousWake,
                BP!Cardinality, BPP!Cardinality
  <2>. QED
    BY <2>1 DEF BPP!Next, BPP!AcquireStep
<1>3. ASSUME UNCHANGED bufferVars PROVE UNCHANGED BPP!vars
  BY <1>3 DEF bufferVars, BPP!vars
<1>. QED
  BY <1>1, <1>2, <1>3, PoolConstants, BPP!TypeStep, BPP!ConservedStep

--------------------------------------------------------------------------------
(* The plan, and what the invariant says of one chunk *)

\* Every chunk has one place in one search.
LEMMA PlanFacts ==
  /\ Len(Plan) \in Nat /\ Ids = 1 .. Len(Plan)
  /\ \A id \in Ids : /\ Len(Plan[id]) \in Nat
                     /\ DOMAIN Plan[id] = 1 .. Len(Plan[id])
                     /\ \A i \in DOMAIN Plan[id] : Plan[id][i] \in Chunks
  /\ \A c \in Chunks : \E id \in Ids : \E i \in DOMAIN Plan[id] : c = Plan[id][i]
<1>1. Plan \in Seq(Seq(Chunks))
  BY SearchAssumption
<1>2. Len(Plan) \in Nat /\ Ids = 1 .. Len(Plan)
  BY <1>1, LenProperties DEF Ids
<1>3. \A id \in Ids : Plan[id] \in Seq(Chunks)
  BY <1>1, <1>2, ElementOfSeq
<1>4. ASSUME NEW id \in Ids
      PROVE  /\ Len(Plan[id]) \in Nat
             /\ DOMAIN Plan[id] = 1 .. Len(Plan[id])
             /\ \A i \in DOMAIN Plan[id] : Plan[id][i] \in Chunks
  BY <1>3, LenProperties, ElementOfSeq
<1>5. \A c \in Chunks : \E id \in Ids : \E i \in DOMAIN Plan[id] : c = Plan[id][i]
  BY SearchAssumption DEF ChunksOf
<1>. QED
  BY <1>2, <1>4, <1>5

\* IdOf finds the search that a chunk is of.
LEMMA IdOfChunk ==
  ASSUME NEW id \in Ids, NEW i \in DOMAIN Plan[id]
  PROVE  IdOf(Plan[id][i]) = id
<1> DEFINE c == Plan[id][i]
<1>1. c \in ChunksOf(id)
  BY DEF ChunksOf
<1>2. \A k \in Ids : c \in ChunksOf(k) => k = id
  BY SearchAssumption DEF ChunksOf
<1>3. IdOf(c) \in Ids /\ c \in ChunksOf(IdOf(c))
  BY <1>1 DEF IdOf
<1>. QED
  BY <1>2, <1>3

\* The chunk that is about to be submitted is one, of the caller's search.
LEMMA NextIsChunk ==
  ASSUME IInv, step = "submit"
  PROVE  /\ callId \in Ids /\ progress[callId] \in DOMAIN Plan[callId]
         /\ NextChunk \in Chunks
         /\ fate[NextChunk] = "unsubmitted"
<1>1. /\ callId \in Ids
      /\ progress[callId] \in 0 .. Len(Plan[callId]) /\ progress[callId] # 0
  BY DEF IInv, CallerInv
<1>2. progress[callId] \in DOMAIN Plan[callId] /\ NextChunk \in Chunks
  BY <1>1, PlanFacts DEF NextChunk
<1>3. fate[NextChunk] = "unsubmitted"
  BY <1>1, <1>2 DEF IInv, SubmittedInv, Submitting, NextChunk
<1>. QED
  BY <1>1, <1>2, <1>3

\* A worker in a task has a chunk of its own that has been submitted, and of a
\* search that has counted it.
LEMMA TaskFacts ==
  ASSUME IInv, NEW w \in Workers, job[w] # "none"
  PROVE  LET c == current[w]
         IN  /\ c \in Chunks /\ fate[c] = "accepted"
             /\ \A v \in Workers : current[v] = c => v = w
             /\ worker[w] = "run"
             /\ IdOf(c) \in Ids /\ c \in Counted(IdOf(c))
<1> DEFINE c == current[w]
<1>1. worker[w] = "run" /\ c \in Chunks \cup {NoChunk}
  BY DEF IInv, JobsMatchPools, TypeOK, TP!TypeOK
<1>2. c # NoChunk
  BY <1>1 DEF IInv, PoolsInv, TPP!IInv, TPP!HoldsWhileRunning
<1>3. c \in Chunks /\ fate[c] = "accepted" /\ \A v \in Workers : current[v] = c => v = w
  BY <1>1, <1>2 DEF IInv, PoolsInv, TPP!IInv, TPP!TasksConserved
<1>4. PICK id \in Ids : \E i \in DOMAIN Plan[id] : c = Plan[id][i]
  BY <1>3, PlanFacts
<1>5. PICK i \in DOMAIN Plan[id] : c = Plan[id][i]
  BY <1>4
<1>6. i <= progress[id]
  BY <1>3, <1>5 DEF IInv, SubmittedInv
<1>7. progress[id] \in 0 .. Len(Plan[id])
  BY DEF IInv, CallerInv
<1>8. i \in 1 .. progress[id]
  BY <1>6, <1>7, PlanFacts
<1>. QED
  BY <1>1, <1>3, <1>5, <1>8, IdOfChunk DEF Counted

\* A queued chunk has been submitted, is with no worker and is counted.
LEMMA QueuedFacts ==
  ASSUME IInv, tasks # <<>>
  PROVE  LET c == Head(tasks)
         IN  /\ c \in Chunks /\ fate[c] = "accepted"
             /\ \A v \in Workers : current[v] # c
             /\ IdOf(c) \in Ids /\ c \in Counted(IdOf(c))
<1> DEFINE c == Head(tasks)
<1>1. tasks \in Seq(Chunks)
  BY DEF IInv, JobsMatchPools, TypeOK, TP!TypeOK
<1>2. c \in Chunks /\ 1 \in DOMAIN tasks /\ c = tasks[1]
  BY <1>1, HeadTailProperties, LenProperties, EmptySeq
<1>3. TPP!InQueue(c)
  BY <1>2 DEF TPP!InQueue
<1>4. fate[c] = "accepted" /\ \A v \in Workers : current[v] # c
  BY <1>2, <1>3 DEF IInv, PoolsInv, TPP!IInv, TPP!TasksConserved
<1>5. PICK id \in Ids : \E i \in DOMAIN Plan[id] : c = Plan[id][i]
  BY <1>2, PlanFacts
<1>6. PICK i \in DOMAIN Plan[id] : c = Plan[id][i]
  BY <1>5
<1>7. i <= progress[id]
  BY <1>4, <1>6 DEF IInv, SubmittedInv
<1>8. progress[id] \in 0 .. Len(Plan[id])
  BY DEF IInv, CallerInv
<1>9. i \in 1 .. progress[id]
  BY <1>7, <1>8, PlanFacts
<1>. QED
  BY <1>2, <1>4, <1>6, <1>9, IdOfChunk DEF Counted

\* What a search has counted is finite.
LEMMA CountedFinite ==
  ASSUME NEW id \in Ids, NEW n \in Nat
  PROVE  IsFiniteSet({Plan[id][i] : i \in 1 .. n})
<1> DEFINE S == 1 .. n
           f == [i \in S |-> Plan[id][i]]
<1>1. IsFiniteSet(S)
  BY FS_Interval
<1>2. f \in Surjection(S, {Plan[id][i] : i \in S})
  BY DEF Surjection
<1>. QED
  BY <1>1, <1>2, FS_Surjection

\* A counter is a number; where it is 0 everything counted has been counted
\* down; and each chunk that has not been makes it positive.
LEMMA CounterFacts ==
  ASSUME IInv, NEW id \in Ids
  PROVE  LET S == {c \in Counted(id) : ~CountedDown(c)}
         IN  /\ IsFiniteSet(S) /\ counter[id] = Cardinality(S) /\ counter[id] \in Nat
             /\ counter[id] = 0 <=> S = {}
<1> DEFINE S == {c \in Counted(id) : ~CountedDown(c)}
<1>1. progress[id] \in Nat
  BY PlanFacts DEF IInv, CallerInv
<1>2. IsFiniteSet(Counted(id))
  BY <1>1, CountedFinite DEF Counted
<1>3. IsFiniteSet(S)
  BY <1>2, FS_Subset
<1>4. counter[id] = Cardinality(S)
  BY DEF IInv, CounterIsOutstanding
<1>. QED
  BY <1>3, <1>4, FS_CardinalityType, FS_EmptySet

\* A chunk that a worker has yet to count down keeps its search's counter up.
LEMMA OutstandingKeepsCounter ==
  ASSUME IInv, NEW w \in Workers, job[w] \notin {"none", "notify"}
  PROVE  counter[IdOf(current[w])] \in Nat \ {0}
<1> DEFINE c == current[w]
<1>1. /\ fate[c] = "accepted" /\ \A v \in Workers : current[v] = c => v = w
      /\ IdOf(c) \in Ids /\ c \in Counted(IdOf(c))
  BY TaskFacts
<1>2. ~CountedDown(c)
  BY <1>1 DEF CountedDown
<1>. QED
  BY <1>1, <1>2, CounterFacts

--------------------------------------------------------------------------------
(* Every step keeps each part of the invariant *)

\* The invariants of the pools.
LEMMA PoolsStep == IInv /\ [Next]_vars => PoolsInv'
<1> SUFFICES ASSUME IInv, [Next]_vars PROVE PoolsInv'
  OBVIOUS
<1> DEFINE ThreadPoolPart ==
             \/ \E c \in Chunks : TP!Submit(Caller, c)
             \/ TP!SubmitNotify(Caller)
             \/ \E w \in Workers : \/ TP!WorkerTake(w) \/ TP!WorkerBlock(w)
                                  \/ TP!SpuriousWake(w) \/ TP!WorkerFinish(w)
             \/ UNCHANGED poolVars
           BufferPoolPart ==
             \/ \E w \in Workers : \/ BP!AcquireNotice(w) \/ BP!Take(w)
                                  \/ BP!NoticeBegin(w) \/ BP!NoticeEnd(w)
                                  \/ BP!Block(w) \/ BP!SpuriousWake(w)
                                  \/ \E b \in held[w] : BP!Release(w, b)
             \/ UNCHANGED bufferVars
<1>1. ThreadPoolPart
  <2>1. CASE SubmitChunk
    BY <2>1, NextIsChunk DEF SubmitChunk
  <2>2. CASE SubmitNotify
    BY <2>2 DEF SubmitNotify
  <2>3. ASSUME NEW w \in Workers, TaskStep(w) PROVE ThreadPoolPart
    BY <2>3 DEF TaskStep, StartChunk, GetBuffer, Read, Compare, Release, CountDown, NotifyWaiter
  <2>4. ASSUME NEW w \in Workers, AwaitTask(w) \/ AwaitBuffer(w) PROVE ThreadPoolPart
    BY <2>4 DEF AwaitTask, AwaitBuffer
  <2>5. CASE \/ BeginSearch \/ CountChunk \/ EndSearch \/ (\E id \in Ids : BeginWait(id))
            \/ WaitAct \/ SpuriousUnpark \/ UNCHANGED vars
    BY <2>5 DEF BeginSearch, CountChunk, EndSearch, BeginWait, WaitAct, FindDone, FindBusy,
                Park, SpuriousUnpark, WaitStep, Erase, vars
  <2>. QED
    BY <2>1, <2>2, <2>3, <2>4, <2>5 DEF Next, SearchStep
<1>2. BufferPoolPart
  <2>1. ASSUME NEW w \in Workers, TaskStep(w) PROVE BufferPoolPart
    BY <2>1 DEF TaskStep, StartChunk, GetBuffer, Read, Compare, Release, CountDown, NotifyWaiter
  <2>2. ASSUME NEW w \in Workers, AwaitTask(w) \/ AwaitBuffer(w) PROVE BufferPoolPart
    BY <2>2 DEF AwaitTask, AwaitBuffer
  <2>3. CASE \/ BeginSearch \/ SearchStep \/ (\E id \in Ids : BeginWait(id))
            \/ WaitAct \/ SpuriousUnpark \/ UNCHANGED vars
    BY <2>3 DEF BeginSearch, SearchStep, CountChunk, SubmitChunk, SubmitNotify, EndSearch,
                BeginWait, WaitAct, FindDone, FindBusy, Park, SpuriousUnpark, WaitStep,
                Erase, vars
  <2>. QED
    BY <2>1, <2>2, <2>3 DEF Next
<1>. QED
  <2>1. TPP!IInv' /\ stop' = stop
    BY <1>1, ThreadPoolStep DEF IInv, PoolsInv
  <2>2. BPP!TypeOK' /\ BPP!BuffersConserved'
    BY <1>2, BufferPoolStep DEF IInv, PoolsInv
  <2>. QED
    BY <2>1, <2>2 DEF IInv, PoolsInv

\* Where the caller is and how far each search has got.
LEMMA CallerStep == IInv /\ [Next]_vars => CallerInv'
<1> SUFFICES ASSUME IInv, [Next]_vars PROVE CallerInv'
  OBVIOUS
<1> USE DEF IInv, CallerInv
<1>1. /\ waiter \in [Ids -> {"absent", "live", "erased"}] /\ progress \in [Ids -> Nat]
      /\ counter \in [Ids -> Nat]
  BY DEF JobsMatchPools, TypeOK
<1>2. CASE BeginSearch
  BY <1>1, <1>2, PlanFacts DEF BeginSearch
<1>3. CASE CountChunk
  BY <1>1, <1>3, PlanFacts DEF CountChunk
<1>4. CASE SubmitChunk
  BY <1>1, <1>4 DEF SubmitChunk
<1>5. CASE EndSearch
  BY <1>1, <1>5 DEF EndSearch
<1>6. ASSUME NEW id \in Ids, BeginWait(id) PROVE CallerInv'
  BY <1>1, <1>6 DEF BeginWait
<1>7. CASE FindDone \/ FindBusy \/ Park \/ SpuriousUnpark
  BY <1>1, <1>7 DEF FindDone, FindBusy, Park, SpuriousUnpark, WaitStep
<1>8. CASE Erase
  BY <1>1, <1>8, PlanFacts DEF Erase
<1>9. ASSUME NEW w \in Workers, CountDown(w) PROVE CallerInv'
  <2>1. /\ waiter[IdOf(current[w])] = "live" /\ counter[IdOf(current[w])] # 0
    BY <1>9, OutstandingKeepsCounter DEF CountDown, JobStep, JobsMatchPools
  <2>. QED
    BY <1>1, <1>9, <2>1 DEF CountDown, callerVars
<1>10. ASSUME NEW w \in Workers, NotifyWaiter(w) PROVE CallerInv'
  BY <1>1, <1>10 DEF NotifyWaiter
<1>11. CASE \/ SubmitNotify \/ UNCHANGED vars
            \/ \E w \in Workers : \/ StartChunk(w) \/ GetBuffer(w) \/ Read(w) \/ Compare(w)
                                 \/ Release(w) \/ AwaitTask(w) \/ AwaitBuffer(w)
  <2>1. UNCHANGED <<callerVars, counter>>
    BY <1>11 DEF SubmitNotify, vars, StartChunk, GetBuffer, Read, Compare, Release, AwaitTask,
                 AwaitBuffer
  <2>. QED
    BY <2>1 DEF callerVars
<1>. QED
  BY <1>2, <1>3, <1>4, <1>5, <1>6, <1>7, <1>8, <1>9, <1>10, <1>11
  DEF Next, SearchStep, WaitAct, TaskStep

\* What has been submitted.
LEMMA SubmittedStep == IInv /\ [Next]_vars => SubmittedInv'
<1> SUFFICES ASSUME IInv, [Next]_vars PROVE SubmittedInv'
  OBVIOUS
<1> USE DEF SubmittedInv, Submitting
<1>1. SubmittedInv /\ progress \in [Ids -> Nat] /\ fate \in [Chunks -> TP!Fates]
  BY DEF IInv, JobsMatchPools, TypeOK, TP!TypeOK
<1>2. CASE CountChunk
  <2>1. callId \in Ids /\ step = "map"
    BY <1>2 DEF CountChunk, IInv, CallerInv
  <2>2. \A id \in Ids : \A i \in DOMAIN Plan[id] : i \in Nat
    BY PlanFacts
  <2>. QED
    BY <1>1, <1>2, <2>1, <2>2 DEF CountChunk, poolVars
<1>3. CASE SubmitChunk
  <2>1. /\ step = "submit" /\ step' = "map" /\ UNCHANGED <<callId, progress>>
        /\ fate' = [fate EXCEPT ![NextChunk] = "accepted"]
    BY <1>3 DEF SubmitChunk, TP!Submit, TP!Enqueue, TP!Refuse, IInv, PoolsInv
  <2>2. /\ callId \in Ids /\ progress[callId] \in DOMAIN Plan[callId]
        /\ NextChunk \in Chunks /\ NextChunk = Plan[callId][progress[callId]]
    BY <2>1, NextIsChunk DEF NextChunk
  <2>3. ASSUME NEW id \in Ids, NEW i \in DOMAIN Plan[id]
        PROVE  /\ Plan[id][i] \in Chunks
               /\ Plan[id][i] = NextChunk <=> id = callId /\ i = progress[id]
    <3>1. Plan[id][i] = Plan[callId][progress[callId]] => id = callId /\ i = progress[callId]
      BY <2>2, SearchAssumption
    <3>. QED
      BY <2>2, <3>1, PlanFacts
  <2>4. progress[callId] \in Nat
    BY <1>1, <2>2
  <2>. QED
    BY <1>1, <2>1, <2>2, <2>3, <2>4
<1>4. ASSUME NEW w \in Workers, NotifyWaiter(w) PROVE SubmittedInv'
  <2>1. /\ fate' = [fate EXCEPT ![current[w]] = "done"] /\ UNCHANGED <<callId, progress>>
        /\ step' = "submit" <=> step = "submit"
    BY <1>4 DEF NotifyWaiter, TP!WorkerFinish
  <2>2. fate[current[w]] = "accepted"
    BY <1>4, TaskFacts DEF NotifyWaiter, JobStep
  <2>. QED
    BY <1>1, <2>1, <2>2, PlanFacts
<1>5. CASE \/ BeginSearch \/ SubmitNotify \/ EndSearch \/ (\E id \in Ids : BeginWait(id))
           \/ WaitAct \/ SpuriousUnpark \/ UNCHANGED vars
           \/ \E w \in Workers : \/ StartChunk(w) \/ GetBuffer(w) \/ Read(w) \/ Compare(w)
                                \/ Release(w) \/ CountDown(w) \/ AwaitTask(w) \/ AwaitBuffer(w)
  <2>1. /\ UNCHANGED <<fate, progress>>
        /\ UNCHANGED <<step, callId>> \/ (step # "submit" /\ step' # "submit")
    BY <1>5 DEF BeginSearch, SubmitNotify, EndSearch, BeginWait, WaitAct, FindDone, FindBusy,
                Park, SpuriousUnpark, WaitStep, Erase, StartChunk, GetBuffer, Read, Compare,
                Release, CountDown, AwaitTask, AwaitBuffer, TP!SubmitNotify, TP!WorkerTake,
                TP!WorkerBlock, TP!SpuriousWake, poolVars, callerVars, vars
  <2>. QED
    BY <1>1, <2>1
<1>. QED
  BY <1>2, <1>3, <1>4, <1>5 DEF Next, SearchStep, TaskStep

\* What a search has counted are chunks of that search.
LEMMA CountedFacts ==
  ASSUME IInv, NEW id \in Ids, NEW c \in Counted(id)
  PROVE  c \in Chunks /\ IdOf(c) = id
<1>1. PICK i \in 1 .. progress[id] : c = Plan[id][i]
  BY DEF Counted
<1>2. i \in DOMAIN Plan[id]
  BY PlanFacts DEF IInv, CallerInv
<1>. QED
  BY <1>1, <1>2, IdOfChunk, PlanFacts

\* The counters.
LEMMA CounterStep == IInv /\ [Next]_vars => CounterIsOutstanding'
<1> SUFFICES ASSUME IInv, [Next]_vars PROVE CounterIsOutstanding'
  OBVIOUS
<1> DEFINE Outstanding(id) == {c \in Counted(id) : ~CountedDown(c)}
<1>0. /\ counter \in [Ids -> Nat] /\ progress \in [Ids -> Nat] /\ job \in [Workers -> Jobs]
      /\ current \in [Workers -> Chunks \cup {NoChunk}] /\ fate \in [Chunks -> TP!Fates]
  BY DEF IInv, JobsMatchPools, TypeOK, TP!TypeOK
<1>1. ASSUME counter' = counter, progress' = progress,
             \A c \in Chunks : CountedDown(c)' <=> CountedDown(c)
      PROVE  CounterIsOutstanding'
  <2>1. ASSUME NEW id \in Ids PROVE Outstanding(id)' = Outstanding(id)
    <3>1. Counted(id)' = Counted(id)
      BY <1>1 DEF Counted
    <3>. QED
      BY <1>1, <3>1, CountedFacts
  <2>. QED
    BY <1>1, <2>1 DEF IInv, CounterIsOutstanding
<1>2. CASE BeginSearch
  <2>1. /\ currId + 1 \in Ids /\ counter' = [counter EXCEPT ![currId + 1] = 0]
        /\ UNCHANGED <<progress, fate, current, job>>
    BY <1>2 DEF BeginSearch, poolVars
  <2>2. progress[currId + 1] = 0
    BY <2>1, PlanFacts DEF IInv, CallerInv
  <2>3. Counted(currId + 1) = {}
    BY <2>2 DEF Counted
  <2>4. counter' = counter
    BY <1>0, <2>1, <2>3, CounterFacts
  <2>. QED
    BY <1>1, <2>1, <2>4 DEF CountedDown
<1>3. CASE CountChunk
  <2> DEFINE n == progress[callId] + 1
             new == Plan[callId][n]
  <2>1. /\ callId \in Ids /\ step = "map"
        /\ progress' = [progress EXCEPT ![callId] = n]
        /\ counter' = [counter EXCEPT ![callId] = @ + 1]
        /\ UNCHANGED <<callId, fate, current, job>>
    BY <1>3 DEF CountChunk, IInv, CallerInv, poolVars
  <2>2. n \in DOMAIN Plan[callId] /\ n \in Nat /\ progress[callId] \in Nat
    BY <1>0, <1>3, <2>1, PlanFacts DEF CountChunk
  <2>3. new \in Chunks /\ fate[new] = "unsubmitted"
    BY <2>1, <2>2, PlanFacts DEF IInv, SubmittedInv, Submitting
  <2>4. ~CountedDown(new)
    BY <2>3, TaskFacts DEF CountedDown
  <2>5. new \notin Counted(callId)
    <3>1. \A i \in 1 .. progress[callId] : i \in DOMAIN Plan[callId] /\ i # n
      BY <2>2, <2>1, PlanFacts
    <3>. QED
      BY <2>1, <2>2, <3>1, SearchAssumption DEF Counted
  <2>6. Counted(callId)' = Counted(callId) \cup {new}
    <3>1. 1 .. n = (1 .. progress[callId]) \cup {n} /\ progress'[callId'] = n
      BY <1>0, <2>1, <2>2
    <3>. HIDE DEF n
    <3>. QED
      BY <2>1, <3>1 DEF Counted
  <2>7. Outstanding(callId)' = Outstanding(callId) \cup {new}
    BY <2>1, <2>4, <2>6 DEF CountedDown
  <2>8. counter'[callId] = Cardinality(Outstanding(callId)')
    <3>1. /\ IsFiniteSet(Outstanding(callId))
          /\ counter[callId] = Cardinality(Outstanding(callId))
      BY <2>1, CounterFacts
    <3>2. Cardinality(Outstanding(callId) \cup {new}) = Cardinality(Outstanding(callId)) + 1
      BY <2>5, <3>1, FS_AddElement
    <3>. QED
      BY <1>0, <2>1, <2>7, <3>1, <3>2
  <2>9. ASSUME NEW id \in Ids, id # callId PROVE counter'[id] = Cardinality(Outstanding(id)')
    <3>1. Counted(id)' = Counted(id)
      BY <1>0, <2>1, <2>9 DEF Counted
    <3>2. Outstanding(id)' = Outstanding(id)
      BY <2>1, <3>1 DEF CountedDown
    <3>. QED
      BY <1>0, <2>1, <2>9, <3>2, CounterFacts
  <2>. QED
    BY <2>1, <2>8, <2>9 DEF CounterIsOutstanding
<1>4. ASSUME NEW w \in Workers, CountDown(w) PROVE CounterIsOutstanding'
  <2> DEFINE down == current[w]
  <2>1. /\ job[w] = "countdown" /\ job' = [job EXCEPT ![w] = "notify"]
        /\ counter' = [counter EXCEPT ![IdOf(down)] = @ - 1]
        /\ UNCHANGED <<fate, current, progress>>
    BY <1>4 DEF CountDown, JobStep, poolVars, callerVars
  <2>2. /\ down \in Chunks /\ fate[down] = "accepted" /\ \A v \in Workers : current[v] = down => v = w
        /\ IdOf(down) \in Ids /\ down \in Counted(IdOf(down))
    BY <2>1, TaskFacts
  <2>3. down \in Outstanding(IdOf(down))
    BY <2>1, <2>2 DEF CountedDown
  <2>4. \A d : CountedDown(d)' <=> CountedDown(d) \/ d = down
    BY <1>0, <2>1, <2>2 DEF CountedDown
  <2>5. ASSUME NEW id \in Ids PROVE Outstanding(id)' = Outstanding(id) \ {down}
    <3>1. Counted(id)' = Counted(id)
      BY <2>1 DEF Counted
    <3>. QED
      BY <2>4, <3>1
  <2>6. counter'[IdOf(down)] = Cardinality(Outstanding(IdOf(down))')
    <3>1. /\ IsFiniteSet(Outstanding(IdOf(down)))
          /\ counter[IdOf(down)] = Cardinality(Outstanding(IdOf(down)))
      BY <2>2, CounterFacts
    <3>2. Cardinality(Outstanding(IdOf(down)) \ {down}) = Cardinality(Outstanding(IdOf(down))) - 1
      BY <2>3, <3>1, FS_RemoveElement
    <3>. QED
      BY <1>0, <2>1, <2>2, <2>5, <3>1, <3>2
  <2>7. ASSUME NEW id \in Ids, id # IdOf(down) PROVE counter'[id] = Cardinality(Outstanding(id)')
    <3>1. down \notin Outstanding(id)
      BY <2>7, CountedFacts
    <3>2. Outstanding(id)' = Outstanding(id)
      BY <2>5, <3>1
    <3>. QED
      BY <1>0, <2>1, <2>7, <3>2, CounterFacts
  <2>. QED
    BY <2>1, <2>6, <2>7 DEF CounterIsOutstanding
<1>5. ASSUME NEW w \in Workers, NotifyWaiter(w) PROVE CounterIsOutstanding'
  <2>1. /\ job[w] = "notify" /\ job' = [job EXCEPT ![w] = "none"]
        /\ current' = [current EXCEPT ![w] = NoChunk]
        /\ fate' = [fate EXCEPT ![current[w]] = "done"]
        /\ UNCHANGED <<counter, progress>>
    BY <1>5 DEF NotifyWaiter, JobStep, TP!WorkerFinish
  <2>2. current[w] \in Chunks /\ \A v \in Workers : current[v] = current[w] => v = w
    BY <2>1, TaskFacts
  <2>3. ASSUME NEW c \in Chunks PROVE CountedDown(c)' <=> CountedDown(c)
    BY <1>0, <2>1, <2>2, SearchAssumption DEF CountedDown
  <2>. QED
    BY <1>1, <2>1, <2>3
<1>6. CASE SubmitChunk
  <2>1. /\ fate' = [fate EXCEPT ![NextChunk] = "accepted"]
        /\ UNCHANGED <<current, job, counter, progress>>
    BY <1>6 DEF SubmitChunk, TP!Submit, TP!Enqueue, TP!Refuse, IInv, PoolsInv
  <2>2. fate[NextChunk] = "unsubmitted"
    BY <1>6, NextIsChunk DEF SubmitChunk
  <2>3. \A c \in Chunks : fate'[c] = "done" <=> fate[c] = "done"
    BY <1>0, <2>1, <2>2
  <2>. QED
    BY <1>1, <2>1, <2>3 DEF CountedDown
<1>7. ASSUME NEW w \in Workers, StartChunk(w) PROVE CounterIsOutstanding'
  <2>1. /\ job[w] = "none" /\ job' = [job EXCEPT ![w] = "acquire"]
        /\ current' = [current EXCEPT ![w] = Head(tasks)]
        /\ UNCHANGED <<fate, counter, progress>>
    BY <1>7 DEF StartChunk, JobStep, TP!WorkerTake, callerVars
  <2>2. \A c \in Chunks : CountedDown(c)' <=> CountedDown(c)
    BY <1>0, <2>1 DEF CountedDown
  <2>. QED
    BY <1>1, <2>1, <2>2
<1>8. ASSUME NEW w \in Workers, GetBuffer(w) \/ Read(w) \/ Compare(w) \/ Release(w)
      PROVE  CounterIsOutstanding'
  <2>1. /\ job[w] # "notify" /\ \E j \in Jobs \ {"notify"} : job' = [job EXCEPT ![w] = j]
        /\ UNCHANGED <<fate, current, counter, progress>>
    BY <1>8 DEF GetBuffer, Read, Compare, Release, JobStep, Jobs, callerVars, poolVars
  <2>2. \A c \in Chunks : CountedDown(c)' <=> CountedDown(c)
    BY <1>0, <2>1 DEF CountedDown
  <2>. QED
    BY <1>1, <2>1, <2>2
<1>9. CASE \/ SubmitNotify \/ EndSearch \/ (\E id \in Ids : BeginWait(id)) \/ WaitAct
           \/ SpuriousUnpark \/ UNCHANGED vars
           \/ \E w \in Workers : AwaitTask(w) \/ AwaitBuffer(w)
  <2>1. UNCHANGED <<counter, progress, fate, current, job>>
    BY <1>9 DEF SubmitNotify, EndSearch, BeginWait, WaitAct, FindDone, FindBusy, Park,
                SpuriousUnpark, WaitStep, Erase, AwaitTask, AwaitBuffer, TP!SubmitNotify,
                TP!WorkerBlock, TP!SpuriousWake, poolVars, callerVars, vars
  <2>. QED
    BY <1>1, <2>1 DEF CountedDown
<1>. QED
  BY <1>2, <1>3, <1>4, <1>5, <1>6, <1>7, <1>8, <1>9 DEF Next, SearchStep, TaskStep

\* The types.
LEMMA TypeStep == IInv /\ [Next]_vars => TypeOK'
<1> SUFFICES ASSUME IInv, [Next]_vars PROVE TypeOK'
  OBVIOUS
<1>1. TP!TypeOK' /\ BP!TypeOK'
  <2>1. TPP!TypeOK' /\ BPP!TypeOK'
    BY PoolsStep DEF PoolsInv, TPP!IInv
  <2>. QED
    BY <2>1 DEF TP!TypeOK, TP!WorkerStates, TP!ClientStates, TP!CloserStates, TP!Fates,
                TPP!TypeOK, TPP!WorkerStates, TPP!ClientStates, TPP!CloserStates, TPP!Fates,
                BP!TypeOK, BP!Buffers, BP!States, BPP!TypeOK, BPP!Buffers, BPP!States
<1> DEFINE OwnTypeOK ==
             /\ step \in Steps /\ callId \in Ids \cup {0} /\ currId \in Ids \cup {0}
             /\ progress \in [Ids -> Nat] /\ waiter \in [Ids -> {"absent", "live", "erased"}]
             /\ counter \in [Ids -> Nat] /\ job \in [Workers -> Jobs]
             /\ content \in [BP!Buffers -> Chunks \cup {NoChunk}]
             /\ scanned \subseteq Chunks /\ printed \subseteq Chunks
<1>2. OwnTypeOK
  BY DEF IInv, JobsMatchPools, TypeOK
<1>3. OwnTypeOK'
  <2> USE <1>2 DEF Steps, Jobs
  <2>1. CASE BeginSearch
    BY <2>1 DEF BeginSearch, scanVars
  <2>2. CASE CountChunk \/ SubmitChunk \/ SubmitNotify \/ EndSearch
    BY <2>2 DEF CountChunk, SubmitChunk, SubmitNotify, EndSearch, scanVars, callerVars
  <2>3. CASE WaitAct \/ SpuriousUnpark \/ \E id \in Ids : BeginWait(id)
    BY <2>3 DEF BeginWait, WaitAct, FindDone, FindBusy, Park, SpuriousUnpark, WaitStep, Erase,
                scanVars
  <2>4. ASSUME NEW w \in Workers, CountDown(w) PROVE OwnTypeOK'
    <3>1. counter[IdOf(current[w])] - 1 \in Nat
      BY <2>4, OutstandingKeepsCounter DEF CountDown, JobStep
    <3>. QED
      BY <2>4, <3>1 DEF CountDown, JobStep, scanVars, callerVars
  <2>5. ASSUME NEW w \in Workers, Read(w) \/ Compare(w) PROVE OwnTypeOK'
    <3>1. current[w] \in Chunks
      BY <2>5, TaskFacts DEF Read, Compare, JobStep
    <3>. QED
      BY <2>5, <3>1 DEF Read, Compare, JobStep, callerVars
  <2>6. ASSUME NEW w \in Workers, \/ StartChunk(w) \/ GetBuffer(w) \/ Release(w)
                                  \/ NotifyWaiter(w) \/ AwaitTask(w) \/ AwaitBuffer(w)
        PROVE OwnTypeOK'
    BY <2>6 DEF StartChunk, GetBuffer, Release, NotifyWaiter, AwaitTask, AwaitBuffer, JobStep,
                scanVars, callerVars
  <2>7. CASE UNCHANGED vars
    BY <2>7 DEF vars, scanVars, callerVars
  <2>. QED
    BY <2>1, <2>2, <2>3, <2>4, <2>5, <2>6, <2>7 DEF Next, SearchStep, TaskStep
<1>. QED
  BY <1>1, <1>3 DEF TypeOK

\* A queued chunk's search has its waiter.
LEMMA QueuedIsLive ==
  ASSUME IInv, tasks # <<>>
  PROVE  waiter[IdOf(Head(tasks))] = "live"
<1> DEFINE c == Head(tasks)
           id == IdOf(c)
<1>1. /\ c \in Chunks /\ fate[c] = "accepted" /\ \A v \in Workers : current[v] # c
      /\ id \in Ids /\ c \in Counted(id)
  BY QueuedFacts
<1>2. ~CountedDown(c)
  BY <1>1 DEF CountedDown
<1>3. counter[id] # 0
  BY <1>1, <1>2, CounterFacts
<1>4. progress[id] # 0
  BY <1>1 DEF Counted
<1>5. waiter[id] \in {"absent", "live", "erased"}
  BY <1>1 DEF IInv, JobsMatchPools, TypeOK
<1>. QED
  BY <1>1, <1>3, <1>4, <1>5 DEF IInv, CallerInv

\* The workers' places in their tasks against the pools.
LEMMA JobsStep == IInv /\ [Next]_vars => JobsMatchPools'
<1> SUFFICES ASSUME IInv, [Next]_vars PROVE JobsMatchPools'
  OBVIOUS
<1> DEFINE Matches(w) ==
             /\ job[w] = "none" <=> worker[w] # "run"
             /\ pc[w] # "out" => job[w] = "acquire" /\ held[w] = {}
             /\ held[w] # {} <=> job[w] \in {"read", "compare", "release"}
             /\ job[w] \notin {"none", "notify"} => waiter[IdOf(current[w])] = "live"
<1>1. \A w \in Workers : Matches(w)
  BY DEF IInv, JobsMatchPools
<1>2. /\ worker \in [Workers -> TP!WorkerStates]
      /\ current \in [Workers -> Chunks \cup {NoChunk}]
      /\ held \in [Workers -> SUBSET BP!Buffers] /\ pc \in [Workers -> BP!States]
      /\ job \in [Workers -> Jobs]
      /\ waiter \in [Ids -> {"absent", "live", "erased"}]
  BY DEF IInv, JobsMatchPools, TypeOK, TP!TypeOK, BP!TypeOK
<1>3. CASE BeginSearch
  <2>1. /\ waiter' = [waiter EXCEPT ![currId + 1] = "live"]
        /\ UNCHANGED <<job, worker, pc, held, current>>
    BY <1>3 DEF BeginSearch, poolVars, bufferVars
  <2>2. \A id : waiter[id] = "live" => waiter'[id] = "live"
    BY <1>2, <2>1
  <2>. QED
    BY <1>1, <2>1, <2>2, TypeStep DEF JobsMatchPools
<1>4. CASE Erase
  <2>1. /\ step = "erase" /\ waiter' = [waiter EXCEPT ![callId] = "erased"]
        /\ UNCHANGED <<job, worker, pc, held, current>>
    BY <1>4 DEF Erase, poolVars, bufferVars
  <2>2. ASSUME NEW w \in Workers, job[w] \notin {"none", "notify"}
        PROVE  waiter'[IdOf(current[w])] = "live"
    <3>1. IdOf(current[w]) # callId
      BY <2>1, <2>2, OutstandingKeepsCounter DEF IInv, CallerInv
    <3>2. IdOf(current[w]) \in Ids /\ waiter[IdOf(current[w])] = "live"
      BY <1>1, <2>2, TaskFacts
    <3>. QED
      BY <1>2, <2>1, <3>1, <3>2
  <2>. QED
    BY <1>1, <2>1, <2>2, TypeStep DEF JobsMatchPools
<1>5. ASSUME NEW w \in Workers, StartChunk(w) PROVE JobsMatchPools'
  <2>1. /\ job[w] = "none" /\ job' = [job EXCEPT ![w] = "acquire"]
        /\ tasks # <<>> /\ current' = [current EXCEPT ![w] = Head(tasks)]
        /\ worker' = [worker EXCEPT ![w] = "run"]
        /\ pc' = [pc EXCEPT ![w] = "check"]
        /\ UNCHANGED <<held, waiter>>
    BY <1>5 DEF StartChunk, JobStep, TP!WorkerTake, BP!AcquireNotice, callerVars
  <2>. QED
    BY <1>1, <1>2, <2>1, QueuedIsLive, TypeStep DEF JobsMatchPools
<1>6. ASSUME NEW w \in Workers, GetBuffer(w) PROVE JobsMatchPools'
  <2>1. /\ job[w] = "acquire" /\ job' = [job EXCEPT ![w] = "read"]
        /\ pc' = [pc EXCEPT ![w] = "out"]
        /\ held' = [held EXCEPT ![w] = @ \cup {free[Len(free)]}]
        /\ UNCHANGED <<worker, current, waiter>>
    BY <1>6 DEF GetBuffer, JobStep, BP!Take, BP!PopTo, callerVars, poolVars
  <2>. QED
    BY <1>1, <1>2, <2>1, TypeStep DEF JobsMatchPools
<1>7. ASSUME NEW w \in Workers, Release(w) PROVE JobsMatchPools'
  <2>1. PICK b \in held[w] : BP!Release(w, b)
    BY <1>7 DEF Release
  <2>2. /\ job[w] = "release" /\ job' = [job EXCEPT ![w] = "countdown"]
        /\ held' = [held EXCEPT ![w] = @ \ {b}]
        /\ pc' = pc \/ \E u \in BP!Blocked : pc' = [pc EXCEPT ![u] = "lock"]
        /\ UNCHANGED <<worker, current, waiter>>
    BY <1>7, <2>1 DEF Release, JobStep, BP!Release, BP!NotifyOne, callerVars, poolVars
  <2>3. held'[w] = {}
    BY <1>2, <2>1, <2>2 DEF IInv, OneBuffer
  <2>4. \A u \in Workers : pc'[u] # "out" => pc[u] # "out"
    BY <1>2, <2>2 DEF BP!Blocked
  <2>. QED
    BY <1>1, <1>2, <2>2, <2>3, <2>4, TypeStep DEF JobsMatchPools
<1>8. ASSUME NEW w \in Workers, NotifyWaiter(w) PROVE JobsMatchPools'
  <2>1. /\ job[w] = "notify" /\ job' = [job EXCEPT ![w] = "none"]
        /\ worker' = [worker EXCEPT ![w] = "lock"]
        /\ current' = [current EXCEPT ![w] = NoChunk]
        /\ UNCHANGED <<held, pc, waiter>>
    BY <1>8 DEF NotifyWaiter, JobStep, TP!WorkerFinish, bufferVars
  <2>. QED
    BY <1>1, <1>2, <2>1, TypeStep DEF JobsMatchPools
<1>9. ASSUME NEW w \in Workers, Read(w) \/ Compare(w) \/ CountDown(w) PROVE JobsMatchPools'
  <2>1. /\ UNCHANGED <<worker, current, held, pc, waiter>>
        /\ \/ job[w] = "read" /\ job' = [job EXCEPT ![w] = "compare"]
           \/ job[w] = "compare" /\ job' = [job EXCEPT ![w] = "release"]
           \/ job[w] = "countdown" /\ job' = [job EXCEPT ![w] = "notify"]
    BY <1>9 DEF Read, Compare, CountDown, JobStep, callerVars, poolVars, bufferVars
  <2>. QED
    BY <1>1, <1>2, <2>1, TypeStep DEF JobsMatchPools
<1>10. ASSUME NEW w \in Workers, AwaitBuffer(w) PROVE JobsMatchPools'
  <2>1. /\ UNCHANGED <<worker, current, held, waiter, job>>
        /\ pc[w] # "out" /\ \E s \in BP!States : pc' = [pc EXCEPT ![w] = s]
    BY <1>10 DEF AwaitBuffer, BP!NoticeBegin, BP!NoticeEnd, BP!Block, BP!SpuriousWake, BP!States,
                 callerVars, poolVars
  <2>. QED
    BY <1>1, <1>2, <2>1, TypeStep DEF JobsMatchPools
<1>11. CASE (\E w \in Workers : AwaitTask(w)) \/ SubmitNotify
  <2>1. /\ UNCHANGED <<current, held, pc, waiter, job>>
        /\ \/ worker' = worker
           \/ \E v \in Workers, s \in {"lock", "blocked"} :
                 worker[v] \in {"lock", "blocked"} /\ worker' = [worker EXCEPT ![v] = s]
    BY <1>11 DEF AwaitTask, SubmitNotify, TP!WorkerBlock, TP!SpuriousWake, TP!SubmitNotify,
                 TP!NotifyOne, TP!Blocked, callerVars, bufferVars
  <2>2. \A v \in Workers : worker'[v] = "run" <=> worker[v] = "run"
    BY <1>2, <2>1
  <2>. QED
    BY <1>1, <1>2, <2>1, <2>2, TypeStep DEF JobsMatchPools
<1>12. CASE \/ CountChunk \/ SubmitChunk \/ EndSearch \/ (\E id \in Ids : BeginWait(id))
            \/ FindDone \/ FindBusy \/ Park \/ SpuriousUnpark \/ UNCHANGED vars
  <2>1. UNCHANGED <<worker, current, held, pc, waiter, job>>
    BY <1>12 DEF CountChunk, SubmitChunk, EndSearch, BeginWait, FindDone, FindBusy, Park,
                 SpuriousUnpark, WaitStep, TP!Submit, TP!Enqueue, TP!Refuse, poolVars,
                 bufferVars, callerVars, vars
  <2>. QED
    BY <1>1, <2>1, TypeStep DEF JobsMatchPools
<1>. QED
  BY <1>3, <1>4, <1>5, <1>6, <1>7, <1>8, <1>9, <1>10, <1>11, <1>12
  DEF Next, SearchStep, WaitAct, TaskStep

\* The buffers in the workers' hands, and what is in them.
LEMMA BuffersStep == IInv /\ [Next]_vars => OneBuffer' /\ ContentInv'
<1> SUFFICES ASSUME IInv, [Next]_vars PROVE OneBuffer' /\ ContentInv'
  OBVIOUS
<1>1. /\ held \in [Workers -> SUBSET BP!Buffers] /\ job \in [Workers -> Jobs]
      /\ content \in [BP!Buffers -> Chunks \cup {NoChunk}]
      /\ current \in [Workers -> Chunks \cup {NoChunk}]
      /\ OneBuffer /\ ContentInv
      /\ \A w \in Workers : held[w] # {} <=> job[w] \in {"read", "compare", "release"}
  BY DEF IInv, JobsMatchPools, TypeOK, TP!TypeOK, BP!TypeOK
<1> USE DEF OneBuffer, ContentInv
<1>2. CASE UNCHANGED <<held, content, current, job>>
  BY <1>1, <1>2
<1>3. ASSUME NEW w \in Workers, Read(w) PROVE OneBuffer' /\ ContentInv'
  <2>1. /\ job[w] = "read" /\ job' = [job EXCEPT ![w] = "compare"]
        /\ content' = IF current[w] \in Unreadable THEN content
                      ELSE [content EXCEPT ![Mine(w)] = current[w]]
        /\ UNCHANGED <<held, current>>
    BY <1>3 DEF Read, JobStep, poolVars, bufferVars
  <2>2. Mine(w) \in held[w]
    BY <1>1, <2>1 DEF Mine
  <2>3. ASSUME NEW v \in Workers, Mine(w) \in held[v] PROVE v = w
    BY <2>2, <2>3 DEF IInv, PoolsInv, BPP!BuffersConserved
  <2>4. ASSUME NEW v \in Workers, NEW b \in held[v],
               job'[v] = "compare", current[v] \notin Unreadable
        PROVE  content'[b] = current[v]
    <3>1. CASE v = w
      <4>1. b = Mine(w) /\ b \in BP!Buffers
        BY <1>1, <2>2, <3>1
      <4>. QED
        BY <1>1, <2>1, <2>4, <3>1, <4>1
    <3>2. CASE v # w
      <4>1. b # Mine(w) /\ job[v] = "compare" /\ b \in BP!Buffers
        BY <1>1, <2>1, <2>3, <2>4, <3>2
      <4>. QED
        BY <1>1, <2>1, <2>4, <4>1
    <3>. QED
      BY <3>1, <3>2
  <2>. QED
    BY <1>1, <2>1, <2>4
<1>4. ASSUME NEW w \in Workers, GetBuffer(w) PROVE OneBuffer' /\ ContentInv'
  <2>1. /\ job[w] = "acquire" /\ job' = [job EXCEPT ![w] = "read"]
        /\ held' = [held EXCEPT ![w] = @ \cup {free[Len(free)]}]
        /\ UNCHANGED <<current, content>>
    BY <1>4 DEF GetBuffer, JobStep, BP!Take, BP!PopTo, scanVars, poolVars
  <2>2. held[w] = {}
    BY <1>1, <2>1
  <2>. QED
    BY <1>1, <2>1, <2>2
<1>5. ASSUME NEW w \in Workers, Release(w) PROVE OneBuffer' /\ ContentInv'
  <2>1. /\ job[w] = "release" /\ job' = [job EXCEPT ![w] = "countdown"]
        /\ \E b \in held[w] : held' = [held EXCEPT ![w] = @ \ {b}]
        /\ UNCHANGED <<current, content>>
    BY <1>5 DEF Release, JobStep, BP!Release, scanVars, poolVars
  <2>. QED
    BY <1>1, <2>1
<1>6. ASSUME NEW w \in Workers, StartChunk(w) \/ NotifyWaiter(w) PROVE OneBuffer' /\ ContentInv'
  <2>1. /\ job[w] \in {"none", "notify"}
        /\ \E c : current' = [current EXCEPT ![w] = c]
        /\ \A v \in Workers : job'[v] = "compare" => job[v] = "compare"
        /\ UNCHANGED <<held, content>>
    BY <1>1, <1>6 DEF StartChunk, NotifyWaiter, JobStep, TP!WorkerTake, TP!WorkerFinish,
                 BP!AcquireNotice, scanVars, bufferVars
  <2>2. held[w] = {}
    BY <1>1, <2>1
  <2>. QED
    BY <1>1, <2>1, <2>2
<1>7. ASSUME NEW w \in Workers, Compare(w) \/ CountDown(w) PROVE OneBuffer' /\ ContentInv'
  <2>1. /\ \A v \in Workers : job'[v] = "compare" => job[v] = "compare"
        /\ UNCHANGED <<current, held, content>>
    BY <1>1, <1>7 DEF Compare, CountDown, JobStep, scanVars, poolVars, bufferVars
  <2>. QED
    BY <1>1, <2>1
<1>8. CASE \/ BeginSearch \/ SearchStep \/ (\E id \in Ids : BeginWait(id)) \/ WaitAct
           \/ SpuriousUnpark \/ UNCHANGED vars
           \/ \E w \in Workers : AwaitTask(w) \/ AwaitBuffer(w)
  <2>1. UNCHANGED <<held, content, current, job>>
    BY <1>8 DEF BeginSearch, SearchStep, CountChunk, SubmitChunk, SubmitNotify, EndSearch,
                BeginWait, WaitAct, FindDone, FindBusy, Park, SpuriousUnpark, WaitStep, Erase,
                AwaitTask, AwaitBuffer, TP!Submit, TP!Enqueue, TP!Refuse, TP!SubmitNotify,
                TP!WorkerBlock, TP!SpuriousWake, BP!NoticeBegin, BP!NoticeEnd, BP!Block,
                BP!SpuriousWake, poolVars, bufferVars, scanVars, vars
  <2>. QED
    BY <1>2, <2>1
<1>. QED
  BY <1>3, <1>4, <1>5, <1>6, <1>7, <1>8 DEF Next, TaskStep

\* What has been scanned, and what has been reported of it.
LEMMA ScanStep ==
  IInv /\ [Next]_vars => ScannedInv' /\ (printed \subseteq scanned)' /\ ReportsExact'
<1> SUFFICES ASSUME IInv, [Next]_vars
             PROVE  ScannedInv' /\ (printed \subseteq scanned)' /\ ReportsExact'
  OBVIOUS
<1> DEFINE Past(c) == \/ fate[c] = "done"
                      \/ \E w \in Workers : /\ current[w] = c
                                            /\ job[w] \in {"release", "countdown", "notify"}
<1>1. /\ job \in [Workers -> Jobs] /\ fate \in [Chunks -> TP!Fates]
      /\ current \in [Workers -> Chunks \cup {NoChunk}]
      /\ scanned \subseteq Chunks /\ printed \subseteq scanned
      /\ \A c \in Chunks : c \in scanned <=> Past(c)
      /\ \A c \in scanned \ Unreadable : c \in printed <=> c \in Matching
  BY DEF IInv, JobsMatchPools, TypeOK, TP!TypeOK, ScannedInv, ReportsExact
<1>2. ASSUME scanned' = scanned, printed' = printed, \A c \in Chunks : Past(c)' <=> Past(c)
      PROVE  ScannedInv' /\ (printed \subseteq scanned)' /\ ReportsExact'
  BY <1>1, <1>2 DEF ScannedInv, ReportsExact
<1>3. ASSUME NEW w \in Workers, Compare(w)
      PROVE  ScannedInv' /\ (printed \subseteq scanned)' /\ ReportsExact'
  <2> DEFINE seen == current[w]
  <2>1. /\ job[w] = "compare" /\ job' = [job EXCEPT ![w] = "release"]
        /\ scanned' = scanned \cup {seen}
        /\ printed' = IF content[Mine(w)] \in Matching THEN printed \cup {seen} ELSE printed
        /\ UNCHANGED <<current, fate>>
    BY <1>3 DEF Compare, JobStep, poolVars
  <2>2. /\ seen \in Chunks /\ fate[seen] = "accepted"
        /\ \A v \in Workers : current[v] = seen => v = w
    BY <2>1, TaskFacts
  <2>3. seen \notin scanned
    BY <1>1, <2>1, <2>2
  <2>4. \A c \in Chunks : Past(c)' <=> Past(c) \/ c = seen
    BY <1>1, <2>1, <2>2
  <2>5. Mine(w) \in held[w]
    BY <2>1 DEF IInv, JobsMatchPools, Mine
  <2>6. seen \notin Unreadable => content[Mine(w)] = seen
    BY <2>1, <2>5 DEF IInv, ContentInv
  <2>7. ScannedInv'
    BY <1>1, <2>1, <2>4 DEF ScannedInv
  <2>. QED
    BY <1>1, <2>1, <2>3, <2>6, <2>7 DEF ReportsExact
<1>4. ASSUME NEW w \in Workers, NotifyWaiter(w)
      PROVE  ScannedInv' /\ (printed \subseteq scanned)' /\ ReportsExact'
  <2>1. /\ job[w] = "notify" /\ job' = [job EXCEPT ![w] = "none"]
        /\ current' = [current EXCEPT ![w] = NoChunk]
        /\ fate' = [fate EXCEPT ![current[w]] = "done"]
        /\ UNCHANGED <<scanned, printed>>
    BY <1>4 DEF NotifyWaiter, JobStep, TP!WorkerFinish, scanVars
  <2>2. current[w] \in Chunks /\ \A v \in Workers : current[v] = current[w] => v = w
    BY <2>1, TaskFacts
  <2>3. \A c \in Chunks : Past(c)' <=> Past(c)
    BY <1>1, <2>1, <2>2, SearchAssumption
  <2>. QED
    BY <1>2, <2>1, <2>3
<1>5. CASE SubmitChunk
  <2>1. /\ fate' = [fate EXCEPT ![NextChunk] = "accepted"]
        /\ UNCHANGED <<current, job, scanned, printed>>
    BY <1>5 DEF SubmitChunk, TP!Submit, TP!Enqueue, TP!Refuse, IInv, PoolsInv, scanVars
  <2>2. fate[NextChunk] = "unsubmitted"
    BY <1>5, NextIsChunk DEF SubmitChunk
  <2>3. \A c \in Chunks : fate'[c] = "done" <=> fate[c] = "done"
    BY <1>1, <2>1, <2>2
  <2>. QED
    BY <1>2, <2>1, <2>3
<1>6. ASSUME NEW w \in Workers, StartChunk(w)
      PROVE  ScannedInv' /\ (printed \subseteq scanned)' /\ ReportsExact'
  <2>1. /\ job[w] = "none" /\ job' = [job EXCEPT ![w] = "acquire"]
        /\ current' = [current EXCEPT ![w] = Head(tasks)]
        /\ UNCHANGED <<fate, scanned, printed>>
    BY <1>6 DEF StartChunk, JobStep, TP!WorkerTake, scanVars
  <2>2. \A c \in Chunks : Past(c)' <=> Past(c)
    BY <1>1, <2>1
  <2>. QED
    BY <1>2, <2>1, <2>2
<1>7. ASSUME NEW w \in Workers, GetBuffer(w) \/ Read(w) \/ Release(w) \/ CountDown(w)
      PROVE  ScannedInv' /\ (printed \subseteq scanned)' /\ ReportsExact'
  <2> DEFINE After == {"release", "countdown", "notify"}
  <2>1. /\ \E j \in Jobs : job' = [job EXCEPT ![w] = j] /\ (j \in After <=> job[w] \in After)
        /\ UNCHANGED <<fate, current, scanned, printed>>
    BY <1>7 DEF GetBuffer, Read, Release, CountDown, JobStep, Jobs, scanVars, poolVars
  <2>2. \A c \in Chunks : Past(c)' <=> Past(c)
    BY <1>1, <2>1
  <2>. QED
    BY <1>2, <2>1, <2>2
<1>8. CASE \/ BeginSearch \/ CountChunk \/ SubmitNotify \/ EndSearch
           \/ (\E id \in Ids : BeginWait(id)) \/ WaitAct \/ SpuriousUnpark \/ UNCHANGED vars
           \/ \E w \in Workers : AwaitTask(w) \/ AwaitBuffer(w)
  <2>1. UNCHANGED <<fate, current, job, scanned, printed>>
    BY <1>8 DEF BeginSearch, CountChunk, SubmitNotify, EndSearch, BeginWait, WaitAct, FindDone,
                FindBusy, Park, SpuriousUnpark, WaitStep, Erase, AwaitTask, AwaitBuffer,
                TP!SubmitNotify, TP!WorkerBlock, TP!SpuriousWake, poolVars, scanVars, vars
  <2>. QED
    BY <1>2, <2>1
<1>. QED
  BY <1>3, <1>4, <1>5, <1>6, <1>7, <1>8 DEF Next, SearchStep, TaskStep

--------------------------------------------------------------------------------
(* The inductive invariant, and what follows *)

\* Before the first search nothing is anywhere.
LEMMA IInvInit == Init => IInv
<1> SUFFICES ASSUME Init PROVE IInv
  OBVIOUS
<1>1. PoolsInv
  BY ThreadPoolInit, BufferPoolInit DEF Init, TP!Init, PoolsInv
<1>2. /\ fate = [c \in Chunks |-> "unsubmitted"] /\ current = [w \in Workers |-> NoChunk]
      /\ worker = [w \in Workers |-> "lock"]
      /\ held = [w \in Workers |-> {}] /\ pc = [w \in Workers |-> "out"]
  BY DEF Init, TP!Init, BP!Init
<1>3. TypeOK
  <2>1. TP!TypeOK /\ BP!TypeOK
    BY <1>1 DEF PoolsInv, TPP!IInv,
                TP!TypeOK, TP!WorkerStates, TP!ClientStates, TP!CloserStates, TP!Fates,
                TPP!TypeOK, TPP!WorkerStates, TPP!ClientStates, TPP!CloserStates, TPP!Fates,
                BP!TypeOK, BP!Buffers, BP!States, BPP!TypeOK, BPP!Buffers, BPP!States
  <2>. QED
    BY <2>1 DEF Init, TypeOK, Steps, Jobs
<1>4. CallerInv
  BY PlanFacts DEF Init, CallerInv
<1>5. SubmittedInv
  <2>1. \A id \in Ids : \A i \in DOMAIN Plan[id] : ~(i <= 0) /\ Plan[id][i] \in Chunks
    BY PlanFacts
  <2>. QED
    BY <1>2, <2>1 DEF Init, SubmittedInv, Submitting
<1>6. JobsMatchPools
  BY <1>2, <1>3 DEF Init, JobsMatchPools
<1>7. CounterIsOutstanding
  <2>1. ASSUME NEW id \in Ids PROVE {c \in Counted(id) : ~CountedDown(c)} = {}
    BY DEF Init, Counted
  <2>. QED
    BY <2>1, FS_EmptySet DEF Init, CounterIsOutstanding
<1>8. OneBuffer /\ ContentInv
  BY <1>2 DEF OneBuffer, ContentInv
<1>9. ScannedInv /\ printed \subseteq scanned /\ ReportsExact
  BY <1>2 DEF Init, ScannedInv, ReportsExact
<1>. QED
  BY <1>1, <1>4, <1>5, <1>6, <1>7, <1>8, <1>9 DEF IInv

LEMMA IInvStep == IInv /\ [Next]_vars => IInv'
<1> SUFFICES ASSUME IInv, [Next]_vars PROVE IInv'
  OBVIOUS
<1>1. PoolsInv' /\ CallerInv' /\ SubmittedInv'
  BY PoolsStep, CallerStep, SubmittedStep
<1>2. JobsMatchPools' /\ CounterIsOutstanding'
  BY JobsStep, CounterStep
<1>3. OneBuffer' /\ ContentInv'
  BY BuffersStep
<1>4. ScannedInv' /\ (printed \subseteq scanned)' /\ ReportsExact'
  BY ScanStep
<1>. QED
  BY <1>1, <1>2, <1>3, <1>4 DEF IInv

LEMMA Inductive == SafeSpec => []IInv
BY IInvInit, IInvStep, PTL DEF SafeSpec

\* The variables of basic_search, of its pools and of its tasks never leave
\* their types; in particular no counter of a waiter goes below 0.
THEOREM TypeCorrect == SafeSpec => []TypeOK
<1>1. IInv => TypeOK
  BY DEF IInv, JobsMatchPools
<1>. QED
  BY <1>1, Inductive, PTL

\* A waiter's counter is, at every moment, the number of its search's chunks
\* that have been counted and not counted down (the fetch_add of search against
\* the fetch_sub of the tasks).
THEOREM CountersExact == SafeSpec => []CounterIsOutstanding
<1>1. IInv => CounterIsOutstanding
  BY DEF IInv
<1>. QED
  BY <1>1, Inductive, PTL

\* Each task runs on one worker, holds one buffer exactly from acquire to
\* release, and finds its waiter until it has counted it down: wait erases no
\* waiter that a task has still to decrement (async_search).
THEOREM TasksAndPoolsAgree == SafeSpec => []JobsMatchPools
<1>1. IInv => JobsMatchPools
  BY DEF IInv
<1>. QED
  BY <1>1, Inductive, PTL

\* No task reports another chunk's bytes as its own, unless its read failed:
\* whatever the number of workers and buffers, nobody writes to a buffer between
\* a task's read and its compare.
THEOREM ReportsAreExact == SafeSpec => []ReportsExact
<1>1. IInv => ReportsExact
  BY DEF IInv
<1>. QED
  BY <1>1, Inductive, PTL

--------------------------------------------------------------------------------
(* Search keeps the promises of SearchService *)

\* What Service is told of the caller.
PhaseOf(id) == CASE waiter[id] = "absent" -> "new"
                 [] waiter[id] = "erased" -> "waited"
                 [] waiter[id] = "live" -> IF step \in {"map", "submit"} /\ callId = id
                                          THEN "searching" ELSE "searched"
Phase == [id \in Ids |-> PhaseOf(id)]

\* When wait erases a waiter, every chunk of its search has been scanned.
LEMMA WaitedIsScanned ==
  ASSUME IInv, step = "erase"
  PROVE  \A i \in DOMAIN Plan[callId] : Plan[callId][i] \in scanned
<1> SUFFICES ASSUME NEW i \in DOMAIN Plan[callId] PROVE Plan[callId][i] \in scanned
  OBVIOUS
<1> DEFINE mine == Plan[callId][i]
<1>1. /\ callId \in Ids /\ counter[callId] = 0
      /\ progress[callId] = Len(Plan[callId])
  BY DEF IInv, CallerInv
<1>2. mine \in Chunks /\ mine \in Counted(callId)
  BY <1>1, PlanFacts DEF Counted
<1>3. CountedDown(mine)
  BY <1>1, <1>2, CounterFacts
<1>. QED
  BY <1>2, <1>3 DEF CountedDown, IInv, ScannedInv

\* Every step is a step of the service or changes nothing it shows.
LEMMA ServiceStep == IInv /\ [Next]_vars => [Service!Next]_(Service!vars)
<1> SUFFICES ASSUME IInv, [Next]_vars PROVE Service!Next \/ UNCHANGED Service!vars
  OBVIOUS
<1> USE DEF PhaseOf, Phase
<1>0. /\ waiter \in [Ids -> {"absent", "live", "erased"}] /\ progress \in [Ids -> Nat]
      /\ Service!Ids = Ids
  BY DEF IInv, JobsMatchPools, TypeOK, Service!Ids, Ids
<1>1. ASSUME UNCHANGED <<progress, scanned>>, Phase' = Phase PROVE UNCHANGED Service!vars
  BY <1>1 DEF Service!vars
<1>2. ASSUME BeginSearch PROVE Service!Next
  <2>0. PICK id \in Ids : id = currId + 1
    BY <1>2 DEF BeginSearch
  <2>1. /\ step = "idle" /\ callId' = id /\ step' = "map"
        /\ waiter' = [waiter EXCEPT ![id] = "live"]
        /\ UNCHANGED <<progress, scanned>>
    BY <1>2, <2>0 DEF BeginSearch, scanVars
  <2>2. Phase[id] = "new"
    BY <2>0, PlanFacts DEF IInv, CallerInv
  <2>3. ASSUME NEW k \in 1 .. id - 1 PROVE Phase[k] \in {"searched", "waited"}
    <3>1. k \in Ids /\ waiter[k] # "absent"
      BY <2>0, PlanFacts DEF IInv, CallerInv
    <3>. QED
      BY <1>0, <2>1, <3>1
  <2>4. Phase' = [Phase EXCEPT ![id] = "searching"]
    BY <1>0, <2>1
  <2>5. Service!Begin(id)
    BY <2>1, <2>2, <2>3, <2>4 DEF Service!Begin
  <2>. QED
    BY <1>0, <2>1, <2>5 DEF Service!Next
<1>3. ASSUME CountChunk PROVE Service!Next
  <2>0. PICK id \in Ids : id = callId
    BY <1>3 DEF CountChunk, IInv, CallerInv
  <2>1. /\ step = "map" /\ step' = "submit" /\ waiter[id] = "live"
        /\ progress[id] < Len(Plan[id])
        /\ progress' = [progress EXCEPT ![id] = @ + 1]
        /\ UNCHANGED <<scanned, waiter, callId>>
    BY <1>3, <2>0 DEF CountChunk, scanVars, IInv, CallerInv
  <2>2. Phase[id] = "searching" /\ Phase' = Phase
    BY <1>0, <2>0, <2>1
  <2>3. Service!Hand(id)
    BY <2>1, <2>2 DEF Service!Hand
  <2>. QED
    BY <1>0, <2>1, <2>3 DEF Service!Next
<1>4. ASSUME EndSearch PROVE Service!Next
  <2>0. PICK id \in Ids : id = callId
    BY <1>4 DEF EndSearch, IInv, CallerInv
  <2>1. /\ step = "map" /\ step' = "idle" /\ waiter[id] = "live"
        /\ progress[id] = Len(Plan[id])
        /\ UNCHANGED <<progress, scanned, waiter, callId>>
    BY <1>4, <2>0 DEF EndSearch, scanVars, IInv, CallerInv
  <2>2. Phase[id] = "searching" /\ Phase' = [Phase EXCEPT ![id] = "searched"]
    BY <1>0, <2>0, <2>1
  <2>3. Service!Return(id)
    BY <2>1, <2>2 DEF Service!Return
  <2>. QED
    BY <1>0, <2>1, <2>3 DEF Service!Next
<1>5. ASSUME Erase PROVE Service!Next
  <2>0. PICK id \in Ids : id = callId
    BY <1>5 DEF Erase, IInv, CallerInv
  <2>1. /\ step = "erase" /\ step' = "idle" /\ waiter[id] = "live"
        /\ waiter' = [waiter EXCEPT ![id] = "erased"]
        /\ UNCHANGED <<progress, scanned, callId>>
    BY <1>5, <2>0 DEF Erase, scanVars, IInv, CallerInv
  <2>2. Phase[id] = "searched" /\ Phase' = [Phase EXCEPT ![id] = "waited"]
    BY <1>0, <2>0, <2>1
  <2>3. Service!Whole(id) \subseteq scanned
    BY <2>0, <2>1, WaitedIsScanned DEF Service!Whole
  <2>4. Service!Wait(id)
    BY <2>1, <2>2, <2>3 DEF Service!Wait
  <2>. QED
    BY <1>0, <2>1, <2>4 DEF Service!Next
<1>6. ASSUME NEW w \in Workers, Compare(w) PROVE Service!Next
  <2> DEFINE seen == current[w]
  <2>1. /\ job[w] = "compare" /\ scanned' = scanned \cup {seen}
        /\ UNCHANGED <<progress, waiter, step, callId>>
    BY <1>6 DEF Compare, JobStep, callerVars
  <2>2. /\ seen \in Chunks /\ fate[seen] = "accepted"
        /\ \A v \in Workers : current[v] = seen => v = w
        /\ IdOf(seen) \in Ids /\ seen \in Counted(IdOf(seen))
    BY <2>1, TaskFacts
  <2>3. seen \notin scanned
    BY <2>1, <2>2 DEF IInv, ScannedInv
  <2>4. PICK id \in Ids : seen \in Service!Handed(id)
    BY <2>2 DEF Counted, Service!Handed
  <2>5. Phase' = Phase
    BY <2>1
  <2>6. Service!Scan(id)
    BY <2>1, <2>3, <2>4, <2>5 DEF Service!Scan
  <2>. QED
    BY <1>0, <2>2, <2>6 DEF Service!Next
<1>7. CASE \/ SubmitChunk \/ SubmitNotify \/ (\E id \in Ids : BeginWait(id)) \/ FindDone \/ FindBusy
           \/ Park \/ SpuriousUnpark \/ UNCHANGED vars
           \/ \E w \in Workers : \/ StartChunk(w) \/ GetBuffer(w) \/ Read(w) \/ Release(w)
                                \/ CountDown(w) \/ NotifyWaiter(w) \/ AwaitTask(w) \/ AwaitBuffer(w)
  <2>1. /\ UNCHANGED <<progress, scanned, waiter>>
        /\ \/ UNCHANGED <<step, callId>>
           \/ UNCHANGED callId /\ step = "submit" /\ step' = "map"
           \/ step \notin {"map", "submit"} /\ step' \notin {"map", "submit"}
    BY <1>7 DEF SubmitChunk, SubmitNotify, BeginWait, FindDone, FindBusy, Park, SpuriousUnpark,
                WaitStep, StartChunk, GetBuffer, Read, Release, CountDown, NotifyWaiter, AwaitTask,
                AwaitBuffer, callerVars, scanVars, vars
  <2>2. Phase' = Phase
    BY <2>1
  <2>. QED
    BY <1>1, <2>1, <2>2
<1>. QED
  BY <1>2, <1>3, <1>4, <1>5, <1>6, <1>7 DEF Next, SearchStep, WaitAct, TaskStep

\* search and wait keep the service's promises: each chunk is scanned at most
\* once, and wait(id) returns only when all of the search has been scanned.
THEOREM SearchImplementsService == SafeSpec => ImplementsService
<1>1. Init => Service!Init
  <2> SUFFICES ASSUME Init PROVE Service!Init
    OBVIOUS
  <2>. QED
    BY DEF Init, Service!Init, Service!Ids, Ids
<1>. QED
  BY <1>1, ServiceStep, Inductive, PTL DEF SafeSpec, ImplementsService, Service!SafeSpec

================================================================================

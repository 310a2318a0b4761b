--------------------------------- MODULE Search ---------------------------------
(***************************************************************************)
(* basic_search over a direct-read memory (p_readwrite): the calling thread *)
(* in search and wait (detail/search/basic_search.hpp), the tasks that      *)
(* async_search submits (detail/search/async_search.hpp), the thread pool   *)
(* that runs them and the buffer pool they share.  One task scans one       *)
(* chunk: acquire a buffer, read the target's memory into it, look for the  *)
(* value, release the buffer, count down the waiter, notify its condition.  *)
(*                                                                         *)
(* The atomic counter and the condition variable of a waiter are separate   *)
(* things: a worker touches both without waiter.mutex, so between wait's    *)
(* test of the predicate and its sleep anything may happen.                 *)
(***************************************************************************)
EXTENDS Naturals, Sequences, FiniteSets

CONSTANTS Workers,      \* the pool's threads
          BufferCount,  \* buffers in the buffer pool
          Caller,       \* the thread that searches and waits
          Chunks,       \* the pieces memory_splitter cuts the ranges into
          NoChunk,
          Plan,         \* Plan[id]: the chunks of the id-th search, in order
          Matching,     \* chunks whose bytes hold the value comp looks for
          Unreadable    \* chunks whose read fails

Ids == DOMAIN Plan
ChunksOf(id) == {Plan[id][i] : i \in DOMAIN Plan[id]}

ASSUME SearchAssumption ==
    /\ Workers # {} /\ IsFiniteSet(Workers)
    /\ BufferCount \in Nat
    /\ NoChunk \notin Chunks
    /\ Plan \in Seq(Seq(Chunks))
    /\ \A id, k \in Ids : \A i \in DOMAIN Plan[id], j \in DOMAIN Plan[k] :
          Plan[id][i] = Plan[k][j] => id = k /\ i = j
    /\ Chunks = UNION {ChunksOf(id) : id \in Ids}
    /\ Matching \cup Unreadable \subseteq Chunks

IdOf(c) == CHOOSE id \in Ids : c \in ChunksOf(id)

VARIABLES tasks, stop, worker, current, client, closer, fate,   \* thread_pool
          free, held, pc,                                       \* buffer_pool
          step,      \* where the caller is
          callId,    \* the search the caller is in, or waits for
          currId,    \* curr_id_
          progress,  \* how many chunks of each search have been counted
          waiter,    \* the entries of wait_conditions_
          counter,   \* their counters
          job,       \* where each worker is in its task
          content,   \* whose bytes each buffer holds
          scanned,   \* the chunks comp has been run for
          printed    \* the chunks at whose address comp reported a match

poolVars == <<tasks, stop, worker, current, client, closer, fate>>
bufferVars == <<free, held, pc>>
callerVars == <<step, callId, currId, progress, waiter>>
scanVars == <<content, scanned, printed>>
vars == <<poolVars, bufferVars, callerVars, counter, job, scanVars>>

TP == INSTANCE ThreadPool WITH Clients <- {Caller}, Closers <- {},
                               Tasks <- Chunks, NoTask <- NoChunk
BP == INSTANCE BufferPool WITH Threads <- Workers, MaxHeld <- 1

Steps == {"idle", "map", "submit", "check", "park", "parked", "erase"}
Jobs == {"none", "acquire", "read", "compare", "release", "countdown", "notify"}

Init == /\ TP!Init
        /\ BP!Init
        /\ step = "idle"
        /\ callId = 0
        /\ currId = 0
        /\ progress = [id \in Ids |-> 0]
        /\ waiter = [id \in Ids |-> "absent"]
        /\ counter = [id \in Ids |-> 0]
        /\ job = [w \in Workers |-> "none"]
        /\ content = [b \in BP!Buffers |-> NoChunk]
        /\ scanned = {}
        /\ printed = {}

--------------------------------------------------------------------------------
(* The caller: search *)

\* create_waiter: the next id gets an entry whose counter is 0.
BeginSearch == /\ step = "idle"
               /\ currId + 1 \in Ids
               /\ currId' = currId + 1
               /\ callId' = currId'
               /\ waiter' = [waiter EXCEPT ![currId'] = "live"]
               /\ counter' = [counter EXCEPT ![currId'] = 0]
               /\ step' = "map"
               /\ UNCHANGED <<poolVars, bufferVars, progress, job, scanVars>>

NextChunk == Plan[callId][progress[callId]]

\* Mutant: the counter is set instead of incremented.
CountChunkOnce == /\ step = "map"
                  /\ client[Caller] = "idle"
                  /\ progress[callId] < Len(Plan[callId])
                  /\ progress' = [progress EXCEPT ![callId] = @ + 1]
                  /\ counter' = [counter EXCEPT ![callId] = 1]
                  /\ step' = "submit"
                  /\ UNCHANGED <<poolVars, bufferVars, callId, currId, waiter, job, scanVars>>

\* The splitter's next chunk: counter.fetch_add, before the task exists.
CountChunk == /\ step = "map"
              /\ client[Caller] = "idle"
              /\ progress[callId] < Len(Plan[callId])
              /\ progress' = [progress EXCEPT ![callId] = @ + 1]
              /\ counter' = [counter EXCEPT ![callId] = @ + 1]
              /\ step' = "submit"
              /\ UNCHANGED <<poolVars, bufferVars, callId, currId, waiter, job, scanVars>>

\* thread.submit; the future it returns is dropped.
SubmitChunk == /\ step = "submit"
               /\ TP!Submit(Caller, NextChunk)
               /\ step' = "map"
               /\ UNCHANGED <<bufferVars, callId, currId, progress, waiter, counter,
                              job, scanVars>>

SubmitNotify == /\ TP!SubmitNotify(Caller)
                /\ UNCHANGED <<bufferVars, callerVars, counter, job, scanVars>>

\* for_each_maps has run out of ranges: search returns the id.
EndSearch == /\ step = "map"
             /\ client[Caller] = "idle"
             /\ progress[callId] = Len(Plan[callId])
             /\ step' = "idle"
             /\ UNCHANGED <<poolVars, bufferVars, callId, currId, progress, waiter, counter,
                            job, scanVars>>

--------------------------------------------------------------------------------
(* The caller: wait *)

WaitStep(from, to) == /\ step = from
                      /\ step' = to
                      /\ UNCHANGED <<poolVars, bufferVars, callId, currId, progress, waiter,
                                     counter, job, scanVars>>

\* wait(id), once for each id search has returned; it locks waiter.mutex.
BeginWait(id) == /\ step = "idle"
                 /\ waiter[id] = "live"
                 /\ callId' = id
                 /\ step' = "check"
                 /\ UNCHANGED <<poolVars, bufferVars, currId, progress, waiter, counter,
                                job, scanVars>>

\* Mutant: the caller goes on while one chunk is outstanding.
FindDoneEarly == WaitStep("check", "erase") /\ counter[callId] <= 1

\* The predicate of cv.wait.
FindDone == WaitStep("check", "erase") /\ counter[callId] = 0
FindBusy == WaitStep("check", "park") /\ counter[callId] # 0

\* cv.wait joins the wait set and releases the mutex.
Park == WaitStep("park", "parked")

SpuriousUnpark == WaitStep("parked", "check")

\* wait_conditions_.erase(id), and wait returns.
Erase == /\ step = "erase"
         /\ waiter' = [waiter EXCEPT ![callId] = "erased"]
         /\ step' = "idle"
         /\ UNCHANGED <<poolVars, bufferVars, callId, currId, progress, counter, job, scanVars>>

--------------------------------------------------------------------------------
(* The workers *)

JobStep(w, from, to) == /\ job[w] = from
                        /\ job' = [job EXCEPT ![w] = to]

\* worker_loop takes a task, whose first act is acquire(notice).
StartChunk(w) == /\ TP!WorkerTake(w)
                 /\ BP!AcquireNotice(w)
                 /\ JobStep(w, "none", "acquire")
                 /\ UNCHANGED <<callerVars, counter, scanVars>>

\* worker_loop finds the queue empty, or is woken for nothing.
AwaitTask(w) == /\ TP!WorkerBlock(w) \/ TP!SpuriousWake(w)
                /\ UNCHANGED <<bufferVars, callerVars, counter, job, scanVars>>

\* acquire runs the notice (flush, which does nothing on a direct-read
\* memory) and waits while the pool is empty.
AwaitBuffer(w) == /\ BP!NoticeBegin(w) \/ BP!NoticeEnd(w) \/ BP!Block(w) \/ BP!SpuriousWake(w)
                  /\ UNCHANGED <<poolVars, callerVars, counter, job, scanVars>>

GetBuffer(w) == /\ BP!Take(w)
                /\ JobStep(w, "acquire", "read")
                /\ UNCHANGED <<poolVars, callerVars, counter, scanVars>>

Mine(w) == CHOOSE b \in held[w] : TRUE

\* Mutant: every task reads into the same buffer.
ReadIntoFirst(w) == /\ JobStep(w, "read", "compare")
                    /\ content' = IF current[w] \in Unreadable THEN content
                                  ELSE [content EXCEPT ![1] = current[w]]
                    /\ UNCHANGED <<poolVars, bufferVars, callerVars, counter, scanned, printed>>

\* mem.read, whose result nobody looks at: after a failed read the buffer
\* still holds what it held.
Read(w) == /\ JobStep(w, "read", "compare")
           /\ content' = IF current[w] \in Unreadable THEN content
                         ELSE [content EXCEPT ![Mine(w)] = current[w]]
           /\ UNCHANGED <<poolVars, bufferVars, callerVars, counter, scanned, printed>>

\* comp looks at the bytes in the buffer and reports the address of the chunk.
Compare(w) == /\ JobStep(w, "compare", "release")
              /\ scanned' = scanned \cup {current[w]}
              /\ printed' = IF content[Mine(w)] \in Matching THEN printed \cup {current[w]}
                            ELSE printed
              /\ UNCHANGED <<poolVars, bufferVars, callerVars, counter, content>>

\* Mutant: the buffer is forgotten instead of released.
ReleaseNothing(w) == /\ JobStep(w, "release", "countdown")
                     /\ UNCHANGED <<poolVars, bufferVars, callerVars, counter, scanVars>>

\* buffer.release.
Release(w) == /\ JobStep(w, "release", "countdown")
              /\ \E b \in held[w] : BP!Release(w, b)
              /\ UNCHANGED <<poolVars, callerVars, counter, scanVars>>

\* counter.fetch_sub, without waiter.mutex.
CountDown(w) == /\ JobStep(w, "countdown", "notify")
                /\ counter' = [counter EXCEPT ![IdOf(current[w])] = @ - 1]
                /\ UNCHANGED <<poolVars, bufferVars, callerVars, scanVars>>

\* cv.notify_one, without waiter.mutex: it wakes the caller only if the caller
\* sleeps on this waiter now.  Then the task is over.
NotifyWaiter(w) == /\ JobStep(w, "notify", "none")
                   /\ step' = IF step = "parked" /\ callId = IdOf(current[w]) THEN "check"
                              ELSE step
                   /\ TP!WorkerFinish(w)
                   /\ UNCHANGED <<bufferVars, callId, currId, progress, waiter, counter,
                                  scanVars>>

--------------------------------------------------------------------------------

SearchStep == CountChunk \/ SubmitChunk \/ SubmitNotify \/ EndSearch
WaitAct == FindDone \/ FindBusy \/ Park \/ Erase
TaskStep(w) == \/ StartChunk(w) \/ GetBuffer(w) \/ Read(w) \/ Compare(w)
               \/ Release(w) \/ CountDown(w) \/ NotifyWaiter(w)

Next == \/ BeginSearch \/ SearchStep
        \/ (\E id \in Ids : BeginWait(id)) \/ WaitAct \/ SpuriousUnpark
        \/ \E w \in Workers : TaskStep(w) \/ AwaitTask(w) \/ AwaitBuffer(w)

\* Every thread that can run is run.  Nobody is owed a call of search or wait,
\* or a spurious wake-up.
Fairness == /\ WF_vars(SearchStep)
            /\ WF_vars(WaitAct)
            /\ \A w \in Workers :
                 /\ WF_vars(TaskStep(w))
                 /\ WF_vars(AwaitBuffer(w) /\ pc[w] # "blocked")

SafeSpec == Init /\ [][Next]_vars
Spec == SafeSpec /\ Fairness

--------------------------------------------------------------------------------
(* Properties *)

TypeOK == /\ TP!TypeOK
          /\ BP!TypeOK
          /\ step \in Steps
          /\ callId \in Ids \cup {0}
          /\ currId \in Ids \cup {0}
          /\ progress \in [Ids -> Nat]
          /\ waiter \in [Ids -> {"absent", "live", "erased"}]
          /\ counter \in [Ids -> Nat]
          /\ job \in [Workers -> Jobs]
          /\ content \in [BP!Buffers -> Chunks \cup {NoChunk}]
          /\ scanned \subseteq Chunks
          /\ printed \subseteq Chunks

\* The counter of a search is the number of its chunks that have been counted
\* and not counted down, wherever they are: about to be submitted, queued, or
\* with a worker (fetch_add before submit, fetch_sub after release).
Counted(id) == {Plan[id][i] : i \in 1 .. progress[id]}
CountedDown(c) == fate[c] = "done" \/ \E w \in Workers : current[w] = c /\ job[w] = "notify"
CounterIsOutstanding ==
    \A id \in Ids : counter[id] = Cardinality({c \in Counted(id) : ~CountedDown(c)})

\* A worker is inside a task exactly while the thread pool runs one, and holds
\* a buffer exactly between acquire and release: so no worker waits for a
\* buffer with one in its hands.  The search of a task keeps its waiter at
\* least until the task has counted it down; the notify_one after that is the
\* one thing that may come to a waiter wait has erased.
JobsMatchPools ==
    /\ TypeOK
    /\ \A w \in Workers :
          /\ job[w] = "none" <=> worker[w] # "run"
          /\ pc[w] # "out" => job[w] = "acquire" /\ held[w] = {}
          /\ held[w] # {} <=> job[w] \in {"read", "compare", "release"}
          /\ job[w] \notin {"none", "notify"} => waiter[IdOf(current[w])] = "live"

\* Where the read worked, what a scan reports is what the chunk holds: no other
\* task's bytes get into a buffer between its read and its compare.
ReportsExact ==
    \A c \in scanned \ Unreadable : c \in printed <=> c \in Matching

\* Every chunk that has been counted is scanned in the end: no wake-up of the
\* thread pool or of the buffer pool is lost, and tasks that hold the last
\* buffers give them back.  (The searches of a plan are finitely many.)
AllScanned == <>[](\A id \in Ids : Counted(id) \subseteq scanned)

\* search keeps the promises of SearchService; above all, wait(id) returns only
\* when all of id has been scanned.
Service == INSTANCE SearchService WITH
    handed <- progress,
    phase <- [id \in Ids |->
                CASE waiter[id] = "absent" -> "new"
                  [] waiter[id] = "erased" -> "waited"
                  [] waiter[id] = "live" ->
                       IF step \in {"map", "submit"} /\ callId = id THEN "searching"
                       ELSE "searched"]
ImplementsService == Service!SafeSpec

(* What the code does not do *)

\* test/pros/test_search.cpp:24 calls search.wait(id) and goes on: a wait
\* returns once its chunks have been scanned.
WaitReturns == step \in {"check", "park", "parked"} ~> step = "idle"
================================================================================

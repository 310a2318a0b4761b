----------------------------- MODULE SearchBatched -----------------------------
(***************************************************************************)
(* basic_search over a vm_readwrite: the tasks of one search share one       *)
(* read_mem<vm_readwrite> (detail/search/read_mem.hpp).  A task does not     *)
(* read its chunk: it appends the chunk and its buffer to the batch, and     *)
(* whoever fills the batch reads and compares all of it.  The task has given *)
(* its buffer back by then, or does so at once.                              *)
(*                                                                         *)
(* The thread pool is the abstract service it was shown to implement; the    *)
(* buffer pool is the real one, because which buffer is handed out next      *)
(* matters here.  There is a buffer for every worker, as by default (32), so *)
(* that acquire never waits and never runs its notice.                       *)
(*                                                                         *)
(* Nothing in read_mem is locked.  Two workers in it at once are a data      *)
(* race; of its outcomes this module has the interleavings of statements.    *)
(***************************************************************************)
EXTENDS Integers, Sequences, FiniteSets, FiniteSetsExt

CONSTANTS Workers,      \* the pool's threads
          BufferCount,  \* buffers in the buffer pool
          RegionCount,  \* region_count, the size of a batch
          Chunks,       \* chunks of the target's memory
          Nothing,      \* no chunk: an idle worker, the bytes of a fresh buffer
          Plans,        \* the sequences of chunks a search may walk
          Unreadable    \* chunks that process_vm_readv cannot read

ASSUME BatchedAssumption ==
    /\ BufferCount \in Nat /\ BufferCount >= Cardinality(Workers)
    /\ RegionCount \in Nat \ {0}
    /\ Nothing \notin Chunks
    /\ \A p \in Plans : p \in Seq(Chunks) /\ \A i, j \in DOMAIN p : p[i] = p[j] => i = j

VARIABLES queue, running, fate, closed, drained,  \* the thread pool's service
          free, held, pc,        \* the buffer pool
          plan,      \* the chunks of this search
          handed,    \* how many of them have been counted and submitted
          counter,   \* the waiter's counter
          task, job, \* each worker's chunk, and where it is in its task
          locals,    \* the batch: buffers
          remotes,   \* the batch: chunks
          currCount, \* curr_count
          content,   \* whose bytes each buffer holds
          compared   \* the comparisons made: at which chunk's address, of whose bytes

poolVars == <<queue, running, fate, closed, drained>>
bufferVars == <<free, held, pc>>
callerVars == <<plan, handed>>
batchVars == <<locals, remotes, currCount>>
vars == <<poolVars, bufferVars, callerVars, counter, task, job, batchVars, content, compared>>

Pool == INSTANCE TaskService WITH Tasks <- Chunks, Capacity <- Cardinality(Workers)
BP == INSTANCE BufferPool WITH Threads <- Workers, MaxHeld <- 1

Jobs == {"none", "acquire", "append", "count", "test", "read", "compare", "reset",
         "release", "countdown"}

Init == /\ Pool!Init
        /\ BP!Init
        /\ plan \in Plans
        /\ handed = 0
        /\ counter = 0
        /\ task = [w \in Workers |-> Nothing]
        /\ job = [w \in Workers |-> "none"]
        /\ locals = <<>> /\ remotes = <<>> /\ currCount = 0
        /\ content = [b \in BP!Buffers |-> Nothing]
        /\ compared = <<>>

\* The splitter's next chunk: the counter is raised, the task submitted.
Submit == /\ handed < Len(plan)
          /\ handed' = handed + 1
          /\ counter' = counter + 1
          /\ Pool!Accept(plan[handed'])
          /\ UNCHANGED <<bufferVars, plan, task, job, batchVars, content, compared>>

JobStep(w, from, to) == /\ job[w] = from
                        /\ job' = [job EXCEPT ![w] = to]

\* A worker takes a task, whose first act is acquire(notice).
Start(w) == /\ JobStep(w, "none", "acquire")
            /\ Pool!Start
            /\ task' = [task EXCEPT ![w] = Head(queue)]
            /\ BP!AcquireNotice(w)
            /\ UNCHANGED <<callerVars, counter, batchVars, content, compared>>

GetBuffer(w) == /\ JobStep(w, "acquire", "append")
                /\ BP!Take(w)
                /\ UNCHANGED <<poolVars, callerVars, counter, task, batchVars, content, compared>>

Mine(w) == CHOOSE b \in held[w] : TRUE

\* read_mem::operator(): both regions are appended.
AppendRegion(w) == /\ JobStep(w, "append", "count")
                   /\ locals' = Append(locals, Mine(w))
                   /\ remotes' = Append(remotes, task[w])
                   /\ UNCHANGED <<poolVars, bufferVars, callerVars, counter, task, currCount,
                                  content, compared>>

CountRegion(w) == /\ JobStep(w, "count", "test")
                  /\ currCount' = currCount + 1
                  /\ UNCHANGED <<poolVars, bufferVars, callerVars, counter, task, locals,
                                 remotes, content, compared>>

Test(w) == /\ JobStep(w, "test", IF currCount = RegionCount THEN "read" ELSE "release")
           /\ UNCHANGED <<poolVars, bufferVars, callerVars, counter, task, batchVars,
                          content, compared>>

\* What flush goes through.  Beyond the end of the vectors, where only a race
\* leads it, nothing is said of what it finds.
Batch == 1 .. Min({currCount, Len(locals), Len(remotes)})

\* One process_vm_readv: it stops at the first chunk that it cannot read, and
\* of two regions with the same buffer the later one stays in it.
ReadInto(b) ==
    LET into == {i \in Batch : locals[i] = b /\ \A j \in 1 .. i : remotes[j] \notin Unreadable}
    IN  IF into = {} THEN content[b] ELSE remotes[Max(into)]

\* Mutant: one region is read, as in the unbatched read_mem.
FlushReadOne(w) == /\ JobStep(w, "read", "compare")
                   /\ content' = IF remotes[1] \in Unreadable THEN content
                                 ELSE [content EXCEPT ![locals[1]] = remotes[1]]
                   /\ UNCHANGED <<poolVars, bufferVars, callerVars, counter, task, batchVars,
                                  compared>>

FlushRead(w) == /\ JobStep(w, "read", "compare")
                /\ content' = [b \in BP!Buffers |-> ReadInto(b)]
                /\ UNCHANGED <<poolVars, bufferVars, callerVars, counter, task, batchVars,
                               compared>>

\* Mutant: the loop leaves the batch's last region out.
CompareButLast(w) == /\ JobStep(w, "compare", "reset")
                     /\ compared' = compared \o
                          [i \in Batch \ {currCount} |-> [at |-> remotes[i], bytes |-> content[locals[i]]]]
                     /\ UNCHANGED <<poolVars, bufferVars, callerVars, counter, task, batchVars,
                                    content>>

FlushCompare(w) == /\ JobStep(w, "compare", "reset")
                   /\ compared' = compared \o
                        [i \in Batch |-> [at |-> remotes[i], bytes |-> content[locals[i]]]]
                   /\ UNCHANGED <<poolVars, bufferVars, callerVars, counter, task, batchVars,
                                  content>>

FlushReset(w) == /\ JobStep(w, "reset", "release")
                 /\ currCount' = 0
                 /\ locals' = <<>>
                 /\ remotes' = <<>>
                 /\ UNCHANGED <<poolVars, bufferVars, callerVars, counter, task, content, compared>>

\* Mutant: the buffer is forgotten.
ReleaseNothing(w) == /\ JobStep(w, "release", "countdown")
                     /\ UNCHANGED <<poolVars, bufferVars, callerVars, counter, task, batchVars,
                                    content, compared>>

\* buffer.release, whether or not the batch still refers to the buffer.
Release(w) == /\ JobStep(w, "release", "countdown")
              /\ \E b \in held[w] : BP!Release(w, b)
              /\ UNCHANGED <<poolVars, callerVars, counter, task, batchVars, content, compared>>

\* counter.fetch_sub and the end of the task.
CountDown(w) == /\ JobStep(w, "countdown", "none")
                /\ counter' = counter - 1
                /\ Pool!Finish(task[w])
                /\ task' = [task EXCEPT ![w] = Nothing]
                /\ UNCHANGED <<bufferVars, callerVars, batchVars, content, compared>>

TaskStep(w) == \/ Start(w) \/ GetBuffer(w) \/ AppendRegion(w) \/ CountRegion(w) \/ Test(w)
               \/ FlushRead(w) \/ FlushCompare(w) \/ FlushReset(w) \/ Release(w) \/ CountDown(w)

Next == Submit \/ \E w \in Workers : TaskStep(w)

\* Every thread that can run is run.
Fairness == WF_vars(Submit) /\ \A w \in Workers : WF_vars(TaskStep(w))
Spec == Init /\ [][Next]_vars /\ Fairness

--------------------------------------------------------------------------------
(* Properties *)

TypeOK == /\ BP!TypeOK
          /\ plan \in Plans
          /\ handed \in 0 .. Len(plan)
          /\ counter \in Nat
          /\ task \in [Workers -> Chunks \cup {Nothing}]
          /\ job \in [Workers -> Jobs]
          /\ locals \in Seq(BP!Buffers) /\ remotes \in Seq(Chunks)
          /\ currCount \in Nat
          /\ content \in [BP!Buffers -> Chunks \cup {Nothing}]
          /\ compared \in Seq([at : Chunks, bytes : Chunks \cup {Nothing}])

\* The assertion of read_mem.hpp:60, assert(curr_count < region_count): the batch
\* has room for one more region whenever a task comes to append one.
BatchHasRoom == \A w \in Workers : job[w] = "append" => currCount < RegionCount

\* With one worker, from the batch's arrays to comp: there is room, each chunk
\* whose task has appended it is either in the batch or has been compared, once,
\* and the chunks are compared in order, by whole batches.  So what is left when
\* the chunks have run out, less than a batch, is never compared.
Appended(c) == fate[c] = "done" \/ \E w \in Workers :
                 task[w] = c /\ job[w] \notin {"acquire", "append"}
Compares(c) == Cardinality({i \in DOMAIN compared : compared[i].at = c})
Pending(c) == Cardinality({i \in DOMAIN remotes : remotes[i] = c})
BatchesWhole ==
    /\ TypeOK /\ BatchHasRoom
    /\ \A c \in Chunks : Compares(c) <= 1
    /\ (\A w \in Workers : job[w] \notin {"compare", "reset"}) =>
          \A c \in Chunks : Compares(c) + Pending(c) = IF Appended(c) THEN 1 ELSE 0
    /\ \A i \in DOMAIN compared : compared[i].at = plan[i]
    /\ Len(compared) % RegionCount = 0

\* With one worker all chunks of a batch have had the same buffer, given back and
\* acquired again before anything was read into it: whichever chunk comp is
\* called for, it is shown the bytes of the last chunk of the same batch that
\* was read, and never, where one was read, those of a batch before.
BatchOf(i) == {j \in DOMAIN compared : (j - 1) \div RegionCount = (i - 1) \div RegionCount}
WasRead(i) == \A j \in BatchOf(i) : j <= i => compared[j].at \notin Unreadable
BytesOfBatch ==
    \A i \in DOMAIN compared :
        LET read == {j \in BatchOf(i) : WasRead(j)}
        IN  read # {} => compared[i].bytes = compared[Max(read)].at

\* wait's counter comes back to 0 once everything has been submitted, whatever
\* has become of the chunks.
CountedDown == <>[](handed = Len(plan) /\ counter = 0)
================================================================================

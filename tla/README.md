# amemory: a verification project

This directory holds TLA+ models of amemory, the C++20 library in this repository
that reads another process's memory on Linux/Android, the TLC configurations that
check them on small instances, and TLAPS proofs about them. Every definition is
translated from the source; `PROJECT.json` gives the file and lines of each (`map`),
the runs, the mutants that show each property can fail, the hazards and the findings.

- [Inventory](#inventory): the system's parts, their state and what is hard about them
- [Modules](#modules): which module models which part, and how
- [Runs](#runs): what is checked, within which bounds
- [Proofs](#proofs): what is proved, along which argument
- [Findings](#findings)
- [Not modelled](#not-modelled) and [Plan](#plan)

Paths below are relative to the repository's root; `A/` stands for `include/amemory/`.

## Inventory

| component | source | state | operations |
|---|---|---|---|
| thread pool | `A/meta/thread_pool.hpp` | queue of tasks, `stop_`, workers, mutex and condition variable | `submit`, `submit_detached`, `shutdown`, `~thread_pool`, `worker_loop` |
| buffer pool | `A/meta/buffer_pool.hpp` | vector of free buffers used as a stack, mutex and condition variable | `acquire()`, `acquire(notice)`, `try_acquire`, `release` |
| search | `A/detail/search/{basic_search,async_search,read_mem}.hpp` | `curr_id_`, `wait_conditions_` (per id: atomic counter, mutex, condition variable), memory type filter | `search`, `wait`, `set_ranges`, the task run for each chunk |
| map walk | `A/detail/search/{basic_search,memory_splitter}.hpp`, `A/meta/memory_t.h` | iterator over maps, position in a map | `for_each_maps`, `forward_bench`, `memory_splitter` |
| reading and writing | `src/read_write.cpp`, `A/detail/mem/*.h` | `p_readwrite::fd_`, pid and path | constructors, copy/move assignment, `read`, `write`, `vm_read`, `_process_vm` |
| pointer manager | `A/detail/mem/pfr/*`, `A/detail/pfr/*`, `A/memory.h` | arrays of local and remote regions, the object tree being filled | `read`, `read_level`, `fill_array`, field counts and offsets |
| parsers | `src/parse_*.cpp`, `A/detail/parse/*`, `A/meta/algorithm_string.hpp` | text and cursor | `next_token`, `get_token`, `next_line`, `parse_line`, `memory_type_parse` |
| maps | `A/maps.h`, `A/detail/impl/maps_impl.hpp` | file buffer, parser shared by all iterators | `load`, `next`, `begin`/`end`, iterator operators |
| package | `A/package.h` | file buffer, parser, key/value map that points into the buffer | `load`, move constructor, `is_app` |
| process scan | `src/src.cpp`, `A/detail/base.h` | `/proc` directory stream | `get_pid_by_name`, `get_all_app_info`, `read_file` |

How they interact. `basic_search` owns a memory (`p_readwrite` or `vm_readwrite`) and a
buffer pool, and shares one static thread pool per pool type (`async_pool::pool`).
`search(...)`, on the caller's thread, makes an id and a waiter, walks the maps, cuts each
into chunks of one buffer and for each chunk increments the waiter's counter and submits a
task. A task acquires a buffer, reads the chunk into it, scans it, releases the buffer,
decrements the counter and notifies the waiter's condition variable. `wait(id)` sleeps on
that condition variable until the counter is 0 and erases the waiter. `maps` feeds
`search` with entries parsed from `/proc/<pid>/maps`; `package` parses
`/proc/<pid>/status`; the pointer manager reads through a memory level by level, on the
caller's thread only.

What is hard, and what makes each part correct:

- **thread pool.** `notify_one` is called after the mutex is released; shutdown races
  submissions and sleeping workers. Correct when no wake-up is lost, each accepted task is
  run exactly once and in order, and shutdown drains the queue and returns.
- **buffer pool.** `acquire(notice)` leaves the mutex in the middle; three ways to acquire
  compete. Correct when a buffer has at most one holder, none leaks, and none lies free
  while everybody who wants one sleeps.
- **search.** The counter and the condition variable of a waiter are touched by workers
  without the waiter's mutex; chunks outnumber buffers; reads fail. Correct when `wait`
  returns, returns only after everything has been scanned, nobody touches a waiter after
  that, and what is reported is what the memory holds.
- **map walk.** Boundaries: empty maps, last chunks, the filter's two special values.
  Correct when the chunks partition exactly the maps that were asked for.
- **batched search.** One batch shared by all workers without a lock, buffers given back
  before the batch is read, a last batch nobody reads. Correct when each chunk is compared
  once, with its own bytes, before the search counts as done.
- **reading and writing.** Descriptors under copies, moves and failing opens, while pids and
  descriptor numbers are given out again. Correct when each descriptor has one owner and an
  object keeps to one process. Vectored reads stop at the first region that faults, and
  nobody looks at their result. Correct when a failure costs no more than its batch.
- **pointer manager.** Two computations (a count over types and a walk over values) must
  agree on the size of an array; the target writes between the levels, regions fault and
  leave what an earlier call has read. Correct when the arrays suffice and the object is one
  tree.
- **parsers, maps, package.** Text cut anywhere, a cursor that can leave it, state shared
  between iterators, views into a buffer that moves and is reused. Correct when entries are
  the lines of the file, up to the one that was cut, whatever the client has called before.
- **process scan.** Processes end, start and rename themselves while `/proc` is read, and
  pids are given out again. Correct when what is returned had the name, and nothing that had
  it all the time is missed.

## Modules

A component's module has its state as VARIABLES, one action per critical section, and its
properties at the end. Operators whose comment starts with "Mutant:" are wrong variants of
the definition that follows them, used to show that a property can fail.

### `TaskService`, `ThreadPool`, `ThreadPoolProofs`, `MCThreadPool`

`TaskService` is the abstract FIFO service: accept, refuse, start (at most `Capacity` at a
time, oldest first), finish, close, drain. `ThreadPool` models `thread_pool`. A critical
section of `mutex_` is one action (`Enqueue`, `Refuse`, `ShutdownBegin`, `WorkerTake`,
`WorkerBlock`, `WorkerExit`); what happens outside it is an action of its own
(`SubmitNotify`, `ShutdownNotify`, `ShutdownReturn`, `WorkerFinish`), so every
interleaving the mutex allows is explored.

| variable | code |
|---|---|
| `tasks`, `stop` | `tasks_`, `stop_` |
| `worker[w]` | where a worker is: `"lock"` about to take the mutex and test the predicate, `"blocked"` in the wait set of `cv_`, `"run"` in `task()`, `"exited"` |
| `current[w]` | the local `task` |
| `client[c]`, `closer[s]` | where a thread is in `submit`/`submit_detached` and in `shutdown` (the destructor calls it) |
| `fate[t]` | the task's future: accepted, refused by an exception (`submit`) or silently (`submit_detached`), done |

The condition variable is a set of blocked threads; `notify_one` wakes one of them, or
nobody when there is none; a wake-up without a notification (`SpuriousWake`) is always
possible. Left out: a detached task that throws (the program ends), and a task that calls
`shutdown` on its own pool (it would join itself).

### `BufferService`, `BufferPool`, `BufferPoolProofs`, `MCBufferPool`

`BufferService` promises exclusive buffers and that, while a buffer is free and somebody
waits, somebody gets one. `BufferPool` models `buffer_pool`: `free` is the vector (its end
is the top of the stack), `held` what each thread holds, `pc` where it is in `acquire`.
`acquire(notice)` is `AcquireNotice`, then either `Take` or `NoticeBegin`, `NoticeEnd` and
the loop of `condition.wait` (`Take`, `Block`). A thread whose notice runs may release:
that is what the notice is for. A failed `try_acquire` changes nothing and has no action.
`MaxHeld` bounds how many buffers a caller holds; the code does not bound it.

### `SearchService`, `Search`, `SearchProofs`, `MCSearch`

`Search` composes `TP == INSTANCE ThreadPool` (one client, nobody shuts the static pool
down while a search runs) and `BP == INSTANCE BufferPool` (the workers, each holding at
most one buffer, which `JobsMatchPools` confirms) with the caller and the task.

| variable | code |
|---|---|
| `step`, `callId` | where the caller is in `search` or `wait`, and for which id |
| `currId`, `waiter`, `counter` | `curr_id_`, the entries of `wait_conditions_` (absent, live, erased), their counters |
| `progress[id]` | how many chunks of the search the splitter has handed to the callback |
| `job[w]` | where a worker is in the lambda of `async_search` |
| `content[b]` | the chunk whose bytes a buffer holds; `NoChunk` is the zeroed buffer |
| `scanned`, `printed` | the chunks `comp` has been run for, and those at whose address it reported a match |

Chunks are abstract: `Plan` gives the chunks of each search in order (what `MapWalk` hands
out), `Matching` those that hold the value `comp` looks for, `Unreadable` those whose read
fails. A failed read leaves the buffer as it was, because `read_mem` drops the result.
`wait`'s test of the predicate (`FindBusy`) and its sleep (`Park`) are two actions: the
waiter's mutex is held in between, but workers do not take it. `NotifyWaiter` is the
`notify_one` and the end of the task. `wait` is called once per id.

Two remarks on the code. `*rm(addr, buf.get(), size)` (`async_search.hpp:177`) does not
compile as written; it is read as `(*rm)(...)`. The value and the callback given to
`search` reach `async_search` and are not used there.

`JobsMatchPools` ties the three state machines together: a worker is in a task exactly while
the thread pool says that it runs one, holds a buffer exactly between `acquire` and
`release`, sleeps in the buffer pool only inside `acquire`, and, until the decrement, works
for a search whose waiter is still there. From it follows that nobody waits for a buffer
while holding one, which is why the pools cannot lock each other up (`AllScanned`).

`SearchService` states what the caller relies on: ids in order, every chunk scanned at
most once and only after it was handed out, and `wait` returning only for a search that
has been scanned completely. That `wait` returns at all is not promised there, because the
code does not keep it (see Findings).

### `MapWalk`, `MapWalkProofs`, `MCMapWalk`

One state machine for `for_each_maps`, `forward_bench` and `memory_splitter`: `index` is
the iterator, `cur` the splitter's position, `handed` the chunks handed to the callback.
The filter is `EMPTY`, `UNKNOWN` or a mask, a mask being a set of types. Lists of maps and
filters are chosen in `Init`, so one run and one proof cover all of them. A pair of raw
addresses (the other overload) is a list of one map under `UNKNOWN`. `WordsAt` is `comp`'s
loop over a chunk.

### `SearchBatched`, `SearchBatchedProofs`, `MCSearchBatched`

The search over a `vm_readwrite`: `read_mem<vm_readwrite>` appends a chunk and its buffer to
a batch and reads and compares `region_count` of them at once. The thread pool is
`TaskService`, which `ThreadPool` was shown to implement; the buffer pool is the real one,
since which buffer comes next decides what goes wrong. Each statement of `operator()` and
`flush` on shared state is an action, so two workers in them interleave.

| variable | code |
|---|---|
| `plan`, `handed`, `counter` | the chunks of one `async_search`, how many are submitted, the waiter's counter |
| `task[w]`, `job[w]` | the chunk a worker has, and where it is in the lambda, `operator()` or `flush` |
| `locals`, `remotes`, `currCount` | the members of `read_mem`: which buffers, which chunks, `curr_count` |
| `content[b]`, `compared` | whose bytes a buffer holds, the calls of `cmp` in order: at which address, of whose bytes |

With more than one worker the accesses are a data race; of its outcomes the module has the
interleavings of statements only, which suffice for the finding. The passing run has one
worker (a `thread_pool` of one thread, which its constructor allows). `BatchesWhole` says
which chunks are compared, when, and which are left over; `BytesOfBatch` with whose bytes.

### `PReadWrite`, `ProcessProofs`, `MCPReadWrite`

The life of `p_readwrite` objects: construction, copy and move construction, copy and move
assignment (to itself too), destruction, in any order, on any of the `Objects`.

| variable | code |
|---|---|
| `pid[o]`, `fd[o]` | `pid_` (and with it `path_`) and `fd_`; `NoPid` where there is no object |
| `table` | the descriptor table of the program: free, another part's file, or the process whose memory it is |
| `running`, `pidOf`, `started` | which process each pid belongs to now, and had |

The kernel hands out the lowest free descriptor, gives pids out again, and may refuse an
open. `Reaches(o)` is the process whose memory `pread64` and `pwrite64` get to, or none: without
a descriptor, or when the process has ended. An object that reaches none never reaches one
again unless it is assigned to (`KeepsToProcess`): a pid or a descriptor number that is given
out again cannot bring it to another process, as it would if a copy shared its original's
descriptor (the mutant).

### `PointerTree`, `PointerTreeProofs`, `MCPointerTree`

`manager::read` for a set of structs given as a constant. What the templates compute from
types are operators on `Struct`: `Offsets` (`get_offset`), `Depth` (`max_pointer_depth`),
`PointersOf` (`pointer_list_t`), `MaxFieldCount`, `Validated` (`layout_validator`). A node of
the tree of a type is the path of pointer fields to it.

| variable | code |
|---|---|
| `object` | the words of every field of the local tree, pointers included; calls read into it again |
| `level`, `regions`, `next` | the level of `read_level`, what `fill_array` has filled, the region that `_process_vm` is at |
| `mem` | the target's memory, which the target changes between any two regions |
| `source`, `quiet` | history: where a field was read from in this call; the target has not written |

`_process_vm` hands the regions to the kernel in calls of `UIO_MAXIOV`: first
`processes = count / UIO_MAXIOV` full ones, then one with the rest; `CallEnd` is where the call
that a region belongs to ends. `Copy` is one region of a call. `Fault` is a region that cannot
be read: the call stops there, nobody looks at its result, and the next call is made.
`FailureContained` says what a fault costs; a null pointer is one.

The arrays have `Capacity` places, `max_field_count_v` of the root's type, and `fill_array`
writes to them without looking at their size. `RegionsCounted` compares the two computations
that must agree on it, the count over types and the walk that fills the arrays: the walk has
one region more for each pointer to a scalar, so the arrays are overrun exactly where a level
has more of these than free places. What the program does then is undefined, and the model
ends there: `Copy`, `Fault` and `Descend` need `Fits`, and the other properties speak of levels
that fit. The run's `top` overruns its arrays (four regions, three places), the other roots do
not, though `data1` has a pointer to a scalar too.

`Coherent` says what a moving target leaves true: a struct's members come from where the
pointer that is now in the object leads. `Layout` is the layout the struct describes, which
`Offsets` is compared with: they differ for plain members that a struct begins with, from the
second on, by the size of the first (`Shift`). Only roots are validated, so the types behind
pointers may have such members, as the run's `leaf` does. `Coherent` and `ReadsTree` say of
each field where it is read (`ReadAt`): a misplaced one `Shift` below where it lies, every
other one where the struct says.

### `LineParser`, `Maps`, `ProcFileProofs`, `MCMaps`

`LineParser` has no state: it is `parse_base`'s cursor and the grammars of
`parse_maps::parse_line` and `parse_status::parse_line` as functions of a text and a
position. A text is a sequence of symbols, each standing for one character or for several
that no cut need tell apart. A `substr` that would throw is `throws`, and since all callers
are `noexcept` it ends the program.

`Maps` is `basic_maps` over `maps_impl`: `text` is what the parser views, `buffer` the bytes
behind it (a later load leaves the tail of an earlier one), `pos` the cursor, `got` the
entries handed out. `Load` cuts the file anywhere. A client runs loops over `begin()` and
`end()` (`BeginLoop`, `Test`, `Dereference`, `Increment`) and calls `next()` in between. A
loop that is left with `break`, nested loops and two dereferences of one position are left
out: they hand out entries that are no lines, as the shared cursor makes plain.

### `MemoryType`

No state: `memory_type_parse` as a list of rules in the code's order, over the number of an
entry's permissions, the four bytes its tests look at, and its path as a sequence of
keywords. `Maps` asks for the type of every entry it hands out (`ToMemoryType`), so that
`TypesFitLines` goes from the text of the file to the type the search filters by, through the
views and whatever an earlier load has left behind a text that was cut.

### `Package`, `ProcFileProofs`, `MCPackage`

`basic_package`: several objects that are constructed, loaded (any prefix of a file that
fits the buffer), indexed with `operator[]`, moved and destroyed. `pkg[o].map` is
`data_map_`, whose values are numbers or views of `pkg[o].buffer`. A uid is printed without
leading zeros, so `uid >= 10000` is its number of digits. `IsApp` is `is_app` with the
outcome of going through `/data/user`, or of failing to. A name that begins with a colon
leaves an empty package name, whose path is that of the directory itself and exists: `Found`
says so, and `AppMeansApp` counts such a process of an app's uid as an app's. `first`,
`loads` and `asked` are history, for the properties. The module's names differ from those of
`Maps` (`StatusText`, `LoadStatus`, `PackageNext`, ...) because one module proves about both.

### `ProcScan`, `ProcessProofs`, `MCProcScan`

`get_pid_by_name` and `get_all_app_info` as one walk: `ahead` is what `readdir` has read and
not handed out, `at` the entry, `file` the descriptor (open on a live process or on one that
has ended, of which nothing can be read), `name` what was read. `Becomes` is everything
other processes do. `steady`, `named` and `refused` are history, for the properties.
`TestApp` is `is_app`, which `Package` models in detail: here the name decides, and the program
may end instead of going on (`"terminated"`), since `is_app` is `noexcept` and the walk through
`/data/user` in it may throw. `get_pid_by_name`'s name may be cut by its buffer, and `get_all_app_info`'s by the kernel
(15 characters): names here are what these files hold.

## Runs

| run | bounds | shows |
|---|---|---|
| `thread_pool` | 3 workers, 2 clients, 2 closers, 3 tasks | no lost wake-up, tasks conserved, shutdown drains and terminates, `TaskService` implemented with its liveness |
| `buffer_pool` | 4 threads, 3 buffers, up to 2 held | buffers conserved, none stranded, `BufferService` implemented with its liveness |
| `search` | 3 workers, 2 buffers, searches of 2 chunks and of 1 | exact counters, the pools and the tasks agree, exact reports, `SearchService` implemented, every chunk scanned |
| `search_lost_wakeup` | 2 workers, 2 buffers, one search of 3 chunks | the finding |
| `map_walk` | lists of up to two maps of 0 to 5 pages, 2 types, all filters, buffers of 2 pages | the chunks partition the selected maps, each word is scanned once |
| `search_batched` | 1 worker, 2 buffers, batches of 2, every order of up to 5 chunks | chunks are compared once, in order, by whole batches; with whose bytes; the counter comes back to 0 |
| `search_batched_assert` | 2 workers, one plan of 3 chunks | the finding |
| `p_readwrite` | 3 objects, 2 pids, 3 descriptors, 3 processes | one owner per descriptor; one process per object, or none and then none for ever |
| `pointer_tree` | 4 root types, up to 3 levels deep, 20 words of memory, calls of 2 regions, 2 reads into one object, 2 writes | how many regions there are and when they overrun their arrays; where they do not: the object is one tree, and the target's when that is at rest, but for misplaced members; what a fault costs |
| `maps` | files of 0, 1 and 3 lines, every keyword and pairs of them under 5 permissions, cut at every symbol, 2 loads | entries are lines, none is missed, the cursor stays in the text, types fit permissions |
| `package_loads` | 2 objects, 2 loads, 5 files, every cut, a buffer smaller than one file | values are the file's, numbers stay, `is_app` means an app |
| `proc_scan` | 3 pids, 3 names | nothing wrong is returned, nothing missed, files closed, the scan returns or the program ends |

The type invariants of `ThreadPool`, `BufferPool`, `MapWalk`, `PReadWrite` and `ProcScan`
are proved, and not run; those of the other modules are the first conjunct of an invariant
that is run, and proved with it (`JobsMatchPools`, `BatchesWhole`, `Coherent`,
`EntriesAreLines`, `ValuesAreFile`).

Why the bounds are enough. In the concurrent modules a lost wake-up needs one sleeper, one
notifier and one thread that barges in; the pools have more workers than that, as many tasks
as workers, and both a shutdown that joins and one that returns early. In `search` there are
fewer buffers than workers, so a task waits for one and runs its notice. The second search
starts while tasks of the first may be queued, and the unreadable chunk can follow the
matching one in the same buffer. With buffers of two pages the maps include empty ones, ones
the buffers divide evenly and ones they do not. In the batched search the plans have no chunk,
fewer than a batch, whole batches, and one and a bit; the chunk that cannot be read stands
anywhere in them; two buffers suffice for one to be in a batch twice. Three objects let a
third be moved to or assigned while two are related, three descriptors run out, and the third
process gets a pid that another has had. The types of `pointer_tree` are those of the
repository's own read test, one that leads to one type twice, one that is widest two levels
down and leads to a struct that begins with plain members, and one whose pointer to a scalar
overruns the arrays; with calls of two regions there
are levels of less than a call, of full ones, and of full ones and a rest; two reads let the
second find stale pointers, and two writes move a pointer and move it back. Three lines are a
first, a middle and a last one; the cut is after every symbol, and what the first load leaves
behind the second's text are permissions. A rule of `memory_type_parse` looks for its keywords
one at a time, so pairs show what their order does. Three pids let one be read ahead, one be
looked at and one change.

The proofs below have no bounds at all. Symmetry is
used in `p_readwrite` and `package_loads` only, which check no liveness, and over sets whose
elements the specification never tells apart. `CHECK_DEADLOCK FALSE` is set where the system may stop: a pool that has been shut
down, callers with nothing left to call, callers that hold buffers and ask for more
(`MaxHeld = 2`), a walk that has ended, a search that is over, calls or loads that are used
up, a program that has ended.

Fairness. Weak fairness of each thread's own steps: the operating system runs every thread
that can run, a mutex that is free is obtained, a task's body and a notice return. It is
not assumed that anybody calls `submit`, `shutdown`, `search` or `wait`, that a holder of a
buffer outside `Search` releases it, that a spurious wake-up ever happens, or that a
particular waiter wins a race (strong fairness). `SearchBatched` has weak fairness of the
caller and of each worker, `ProcScan` of the scanning program and none of the other
processes: its scan ends because `readdir` only goes on to higher pids.

## Proofs

The eight `*Proofs` modules are checked by TLAPS for all values of the constants that
satisfy the named assumptions:

| module | assumptions |
|---|---|
| `ThreadPool`, `BufferPool` | finitely many threads, a pool of at least one worker (the constructor turns 0 into 1), a task value that stands for none |
| `Search` | those of its pools; a chunk belongs to one search and stands in its plan once |
| `SearchBatched` | as many buffers as workers (there are 32 by default), batches that are not empty, plans without repetition. The theorems are about one worker (`OneWorker`): with more, the finding `search_batched_assert` is what there is to say |
| `MapWalk` | a buffer of whole pages, at least one, as the constructors of `basic_search` assert; maps of whole pages, pages of whole words |
| `PReadWrite` | a `NoPid` that is no pid |
| `Maps` | blanks and line feeds are neither letters nor digits (`SeparatorsAreNeither`, also of `Package`), the dash is a letter; files are finite sequences of mappings as the kernel prints them (`IsMapping`): addresses of digits, four permissions, three words, a path that does not begin with a blank and may be empty (`FilesAreMappings`) |
| `Package` | the colon is a letter; files are finite sequences of lines of a key and words that are not empty, maybe with a blank behind them (`FilesAreStatuses`). Of `AppsAreApps` only: no key is printed twice, the name comes before the uid, the uid's words are numbers, and the directories' names have no colon (`NameBeforeUid`, as the kernel and Android have it; the other two theorems do not need it) |
| `ProcScan` | positive pids, app names among the names but not that of kernel threads |
| `PointerTree` | calls of at least one region; cells that hold numbers; members of one of the three kinds, with declared offsets that are numbers (`MembersHaveKinds`); root types that are validated aggregates and whose pointers do not lead back to them (`RootsAreDeep`: the templates would not terminate). Nothing is assumed of the types behind pointers: misplaced members are allowed, and levels that overrun the arrays, of which the theorems say what is true until then |

- **`ThreadPoolProofs`.** `TypeCorrect`. `NoLostWakeup`: `WakeupsCoverQueue` is inductive
  with the types: a push adds a pending notification, a notification turns into an awake
  worker or finds nobody asleep, and an awake worker either takes a task or sleeps only
  when the queue is empty. `ExactlyOnce` and `DrainedAtShutdown` need the invariant
  strengthened (`IInv`): a worker holds a task exactly while it runs one
  (`HoldsWhileRunning`), and a worker that has left has left a stopped, empty pool, which
  stays empty because nothing is accepted any more (`ExitedIsDrained`).
  `PoolImplementsService`: under `IInv` every step maps to a step of `TaskService` or
  changes nothing it sees; that starting a task respects `Capacity` follows because the
  running tasks are the image of the workers that hold one (`RoomToStart`).
- **`BufferPoolProofs`.** `TypeCorrect`; `NoneStranded`, whose argument is that of
  `NoLostWakeup` with the notification inside the critical section; `Exclusive`, from what
  a pop and a push do to the vector (`PopConserves`, `ReleaseConserves`);
  `PoolImplementsService`.
- **`MapWalkProofs`.** `TypeCorrect`, `EveryChunkFits`, `NoByteTwice`, `NoByteMissed`, from
  one inductive invariant: the chunks handed out so far lie behind the splitter, which is
  inside a map that was asked for (`Behind`). `EveryWordOnce` needs, besides, that
  everything the splitter cuts starts and ends at a word (`Aligned`), which follows from
  maps and buffers being whole pages; the remainders are put into lemmas about multiples
  (`MultiplesAdd`, `NextMultiple`).
- **`SearchProofs`.** The pools' own invariants carry over: a step of `Search` is a step of
  each pool or leaves it alone (`ThreadPoolStep`, `BufferPoolStep`), so `IInvStep` of
  `ThreadPoolProofs` and `ReleaseConserves` and its like of `BufferPoolProofs` hold here, once
  the constants that `Search` gives the pools are shown to be ones they allow
  (`PoolConstants`). On top of them `IInv` says how far the caller is in each search
  (`CallerInv`), that a chunk has been submitted exactly if it has been counted, but for the
  one about to be (`SubmittedInv`), that a task in the middle has one buffer and, after its
  read, its own chunk's bytes in it (`OneBuffer`, `ContentInv`), and that a chunk is scanned by
  the task that holds it or has finished (`ScannedInv`). `CountersExact` is the hard part:
  the counter is the cardinality of a set of which every step adds, removes or moves one
  chunk. That `wait` does not return early (`SearchImplementsService`) follows from it: a
  counter of 0 behind a finished caller leaves no chunk that is not scanned
  (`WaitedIsScanned`).
- **`SearchBatchedProofs`.** With one worker the tasks are a sequential program, and `IInv` says
  how far it is in the plan: what is compared, what is in the batch, and what is coming are
  the plan in order (`BatchInv`, `PoolInv`), and the one buffer in use is always the same, the
  top of the stack (`TopInv`), which is why a batch is compared with the bytes of the last
  of its chunks that was read (`ContentInv`, `BatchBytes`).
- **`PointerTreeProofs`.** The first half is about the trees: what the recursive functions over
  types, paths and levels give (`OffsetsAre`, `PointersAre`, `TypeIs`, `LevelsAre`), that
  concatenating the children of a level lists every node once and below its parent
  (`FlattenPlaces`, `ParentsAre`), and that a level's regions are the fields of its nodes,
  each once, in order (`RegionsOf`, `LevelRegions`). By how much the templates' offsets miss the
  declared layout is an induction over a struct's members (`ShiftedLayout`); declared members,
  and so pointers, are read from where they lie (`DeclaredLies`), and a misplaced member from
  words that other members occupy (`ReadsMembers`), so that it can be read where they can
  (`ReadWithin`). The second half is the walk: no field of a later level
  or region has been read in this call (`UnreadInv`), what has been read of this level is
  what its system calls have reached (`BatchInv`, by way of quotients by `UIO_MAXIOV` and
  `CallEnds`), and each region's address is the pointer now in the object
  plus the field's offset (`BasedInv`). A pointer is not overwritten below it, since its
  region belongs to an earlier level (`AddrKept`). `WholeTreeRead` adds that nothing faults
  where everything can be read and that, level by level, what has been brought is what the
  target holds (`ExactInv`). `RegionsFitCount` compares the count over the types with the walk
  over the nodes by moving one level at a time from one to the other: what `k` levels of
  nodes hold `n - k` levels below them is the same for every `k` (`LevelStep`, by the sum of
  a concatenation, `SumFlatten`), for `k = 0` it is the count (`LevelCountIs`) and for `k = n`
  the fields of the level's nodes (`LevelTotal`); the regions are one for each of these, and one
  for each scalar (`FillLevelCount`, `CountInv`).
- **`ProcessProofs`**, of `PReadWrite`. `OneOwner` is inductive with the types, given what destroying,
  opening and taking over do to the table (`DestroyedTable`, `OpenedOwned`, `TakenOver`,
  `Dropped`): a number that open returns was free, so no object holds it. `OneProcess` and
  `OnlyMoves` are action properties from the same invariant: a step leaves an object it does
  not assign to with its descriptor or without one (`LeftAlone`), and gives none to an object
  that has none (`NoneTaken`). The invariant also says that a running process has the pid it
  was started under (`PidsKept`) and that descriptors stand for processes that have been
  started (`TableStarted`), so that a new process is none that a descriptor stands for: what has
  ended never runs again (`EndedStays`, for `OneProcess`), and no old one's pid changes
  (`PidsStay`, for `OnlyMoves`).
- **`ProcessProofs`**, of `ProcScan`. One inductive invariant for all five properties. Who has a wanted
  name has been seen to have it (`Seen`); the pids found lie behind the entry, those read
  ahead before it (`EntriesInOrder`); a process that has had the name all the time is still to come,
  is being looked at, or has been found or refused (`Accounted`).
- **`ProcFileProofs`**, of `Maps`. The lemmas climb from the cursor to the file. `Past` goes over a run
  of accepted symbols and stops behind it (`PastRuns`); so a word that lies in a text behind a
  blank is the token read there (`TokenIs`), a line whose columns lie in a text is parsed into
  these columns (`ParseLine`), and a file's text has the n-th line's columns where the lines
  before it end (`FileLaid`, `WholeLine`), so that a whole line is parsed into its entry and
  leaves the cursor at the next (`EntryParsed`). Of the line that was cut, the parse throws only
  if its dash is missing, goes to the end of the text, and has no path if it has not four
  permissions (`ParseAnything`, `CutLine`, `OneMoreLine`). The inductive invariant (`IInv`)
  then says that the text is a prefix of the file's and of the buffer, that the entries are
  those of the first lines in order and at most one of the cut line (`GotOK`), and that the cursor is at the start of the line
  after the last entry, or at the line feed before it while a loop's body runs, or at the end
  (`CursorOK`). `TypesAgree` adds that what the four bytes say depends on the buffer only behind
  its end (`Seen`) and that a rule's type says what the rule has tested (`TypeFits`).
- **`ProcFileProofs`**, of `Package`. The two loops of a load, over the tokens of a line and over
  the lines of the text, are recursions towards the end of the text, which exist because every
  turn moves the cursor (`Forward`, `ChainExists`, `TokenMoves`, `StatusMoves`). A line that
  lies whole in the text has its words and its line feed where their lengths say (`EntryLaid`),
  so the token behind its i-th blank is its i-th value (`ValueToken`), the inner loop returns
  just its values (`LineTokens`), and the outer one goes on with the next line (`LineRead`). So
  load reads the lines that came whole, and one more if a rest is left (`LinesRead`), which
  has the key of the cut line, and a first value no longer than that line's, if it has a value
  at all (`CutRead`). `Emplaced` says what `emplace` makes of these lines. The inductive
  invariant (`PackageInv`) relates the map to the history: a package that has loaded something
  has in its map what the first load would have put into an empty one, but for the keys that
  `operator[]` put in before (`KeptIn`), and after one load its buffer is still the text of
  that load, wherever it has moved to, and a remembered answer is the one for that text
  (`LoadedOnce`). A second load destroys the last two and keeps the first, which is why
  `NumbersStay` holds for any number of loads and `ValuesAreFile` and `AppMeansApp` are about
  one. `AppsAreApps` then needs that a value in the map is a line's or a part of the cut one's
  (`ValueHasLine`): a uid cut short has fewer digits, and says no; a name that was cut is the
  last line read, and has no uid behind it.

Recursive functions are unfolded by lemmas that the library's fixed points give (`Recursion`),
and inductions are stated over sets of numbers (`UpTo`, from the well-foundedness of the
naturals), as the induction theorems that take a predicate are outside this prover.

Model-checked only: the liveness properties (`ShutdownTerminates`, `AllScanned`, `WalkEnds`,
`CountedDown`, `ScanEnds`, and the fairness half of the refinements: liveness is outside this
prover), and `SearchBatched` with more than one worker.

## Findings

Each is a run that TLC ends with a counterexample.

- `search_lost_wakeup`: `wait` may sleep for ever although everything has been scanned. A
  task decrements the counter and notifies without the waiter's mutex
  (`async_search.hpp:179-180`); both can fall after `wait` has found the counter positive
  and before it sleeps.
- `search_batched_assert`: with two workers the assertion of `read_mem.hpp:60` fails, since
  nothing locks the batch. Without assertions `curr_count` passes `region_count` and no batch
  is ever full again.

More consequences of the code, met while modelling it and stated here because nothing in the
repository says otherwise, or because a property above already says what is left:

- `wait` erases the waiter (`basic_search.hpp:129`) as soon as it sees 0, while the last worker
  has still to call `notify_one` on it. `JobsMatchPools` therefore vouches for the waiter up to
  the decrement only.
- The value and the callback given to `search` are not used: `comp` looks for a constant of its
  own (`async_search.hpp:137`).
- `ReportsExact` excludes unreadable chunks because for them the code may report what an
  earlier chunk left in the buffer.
- The last, partly filled batch of a batched search is never read (`BatchesWhole`). By default a
  batch is 32 chunks, so a search of fewer is never compared at all.
- A task gives its buffer back before its batch is read, and the next one gets it: `comp` is
  shown one chunk's bytes at another's address (`BytesOfBatch` says whose).
- A pointer to a scalar counts nothing in `max_field_count` and takes a region in `fill_array`:
  a level may be larger than the arrays, and `read` then writes behind their ends
  (`RegionsCounted` says exactly when; the run's `top` does it with one such pointer).
- A plain first member has size 0 for the offset of the next, so that plain
  members behind it at the beginning of a struct are read from too low an address
  (`get_offset.hpp:59`); the validator sees it only in the type that `read` is called with. The
  tree that README.md:20 promises is then not read exactly: `ReadsTree` says which members hold
  other words, and which words these are.
- A null pointer keeps the regions behind it in its system call from being read
  (`FailureContained`).
- A text that the buffer cuts before the dash of a start address ends the program
  (`CursorInText`), since `substr` throws in a `noexcept` function; so does a `/data/user` that
  `is_app` cannot go through, in the middle of `get_all_app_info` too (`TestApp`).
- A second loop over a `maps` object hands out nothing (`EntriesAreLines`).
- A copy-assigned `p_readwrite` opens its own path again and ignores the other object; one
  that is moved to itself loses its descriptor; one that is move-assigned keeps its pid and
  reads another process (`OnlyMoveMisleads` states that nothing else does that).
- After a second load of a package numbers are the first load's and text the second's
  (`NumbersStay`); a blank before a line feed, as the kernel prints behind the groups, is one
  more value, 0 (`ValuesOf`).
- A process of an app's uid whose name begins with a colon is an app's to `is_app`: what is
  looked for below the users' directories is then the directory itself (`AppMeansApp`).
- The keyword `art` is found in any path that contains it.
- `pointer_t`'s `is_nullptr` answers the opposite of its name (`detail/pfr/pointer.hpp:56`).
- A package made from a path, as `get_all_app_info` makes them, has `pid()` 0.

## Not modelled

- `fwd_compare`, `compare` and `search_result`: not used by the code as it stands.
- Outcomes of the batched search's data race beyond interleaved statements (a vector that is
  reallocated or cleared under another worker's feet).
- A `break` out of a loop over `maps`, nested loops, and an iterator dereferenced twice.
- The digits of addresses and numbers (`hex_to_int64`, `to_int64`) and their widths.
- Accessors that change nothing: `try_at`, `at`, `to_string`, `pointer_t`'s and `offset_t`'s
  conversions.
- The page size query, the test program, and build artefacts.
- Memory ordering weaker than sequential consistency: `fetch_add` is relaxed, but the task
  that follows it is published under the pool's mutex, and `fetch_sub` is a release that
  `wait` reads with sequential consistency.

## Plan

1. Done: the two pools, their services and proofs; the search over a direct-read memory and
   over a batched one; the map walk; the parsers with maps, memory types and packages;
   descriptors and vectored reads; the pointer manager; the process scan.
2. Done: proofs about `Search`, by way of the two pools' own invariants; `SearchBatched` with one
   worker; `PointerTree` (`RegionsCounted`, `FailureContained`, `Coherent`, `ReadsTree`); `MapWalk`'s
   `WordsScannedOnce`.
3. Done: what the parsers make of a text that is cut anywhere, up to the entries of `Maps` and
   their types, and the map and answers of `Package`.
4. Next: an invariant of `SearchBatched` with several workers up to the first race, which would
   say what the assertion protects.

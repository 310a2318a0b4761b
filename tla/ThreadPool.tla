------------------------------- MODULE ThreadPool -------------------------------
(***************************************************************************)
(* meta::thread_pool (include/amemory/meta/thread_pool.hpp): worker        *)
(* threads that loop over a FIFO of tasks guarded by mutex_, sleep on cv_  *)
(* while it is empty, and leave once shutdown has set stop_ and the queue  *)
(* is drained.  Callers are the threads in submit or submit_detached       *)
(* (Clients) and the threads in shutdown or in the destructor (Closers).   *)
(*                                                                         *)
(* A critical section of mutex_ is one action.  What the code does outside *)
(* the mutex is an action of its own: notify_one after a push, notify_all  *)
(* and the joins after stop_ is set, and the task a worker runs.           *)
(***************************************************************************)
EXTENDS Naturals, Sequences, FiniteSets

CONSTANTS Workers,   \* the threads in workers_
          Clients,   \* threads calling submit / submit_detached
          Closers,   \* threads calling shutdown (the destructor is one)
          Tasks,     \* the tasks submitted, each once
          NoTask     \* what a worker holds between two tasks

\* The constructor turns a thread_count of 0 into 1.
PoolAssumption == /\ Workers # {}
                  /\ IsFiniteSet(Workers)
                  /\ IsFiniteSet(Clients)
                  /\ NoTask \notin Tasks
ASSUME PoolAssumption

VARIABLES tasks,     \* tasks_
          stop,      \* stop_
          worker,    \* where each worker is in worker_loop
          current,   \* the task each worker has moved out of tasks_
          client,    \* where each client is in submit
          closer,    \* where each closer is in shutdown
          fate       \* what became of each task (its future, for submit)

vars == <<tasks, stop, worker, current, client, closer, fate>>

WorkerStates == {"lock",      \* about to take mutex_ and evaluate the predicate
                 "blocked",   \* in the wait set of cv_
                 "run",       \* running current
                 "exited"}
ClientStates == {"idle", "notify"}
CloserStates == {"idle", "notify", "join", "early", "returned"}
Fates == {"unsubmitted", "accepted", "threw", "dropped", "done"}

Init == /\ tasks = <<>>
        /\ stop = FALSE
        /\ worker = [w \in Workers |-> "lock"]
        /\ current = [w \in Workers |-> NoTask]
        /\ client = [c \in Clients |-> "idle"]
        /\ closer = [s \in Closers |-> "idle"]
        /\ fate = [t \in Tasks |-> "unsubmitted"]

Blocked == {w \in Workers : worker[w] = "blocked"}

NotifyOne == \/ /\ Blocked = {}
                /\ UNCHANGED worker
             \/ \E w \in Blocked : worker' = [worker EXCEPT ![w] = "lock"]

NotifyAll == worker' = [w \in Workers |->
                          IF worker[w] = "blocked" THEN "lock" ELSE worker[w]]

--------------------------------------------------------------------------------
(* Callers *)

\* Under mutex_, with stop_ clear: the task goes to the back of the queue.
Enqueue(c, t) == /\ client[c] = "idle"
                 /\ fate[t] = "unsubmitted"
                 /\ ~stop
                 /\ tasks' = Append(tasks, t)
                 /\ fate' = [fate EXCEPT ![t] = "accepted"]
                 /\ client' = [client EXCEPT ![c] = "notify"]
                 /\ UNCHANGED <<stop, worker, current, closer>>

Refuse(c, t, outcome) == /\ client[c] = "idle"
                         /\ fate[t] = "unsubmitted"
                         /\ stop
                         /\ fate' = [fate EXCEPT ![t] = outcome]
                         /\ UNCHANGED <<tasks, stop, worker, current, client, closer>>

\* submit throws on a stopped pool; submit_detached returns without a word.
Submit(c, t) == Enqueue(c, t) \/ Refuse(c, t, "threw")

SubmitDetached(c, t) == Enqueue(c, t) \/ Refuse(c, t, "dropped")

\* Mutant: the notification after the push is forgotten.
SubmitNotifyForgotten(c) == /\ client[c] = "notify"
                            /\ client' = [client EXCEPT ![c] = "idle"]
                            /\ UNCHANGED <<tasks, stop, worker, current, closer, fate>>

\* cv_.notify_one(), after mutex_ has been released.
SubmitNotify(c) == /\ client[c] = "notify"
                   /\ client' = [client EXCEPT ![c] = "idle"]
                   /\ NotifyOne
                   /\ UNCHANGED <<tasks, stop, current, closer, fate>>

\* The first caller sets stop_; a caller that finds it set returns at once.
ShutdownBegin(s) == /\ closer[s] = "idle"
                    /\ closer' = [closer EXCEPT ![s] = IF stop THEN "early" ELSE "notify"]
                    /\ stop' = TRUE
                    /\ UNCHANGED <<tasks, worker, current, client, fate>>

\* Mutant: one sleeping worker is woken instead of all of them.
ShutdownNotifiesOne(s) == /\ closer[s] = "notify"
                          /\ closer' = [closer EXCEPT ![s] = "join"]
                          /\ NotifyOne
                          /\ UNCHANGED <<tasks, stop, current, client, fate>>

ShutdownNotify(s) == /\ closer[s] = "notify"
                     /\ closer' = [closer EXCEPT ![s] = "join"]
                     /\ NotifyAll
                     /\ UNCHANGED <<tasks, stop, current, client, fate>>

\* The joins: t.join() blocks until the worker has left worker_loop.
ShutdownReturn(s) == /\ closer[s] = "join"
                     /\ \A w \in Workers : worker[w] = "exited"
                     /\ closer' = [closer EXCEPT ![s] = "returned"]
                     /\ UNCHANGED <<tasks, stop, worker, current, client, fate>>

--------------------------------------------------------------------------------
(* Workers *)

\* Mutant: the task is copied from the queue but never popped.
WorkerTakeNoPop(w) == /\ worker[w] = "lock"
                      /\ tasks # <<>>
                      /\ current' = [current EXCEPT ![w] = Head(tasks)]
                      /\ worker' = [worker EXCEPT ![w] = "run"]
                      /\ UNCHANGED <<tasks, stop, client, closer, fate>>

\* Mutant: the newest task is taken first.
WorkerTakeBack(w) == /\ worker[w] = "lock"
                     /\ tasks # <<>>
                     /\ current' = [current EXCEPT ![w] = tasks[Len(tasks)]]
                     /\ tasks' = SubSeq(tasks, 1, Len(tasks) - 1)
                     /\ worker' = [worker EXCEPT ![w] = "run"]
                     /\ UNCHANGED <<stop, client, closer, fate>>

\* The predicate holds and the queue is not empty: pop the front, even when
\* stop_ is set.
WorkerTake(w) == /\ worker[w] = "lock"
                 /\ tasks # <<>>
                 /\ current' = [current EXCEPT ![w] = Head(tasks)]
                 /\ tasks' = Tail(tasks)
                 /\ worker' = [worker EXCEPT ![w] = "run"]
                 /\ UNCHANGED <<stop, client, closer, fate>>

\* The predicate is false: cv_.wait releases mutex_ and blocks, atomically.
WorkerBlock(w) == /\ worker[w] = "lock"
                  /\ ~stop
                  /\ tasks = <<>>
                  /\ worker' = [worker EXCEPT ![w] = "blocked"]
                  /\ UNCHANGED <<tasks, stop, current, client, closer, fate>>

\* Mutant: a stopped pool abandons what is still queued.
WorkerExitAbandon(w) == /\ worker[w] = "lock"
                        /\ stop
                        /\ worker' = [worker EXCEPT ![w] = "exited"]
                        /\ UNCHANGED <<tasks, stop, current, client, closer, fate>>

WorkerExit(w) == /\ worker[w] = "lock"
                 /\ stop
                 /\ tasks = <<>>
                 /\ worker' = [worker EXCEPT ![w] = "exited"]
                 /\ UNCHANGED <<tasks, stop, current, client, closer, fate>>

\* A condition variable may wake a thread nobody notified.
SpuriousWake(w) == /\ worker[w] = "blocked"
                   /\ worker' = [worker EXCEPT ![w] = "lock"]
                   /\ UNCHANGED <<tasks, stop, current, client, closer, fate>>

\* task() returns: the packaged_task makes its future ready.
WorkerFinish(w) == /\ worker[w] = "run"
                   /\ fate' = [fate EXCEPT ![current[w]] = "done"]
                   /\ current' = [current EXCEPT ![w] = NoTask]
                   /\ worker' = [worker EXCEPT ![w] = "lock"]
                   /\ UNCHANGED <<tasks, stop, client, closer>>

WorkerLoop(w) == WorkerTake(w) \/ WorkerBlock(w) \/ WorkerExit(w)

Next == \/ \E c \in Clients : \/ \E t \in Tasks : Submit(c, t) \/ SubmitDetached(c, t)
                              \/ SubmitNotify(c)
        \/ \E s \in Closers : ShutdownBegin(s) \/ ShutdownNotify(s) \/ ShutdownReturn(s)
        \/ \E w \in Workers : WorkerLoop(w) \/ SpuriousWake(w) \/ WorkerFinish(w)

\* The scheduler runs every thread that can run; a task's body returns; a
\* caller that is inside submit or shutdown carries on.  Nobody has to call
\* submit or shutdown, and spurious wake-ups are never owed.
Fairness == /\ \A w \in Workers : WF_vars(WorkerLoop(w)) /\ WF_vars(WorkerFinish(w))
            /\ \A c \in Clients : WF_vars(SubmitNotify(c))
            /\ \A s \in Closers : WF_vars(ShutdownNotify(s)) /\ WF_vars(ShutdownReturn(s))

SafeSpec == Init /\ [][Next]_vars
Spec == SafeSpec /\ Fairness

--------------------------------------------------------------------------------
(* Properties *)

TypeOK == /\ tasks \in Seq(Tasks)
          /\ stop \in BOOLEAN
          /\ worker \in [Workers -> WorkerStates]
          /\ current \in [Workers -> Tasks \cup {NoTask}]
          /\ client \in [Clients -> ClientStates]
          /\ closer \in [Closers -> CloserStates]
          /\ fate \in [Tasks -> Fates]

Awake == {w \in Workers : worker[w] = "lock"}
Notifying == {c \in Clients : client[c] = "notify"}

\* No wake-up is lost although notify_one is called outside mutex_: while a
\* worker sleeps, every queued task is covered by a submitter that has still
\* to call notify_one or by a worker on its way to the queue (worker_loop's
\* wait against the notify_one of submit and submit_detached).
WakeupsCoverQueue ==
    Blocked # {} => Len(tasks) <= Cardinality(Notifying) + Cardinality(Awake)

\* An accepted task is in exactly one place, the queue or one worker's hands,
\* until it is done; so it is run once and its future is never abandoned
\* (tasks_.emplace, front/pop and the packaged_task of submit).
InQueue(t) == \E i \in DOMAIN tasks : tasks[i] = t
TasksConserved ==
    /\ \A i, j \in DOMAIN tasks : tasks[i] = tasks[j] => i = j
    /\ \A v, w \in Workers : (current[v] = current[w] /\ current[v] # NoTask) => v = w
    /\ \A t \in Tasks : InQueue(t) => \A w \in Workers : current[w] # t
    /\ \A t \in Tasks : fate[t] = "accepted"
                          <=> (InQueue(t) \/ \E w \in Workers : current[w] = t)

\* When the shutdown that joined returns, everything accepted has been run
\* and nothing can be accepted any more (worker_loop drains tasks_ although
\* stop_ is set; shutdown joins every worker).
ShutdownDrains ==
    (\E s \in Closers : closer[s] = "returned") =>
        /\ stop
        /\ \A t \in Tasks : fate[t] # "accepted"

\* A call of shutdown that set stop_ returns: no worker sleeps through the
\* notify_all and none waits for another.
ShutdownTerminates == \A s \in Closers : closer[s] = "notify" ~> closer[s] = "returned"

\* The pool keeps the promises of TaskService, progress included.
SomeTasks == {current[w] : w \in Workers} \ {NoTask}
Service == INSTANCE TaskService WITH
    queue <- tasks,
    running <- SomeTasks,
    fate <- [t \in Tasks |-> IF fate[t] \in {"threw", "dropped"} THEN "refused" ELSE fate[t]],
    closed <- stop,
    drained <- \E s \in Closers : closer[s] = "returned",
    Capacity <- Cardinality(Workers)
ImplementsService == Service!Spec
================================================================================

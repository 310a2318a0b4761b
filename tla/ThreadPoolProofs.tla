---------------------------- MODULE ThreadPoolProofs ----------------------------
(***************************************************************************)
(* Proofs about ThreadPool, for any sets of workers, clients, closers and  *)
(* tasks.                                                                  *)
(***************************************************************************)
EXTENDS ThreadPool, SequenceTheorems, FiniteSetTheorems, TLAPS

--------------------------------------------------------------------------------
(* Type correctness *)

\* Every step keeps the variables in their types.
LEMMA TypeStep == TypeOK /\ [Next]_vars => TypeOK'
<1> SUFFICES ASSUME TypeOK, [Next]_vars PROVE TypeOK'
  OBVIOUS
<1> USE DEF TypeOK, WorkerStates, ClientStates, CloserStates, Fates
<1>1. ASSUME NEW c \in Clients, NEW t \in Tasks, Submit(c, t) \/ SubmitDetached(c, t)
      PROVE TypeOK'
  BY <1>1 DEF Submit, SubmitDetached, Enqueue, Refuse
<1>2. ASSUME NEW c \in Clients, SubmitNotify(c) PROVE TypeOK'
  BY <1>2 DEF SubmitNotify, NotifyOne, Blocked
<1>3. ASSUME NEW s \in Closers, ShutdownBegin(s) PROVE TypeOK'
  BY <1>3 DEF ShutdownBegin
<1>4. ASSUME NEW s \in Closers, ShutdownNotify(s) PROVE TypeOK'
  BY <1>4 DEF ShutdownNotify, NotifyAll
<1>5. ASSUME NEW s \in Closers, ShutdownReturn(s) PROVE TypeOK'
  BY <1>5 DEF ShutdownReturn
<1>6. ASSUME NEW w \in Workers, WorkerTake(w) PROVE TypeOK'
  BY <1>6, HeadTailProperties DEF WorkerTake
<1>7. ASSUME NEW w \in Workers, WorkerBlock(w) \/ WorkerExit(w) \/ SpuriousWake(w)
      PROVE TypeOK'
  BY <1>7 DEF WorkerBlock, WorkerExit, SpuriousWake
<1>8. ASSUME NEW w \in Workers, WorkerFinish(w) PROVE TypeOK'
  BY <1>8 DEF WorkerFinish
<1>9. CASE UNCHANGED vars
  BY <1>9 DEF vars
<1>. QED
  BY <1>1, <1>2, <1>3, <1>4, <1>5, <1>6, <1>7, <1>8, <1>9 DEF Next, WorkerLoop

\* A pool that has just been constructed is in its types.
LEMMA TypeInit == Init => TypeOK
<1> SUFFICES ASSUME Init PROVE TypeOK
  OBVIOUS
<1>1. tasks \in Seq(Tasks) /\ stop \in BOOLEAN
  BY EmptySeq DEF Init
<1>2. worker \in [Workers -> WorkerStates]
  BY DEF Init, WorkerStates
<1>3. current \in [Workers -> Tasks \cup {NoTask}]
  BY DEF Init
<1>4. client \in [Clients -> ClientStates]
  BY DEF Init, ClientStates
<1>5. closer \in [Closers -> CloserStates]
  BY DEF Init, CloserStates
<1>6. fate \in [Tasks -> Fates]
  BY DEF Init, Fates
<1>. QED
  BY <1>1, <1>2, <1>3, <1>4, <1>5, <1>6 DEF TypeOK

\* thread_pool's variables never leave their types.
THEOREM TypeCorrect == SafeSpec => []TypeOK
BY TypeInit, TypeStep, PTL DEF SafeSpec

--------------------------------------------------------------------------------
(* No lost wake-up *)

\* The sets the invariant counts are finite.
LEMMA CountsAreNat ==
  ASSUME NEW S, S \subseteq Workers \/ S \subseteq Clients
  PROVE  IsFiniteSet(S) /\ Cardinality(S) \in Nat
BY PoolAssumption, FS_Subset, FS_CardinalityType DEF PoolAssumption

\* Moving one element in or out of a finite set changes its size by one.
LEMMA CountStep ==
  ASSUME NEW S, NEW x, IsFiniteSet(S)
  PROVE  /\ x \notin S => Cardinality(S \cup {x}) = Cardinality(S) + 1
         /\ x \in S => Cardinality(S \ {x}) = Cardinality(S) - 1
         /\ x \in S => Cardinality(S) > 0
<1>1. x \in S => Cardinality(S) # 0
  BY FS_EmptySet
<1>. QED
  BY <1>1, FS_AddElement, FS_RemoveElement, FS_CardinalityType

\* Every step keeps each queued task covered by a pending notification or by
\* an awake worker while some worker sleeps.
LEMMA WakeupsStep ==
  TypeOK /\ WakeupsCoverQueue /\ [Next]_vars => WakeupsCoverQueue'
<1> SUFFICES ASSUME TypeOK, WakeupsCoverQueue, [Next]_vars, Blocked' # {}
             PROVE  Len(tasks') <= Cardinality(Notifying') + Cardinality(Awake')
  BY DEF WakeupsCoverQueue
<1> USE DEF TypeOK, WorkerStates, ClientStates
<1>1. /\ IsFiniteSet(Notifying) /\ Cardinality(Notifying) \in Nat
      /\ IsFiniteSet(Awake) /\ Cardinality(Awake) \in Nat
      /\ IsFiniteSet(Notifying') /\ Cardinality(Notifying') \in Nat
      /\ IsFiniteSet(Awake') /\ Cardinality(Awake') \in Nat
  BY CountsAreNat DEF Notifying, Awake
<1>2. Len(tasks) \in Nat
  BY LenProperties
<1>3. Blocked # {} => Len(tasks) <= Cardinality(Notifying) + Cardinality(Awake)
  BY DEF WakeupsCoverQueue
<1>4. ASSUME NEW c \in Clients, NEW t \in Tasks, Enqueue(c, t)
      PROVE  Len(tasks') <= Cardinality(Notifying') + Cardinality(Awake')
  <2>1. Len(tasks') = Len(tasks) + 1
    BY <1>4 DEF Enqueue
  <2>2. Notifying' = Notifying \cup {c} /\ c \notin Notifying
    BY <1>4 DEF Enqueue, Notifying
  <2>3. Blocked' = Blocked /\ Awake' = Awake
    BY <1>4 DEF Enqueue, Blocked, Awake
  <2>. QED
    BY <1>1, <1>2, <1>3, <2>1, <2>2, <2>3, CountStep
<1>5. ASSUME NEW c \in Clients, NEW t \in Tasks, NEW o, Refuse(c, t, o)
      PROVE  Len(tasks') <= Cardinality(Notifying') + Cardinality(Awake')
  BY <1>3, <1>5 DEF Refuse, Blocked, Notifying, Awake
<1>6. ASSUME NEW c \in Clients, SubmitNotify(c)
      PROVE  Len(tasks') <= Cardinality(Notifying') + Cardinality(Awake')
  <2>1. Notifying' = Notifying \ {c} /\ c \in Notifying /\ tasks' = tasks
    BY <1>6 DEF SubmitNotify, Notifying
  <2>2. Blocked # {}
    BY <1>6 DEF SubmitNotify, NotifyOne, Blocked
  <2>3. PICK w \in Blocked : worker' = [worker EXCEPT ![w] = "lock"]
    BY <1>6, <2>2 DEF SubmitNotify, NotifyOne
  <2>4. Awake' = Awake \cup {w} /\ w \notin Awake
    BY <2>3 DEF Awake, Blocked
  <2>5. Cardinality(Notifying') = Cardinality(Notifying) - 1
    BY <1>1, <2>1, CountStep
  <2>6. Cardinality(Awake') = Cardinality(Awake) + 1
    BY <1>1, <2>4, CountStep
  <2>. QED
    BY <1>1, <1>2, <1>3, <2>1, <2>2, <2>5, <2>6
<1>7. ASSUME NEW s \in Closers, ShutdownBegin(s) \/ ShutdownReturn(s)
      PROVE  Len(tasks') <= Cardinality(Notifying') + Cardinality(Awake')
  BY <1>3, <1>7 DEF ShutdownBegin, ShutdownReturn, Blocked, Notifying, Awake
<1>8. ASSUME NEW s \in Closers, ShutdownNotify(s)
      PROVE  FALSE
  BY <1>8 DEF ShutdownNotify, NotifyAll, Blocked
<1>9. ASSUME NEW w \in Workers, WorkerTake(w)
      PROVE  Len(tasks') <= Cardinality(Notifying') + Cardinality(Awake')
  <2>1. Len(tasks') = Len(tasks) - 1
    BY <1>9, HeadTailProperties DEF WorkerTake
  <2>2. Awake' = Awake \ {w} /\ w \in Awake
    BY <1>9 DEF WorkerTake, Awake
  <2>3. Blocked' = Blocked /\ Notifying' = Notifying
    BY <1>9 DEF WorkerTake, Blocked, Notifying
  <2>. QED
    BY <1>1, <1>2, <1>3, <2>1, <2>2, <2>3, CountStep
<1>10. ASSUME NEW w \in Workers, WorkerBlock(w) \/ WorkerExit(w)
       PROVE  Len(tasks') <= Cardinality(Notifying') + Cardinality(Awake')
  <2>1. Len(tasks') = 0
    BY <1>10 DEF WorkerBlock, WorkerExit
  <2>. QED
    BY <1>1, <2>1
<1>11. ASSUME NEW w \in Workers, SpuriousWake(w) \/ WorkerFinish(w)
       PROVE  Len(tasks') <= Cardinality(Notifying') + Cardinality(Awake')
  <2>1. Awake' = Awake \cup {w} /\ w \notin Awake
    BY <1>11 DEF SpuriousWake, WorkerFinish, Awake
  <2>2. tasks' = tasks /\ Notifying' = Notifying /\ Blocked # {}
    BY <1>11 DEF SpuriousWake, WorkerFinish, Notifying, Blocked
  <2>. QED
    BY <1>1, <1>2, <1>3, <2>1, <2>2, CountStep
<1>12. CASE UNCHANGED vars
  BY <1>3, <1>12 DEF vars, Blocked, Notifying, Awake
<1>. QED
  BY <1>4, <1>5, <1>6, <1>7, <1>8, <1>9, <1>10, <1>11, <1>12
  DEF Next, WorkerLoop, Submit, SubmitDetached

\* No wake-up is lost although submit notifies after it has released mutex_.
THEOREM NoLostWakeup == SafeSpec => []WakeupsCoverQueue
<1>1. Init => WakeupsCoverQueue
  BY DEF Init, WakeupsCoverQueue, Blocked
<1>. QED
  BY <1>1, TypeCorrect, WakeupsStep, PTL DEF SafeSpec

--------------------------------------------------------------------------------
(* Exactly once, and the drain at shutdown *)

\* A worker holds a task exactly while it runs it.
HoldsWhileRunning == \A w \in Workers : worker[w] = "run" <=> current[w] # NoTask

\* A worker leaves only a stopped and empty pool, which stays so, and a
\* shutdown returns only after every worker has left.
ExitedIsDrained == /\ \A w \in Workers : worker[w] = "exited" => stop /\ tasks = <<>>
                   /\ \A s \in Closers : closer[s] = "returned" =>
                        \A w \in Workers : worker[w] = "exited"

IInv == TypeOK /\ HoldsWhileRunning /\ TasksConserved /\ ExitedIsDrained

\* Queued tasks are tasks, so NoTask is never queued.
LEMMA QueuedIsTask == ASSUME TypeOK PROVE \A i \in DOMAIN tasks : tasks[i] \in Tasks
BY ElementOfSeq, LenProperties DEF TypeOK

\* A worker of the pool that is about to take or leave holds nothing.
LEMMA HoldsStep == IInv /\ [Next]_vars => HoldsWhileRunning'
<1> SUFFICES ASSUME IInv, [Next]_vars, NEW v \in Workers
             PROVE  worker'[v] = "run" <=> current'[v] # NoTask
  BY DEF HoldsWhileRunning
<1> USE DEF IInv, TypeOK, HoldsWhileRunning
<1>1. ASSUME NEW w \in Workers, WorkerTake(w)
      PROVE  worker'[v] = "run" <=> current'[v] # NoTask
  BY <1>1, PoolAssumption, HeadTailProperties DEF PoolAssumption, WorkerTake
<1>2. ASSUME NEW w \in Workers,
             WorkerBlock(w) \/ WorkerExit(w) \/ SpuriousWake(w) \/ WorkerFinish(w)
      PROVE  worker'[v] = "run" <=> current'[v] # NoTask
  BY <1>2 DEF WorkerBlock, WorkerExit, SpuriousWake, WorkerFinish
<1>3. ASSUME NEW c \in Clients, NEW t \in Tasks,
             Submit(c, t) \/ SubmitDetached(c, t)
      PROVE  worker'[v] = "run" <=> current'[v] # NoTask
  BY <1>3 DEF Submit, SubmitDetached, Enqueue, Refuse
<1>4. ASSUME NEW c \in Clients, SubmitNotify(c)
      PROVE  worker'[v] = "run" <=> current'[v] # NoTask
  BY <1>4 DEF SubmitNotify, NotifyOne, Blocked
<1>5. ASSUME NEW s \in Closers, ShutdownBegin(s) \/ ShutdownNotify(s) \/ ShutdownReturn(s)
      PROVE  worker'[v] = "run" <=> current'[v] # NoTask
  BY <1>5 DEF ShutdownBegin, ShutdownNotify, ShutdownReturn, NotifyAll
<1>6. CASE UNCHANGED vars
  BY <1>6 DEF vars
<1>. QED
  BY <1>1, <1>2, <1>3, <1>4, <1>5, <1>6 DEF Next, WorkerLoop

\* Every step keeps each accepted task in exactly one place.
LEMMA ConservedStep == IInv /\ [Next]_vars => TasksConserved'
<1> SUFFICES ASSUME IInv, [Next]_vars PROVE TasksConserved'
  OBVIOUS
<1> USE DEF IInv, TypeOK
<1>1. \A i \in DOMAIN tasks : tasks[i] \in Tasks
  BY QueuedIsTask
<1>2. DOMAIN tasks = 1 .. Len(tasks) /\ Len(tasks) \in Nat
  BY LenProperties
<1>3. ASSUME NEW c \in Clients, NEW t \in Tasks, Enqueue(c, t)
      PROVE  TasksConserved'
  <2>1. /\ ~InQueue(t)
        /\ \A w \in Workers : current[w] # t
    BY <1>3 DEF Enqueue, TasksConserved
  <2>2. /\ DOMAIN tasks' = 1 .. Len(tasks) + 1
        /\ \A i \in 1 .. Len(tasks) : tasks'[i] = tasks[i]
        /\ tasks'[Len(tasks) + 1] = t
    BY <1>2, <1>3 DEF Enqueue
  <2>3. \A u : InQueue(u)' <=> InQueue(u) \/ u = t
    BY <1>2, <2>2 DEF InQueue
  <2>4. \A i, j \in DOMAIN tasks' : tasks'[i] = tasks'[j] => i = j
    BY <1>2, <2>1, <2>2 DEF TasksConserved, InQueue
  <2>5. current' = current
    BY <1>3 DEF Enqueue
  <2>6. \A u \in Tasks : fate'[u] = "accepted" <=> fate[u] = "accepted" \/ u = t
    BY <1>3 DEF Enqueue
  <2>. QED
    BY <2>1, <2>3, <2>4, <2>5, <2>6, Zenon DEF TasksConserved
<1>4. ASSUME NEW c \in Clients, NEW t \in Tasks,
             Refuse(c, t, "threw") \/ Refuse(c, t, "dropped")
      PROVE  TasksConserved'
  <2>1. \A u \in Tasks : fate'[u] = "accepted" <=> fate[u] = "accepted"
    BY <1>4 DEF Refuse
  <2>2. tasks' = tasks /\ current' = current
    BY <1>4 DEF Refuse
  <2>. QED
    BY <2>1, <2>2 DEF TasksConserved, InQueue
<1>5. ASSUME NEW w \in Workers, WorkerTake(w)
      PROVE  TasksConserved'
  <2> DEFINE h == Head(tasks)
  <2>1. /\ DOMAIN tasks' = 1 .. Len(tasks) - 1
        /\ \A i \in 1 .. Len(tasks) - 1 : tasks'[i] = tasks[i + 1]
        /\ 1 \in DOMAIN tasks
        /\ h = tasks[1]
        /\ h \in Tasks
    BY <1>1, <1>2, <1>5, HeadTailProperties DEF WorkerTake
  <2>2. /\ InQueue(h)
        /\ \A v \in Workers : current[v] # h
    BY <2>1 DEF TasksConserved, InQueue
  <2>3. \A u : InQueue(u)' <=> InQueue(u) /\ u # h
    <3>1. ASSUME NEW u, InQueue(u), u # h PROVE InQueue(u)'
      <4>1. PICK i \in DOMAIN tasks : tasks[i] = u
        BY <3>1 DEF InQueue
      <4>2. i - 1 \in DOMAIN tasks' /\ tasks'[i - 1] = u
        BY <1>2, <2>1, <3>1, <4>1
      <4>. QED
        BY <4>2 DEF InQueue
    <3>2. ASSUME NEW u, InQueue(u)' PROVE InQueue(u) /\ u # h
      <4>1. PICK i \in DOMAIN tasks' : tasks'[i] = u
        BY <3>2 DEF InQueue
      <4>2. i + 1 \in DOMAIN tasks /\ tasks[i + 1] = u
        BY <1>2, <2>1, <4>1
      <4>3. i + 1 # 1
        BY <1>2, <2>1
      <4>4. tasks[i + 1] # tasks[1]
        BY <2>1, <4>2, <4>3 DEF TasksConserved
      <4>. QED
        BY <2>1, <4>2, <4>4 DEF InQueue
    <3>. QED
      BY <3>1, <3>2
  <2>4. ASSUME NEW i \in DOMAIN tasks', NEW j \in DOMAIN tasks', tasks'[i] = tasks'[j]
        PROVE  i = j
    <3>1. /\ i + 1 \in DOMAIN tasks /\ j + 1 \in DOMAIN tasks
          /\ tasks[i + 1] = tasks[j + 1]
      BY <1>2, <2>1, <2>4
    <3>2. i + 1 = j + 1
      BY <3>1 DEF TasksConserved
    <3>. QED
      BY <1>2, <2>1, <3>2
  <2>5. /\ \A v \in Workers : current'[v] = IF v = w THEN h ELSE current[v]
        /\ current[w] = NoTask
        /\ fate' = fate
    BY <1>5 DEF WorkerTake, HoldsWhileRunning
  <2>6. \A u \in Tasks : (\E v \in Workers : current'[v] = u)
                            <=> (u = h \/ \E v \in Workers : current[v] = u)
    BY <2>5, PoolAssumption DEF PoolAssumption
  <2>7. \A v, x \in Workers : (current'[v] = current'[x] /\ current'[v] # NoTask) => v = x
    BY <2>2, <2>5 DEF TasksConserved
  <2>8. \A u \in Tasks : InQueue(u)' => \A v \in Workers : current'[v] # u
    BY <2>3, <2>5 DEF TasksConserved
  <2>9. \A u \in Tasks : fate'[u] = "accepted"
                            <=> (InQueue(u)' \/ \E v \in Workers : current'[v] = u)
    BY <2>2, <2>3, <2>5, <2>6 DEF TasksConserved
  <2>. QED
    BY <2>4, <2>7, <2>8, <2>9 DEF TasksConserved
<1>6. ASSUME NEW w \in Workers, WorkerFinish(w)
      PROVE  TasksConserved'
  <2> DEFINE t == current[w]
  <2>1. /\ t \in Tasks
        /\ tasks' = tasks
        /\ \A v \in Workers : current'[v] = IF v = w THEN NoTask ELSE current[v]
        /\ \A u \in Tasks : fate'[u] = IF u = t THEN "done" ELSE fate[u]
    BY <1>6 DEF WorkerFinish, HoldsWhileRunning
  <2>2. ~InQueue(t)
    BY <2>1 DEF TasksConserved
  <2>3. \A u : InQueue(u)' <=> InQueue(u)
    BY <2>1 DEF InQueue
  <2>4. \A v \in Workers : current'[v] # t
    BY <2>1, PoolAssumption DEF PoolAssumption, TasksConserved
  <2>5. \A u \in Tasks : fate'[u] = "accepted"
                            <=> (InQueue(u)' \/ \E v \in Workers : current'[v] = u)
    BY <2>1, <2>2, <2>3, <2>4, PoolAssumption DEF PoolAssumption, TasksConserved
  <2>6. \A i, j \in DOMAIN tasks' : tasks'[i] = tasks'[j] => i = j
    BY <2>1 DEF TasksConserved
  <2>7. \A v, x \in Workers : (current'[v] = current'[x] /\ current'[v] # NoTask) => v = x
    BY <2>1 DEF TasksConserved
  <2>8. \A u \in Tasks : InQueue(u)' => \A v \in Workers : current'[v] # u
    BY <2>1, <2>3, PoolAssumption DEF PoolAssumption, TasksConserved
  <2>. QED
    BY <2>5, <2>6, <2>7, <2>8 DEF TasksConserved
<1>7. CASE UNCHANGED <<tasks, current, fate>>
  BY <1>7 DEF TasksConserved, InQueue
<1>. QED
  BY <1>3, <1>4, <1>5, <1>6, <1>7
  DEF Next, WorkerLoop, Submit, SubmitDetached, SubmitNotify, ShutdownBegin, ShutdownNotify,
      ShutdownReturn, WorkerBlock, WorkerExit, SpuriousWake, vars

\* A worker that has left stays out of a pool that stays empty.
LEMMA ExitedStep == IInv /\ [Next]_vars => ExitedIsDrained'
<1> SUFFICES ASSUME IInv, [Next]_vars PROVE ExitedIsDrained'
  OBVIOUS
<1> USE DEF IInv, TypeOK, ExitedIsDrained
<1>1. ASSUME NEW w \in Workers, WorkerLoop(w) \/ SpuriousWake(w) \/ WorkerFinish(w)
      PROVE  ExitedIsDrained'
  BY <1>1 DEF WorkerLoop, WorkerTake, WorkerBlock, WorkerExit, SpuriousWake, WorkerFinish
<1>2. ASSUME NEW c \in Clients, NEW t \in Tasks, Submit(c, t) \/ SubmitDetached(c, t)
      PROVE  ExitedIsDrained'
  BY <1>2 DEF Submit, SubmitDetached, Enqueue, Refuse
<1>3. ASSUME NEW c \in Clients, SubmitNotify(c) PROVE ExitedIsDrained'
  BY <1>3 DEF SubmitNotify, NotifyOne, Blocked
<1>4. ASSUME NEW s \in Closers, ShutdownBegin(s) \/ ShutdownNotify(s) \/ ShutdownReturn(s)
      PROVE  ExitedIsDrained'
  BY <1>4 DEF ShutdownBegin, ShutdownNotify, ShutdownReturn, NotifyAll
<1>5. CASE UNCHANGED vars
  BY <1>5 DEF vars
<1>. QED
  BY <1>1, <1>2, <1>3, <1>4, <1>5 DEF Next

\* The strengthened invariant holds of a pool just constructed, and of what
\* any step makes of one of which it holds.
LEMMA IInvInit == Init => IInv
<1> SUFFICES ASSUME Init PROVE IInv
  OBVIOUS
<1>1. TypeOK
  BY TypeInit
<1>2. HoldsWhileRunning /\ ExitedIsDrained
  BY DEF Init, HoldsWhileRunning, ExitedIsDrained
<1>3. TasksConserved
  BY PoolAssumption DEF PoolAssumption, Init, TasksConserved, InQueue
<1>. QED
  BY <1>1, <1>2, <1>3 DEF IInv

LEMMA IInvStep == IInv /\ [Next]_vars => IInv'
BY TypeStep, HoldsStep, ConservedStep, ExitedStep DEF IInv

LEMMA Inductive == SafeSpec => []IInv
BY IInvInit, IInvStep, PTL DEF SafeSpec

\* Each accepted task is in the queue or in one worker's hands, never in two
\* places and never in none, until it has run.
THEOREM ExactlyOnce == SafeSpec => []TasksConserved
BY Inductive, PTL DEF IInv

\* A shutdown that returns after its joins leaves no accepted task behind.
THEOREM DrainedAtShutdown == SafeSpec => []ShutdownDrains
<1>1. IInv => ShutdownDrains
  <2> SUFFICES ASSUME IInv, \E s \in Closers : closer[s] = "returned"
               PROVE  stop /\ \A t \in Tasks : fate[t] # "accepted"
    BY DEF ShutdownDrains
  <2>1. \A w \in Workers : worker[w] = "exited"
    BY DEF IInv, ExitedIsDrained
  <2>2. stop /\ tasks = <<>>
    BY <2>1, PoolAssumption DEF PoolAssumption, IInv, ExitedIsDrained
  <2>3. \A w \in Workers : current[w] = NoTask
    BY <2>1 DEF IInv, HoldsWhileRunning
  <2>4. \A t \in Tasks : ~InQueue(t)
    BY <2>2 DEF InQueue
  <2>5. \A t \in Tasks : fate[t] # "accepted"
    BY <2>3, <2>4, PoolAssumption DEF PoolAssumption, IInv, TasksConserved
  <2>. QED
    BY <2>2, <2>5
<1>. QED
  BY <1>1, Inductive, PTL

--------------------------------------------------------------------------------
(* Refinement of TaskService *)

\* A worker between two tasks leaves room for one more running task.
LEMMA RoomToStart ==
  ASSUME IInv, NEW w \in Workers, current[w] = NoTask
  PROVE  Cardinality(SomeTasks) < Cardinality(Workers)
<1> DEFINE Busy == {v \in Workers : current[v] # NoTask}
           f == [v \in Busy |-> current[v]]
<1>1. IsFiniteSet(Busy) /\ Cardinality(Busy) <= Cardinality(Workers \ {w})
  <2>1. Busy \subseteq Workers \ {w}
    OBVIOUS
  <2>2. IsFiniteSet(Workers \ {w})
    BY PoolAssumption, FS_Subset DEF PoolAssumption
  <2>. QED
    BY <2>1, <2>2, FS_Subset
<1>2. f \in Surjection(Busy, SomeTasks)
  BY DEF Surjection, SomeTasks
<1>3. IsFiniteSet(SomeTasks) /\ Cardinality(SomeTasks) <= Cardinality(Busy)
  BY <1>1, <1>2, FS_Surjection
<1>4. Cardinality(Workers \ {w}) = Cardinality(Workers) - 1 /\ Cardinality(Workers) \in Nat
  BY PoolAssumption, CountStep, FS_CardinalityType DEF PoolAssumption
<1>. QED
  BY <1>1, <1>3, <1>4, FS_CardinalityType

\* What the abstract service sees of a step that leaves the pool's own
\* bookkeeping of queue, hands and fates alone: nothing, or that it is closed
\* or drained.
LEMMA ServiceStutter ==
  ASSUME UNCHANGED <<tasks, current, fate, stop>>,
         (\E s \in Closers : closer[s] = "returned")' = (\E s \in Closers : closer[s] = "returned")
  PROVE  UNCHANGED Service!vars
BY DEF Service!vars, SomeTasks

\* Every step of the pool is a step of the service or changes nothing in it.
LEMMA ServiceStep == IInv /\ [Next]_vars => [Service!Next]_(Service!vars)
<1> SUFFICES ASSUME IInv, [Next]_vars PROVE Service!Next \/ UNCHANGED Service!vars
  OBVIOUS
<1> USE DEF IInv, TypeOK
<1> DEFINE Fate == [t \in Tasks |-> IF fate[t] \in {"threw", "dropped"} THEN "refused" ELSE fate[t]]
           Drained == \E s \in Closers : closer[s] = "returned"
<1>1. ASSUME NEW c \in Clients, NEW t \in Tasks, Enqueue(c, t) PROVE Service!Next
  <2>1. Fate[t] = "unsubmitted" /\ Fate' = [Fate EXCEPT ![t] = "accepted"]
    BY <1>1 DEF Enqueue, Fates
  <2>2. Service!Accept(t)
    BY <1>1, <2>1 DEF Enqueue, Service!Accept, SomeTasks
  <2>. QED
    BY <2>2 DEF Service!Next
<1>2. ASSUME NEW c \in Clients, NEW t \in Tasks,
             Refuse(c, t, "threw") \/ Refuse(c, t, "dropped")
      PROVE  Service!Next
  <2>1. Fate[t] = "unsubmitted" /\ Fate' = [Fate EXCEPT ![t] = "refused"]
    BY <1>2 DEF Refuse, Fates
  <2>2. Service!Refuse(t)
    BY <1>2, <2>1 DEF Refuse, Service!Refuse, SomeTasks
  <2>. QED
    BY <2>2 DEF Service!Next
<1>3. ASSUME NEW c \in Clients, SubmitNotify(c) PROVE UNCHANGED Service!vars
  BY <1>3, ServiceStutter DEF SubmitNotify
<1>4. ASSUME NEW s \in Closers, ShutdownBegin(s)
      PROVE  Service!Next \/ UNCHANGED Service!vars
  <2>1. Drained' = Drained
    BY <1>4 DEF ShutdownBegin, CloserStates
  <2>2. CASE stop
    BY <1>4, <2>1, <2>2, ServiceStutter DEF ShutdownBegin
  <2>3. CASE ~stop
    <3>1. Service!Close
      BY <1>4, <2>1, <2>3 DEF ShutdownBegin, Service!Close, SomeTasks
    <3>. QED
      BY <3>1 DEF Service!Next
  <2>. QED
    BY <2>2, <2>3
<1>5. ASSUME NEW s \in Closers, ShutdownNotify(s) PROVE UNCHANGED Service!vars
  <2>1. Drained' = Drained
    BY <1>5 DEF ShutdownNotify, CloserStates
  <2>. QED
    BY <1>5, <2>1, ServiceStutter DEF ShutdownNotify
<1>6. ASSUME NEW s \in Closers, ShutdownReturn(s)
      PROVE  Service!Next \/ UNCHANGED Service!vars
  <2>1. Drained'
    BY <1>6 DEF ShutdownReturn, CloserStates
  <2>2. CASE Drained
    BY <1>6, <2>1, <2>2, ServiceStutter DEF ShutdownReturn
  <2>3. CASE ~Drained
    <3>1. stop /\ tasks = <<>>
      BY <1>6, PoolAssumption DEF PoolAssumption, ShutdownReturn, ExitedIsDrained
    <3>2. SomeTasks = {}
      BY <1>6 DEF ShutdownReturn, SomeTasks, HoldsWhileRunning
    <3>3. Service!Drain
      BY <1>6, <2>1, <2>3, <3>1, <3>2 DEF ShutdownReturn, Service!Drain, SomeTasks
    <3>. QED
      BY <3>3 DEF Service!Next
  <2>. QED
    BY <2>2, <2>3
<1>7. ASSUME NEW w \in Workers, WorkerTake(w) PROVE Service!Next
  <2>1. current[w] = NoTask
    BY <1>7 DEF WorkerTake, HoldsWhileRunning
  <2>2. Head(tasks) \in Tasks
    BY <1>7, HeadTailProperties DEF WorkerTake
  <2>3. SomeTasks' = SomeTasks \cup {Head(tasks)}
    BY <1>7, <2>1, <2>2, PoolAssumption DEF PoolAssumption, WorkerTake, SomeTasks
  <2>4. Cardinality(SomeTasks) < Cardinality(Workers)
    BY <2>1, RoomToStart
  <2>5. UNCHANGED <<fate, stop, closer>> /\ tasks # <<>> /\ tasks' = Tail(tasks)
    BY <1>7 DEF WorkerTake
  <2>6. Service!Start
    BY <2>3, <2>4, <2>5, Zenon DEF Service!Start, Cardinality, Service!Cardinality
  <2>. QED
    BY <2>6 DEF Service!Next
<1>8. ASSUME NEW w \in Workers, WorkerFinish(w) PROVE Service!Next
  <2>1. PICK t \in Tasks : t = current[w]
    BY <1>8 DEF WorkerFinish, HoldsWhileRunning
  <2>2. SomeTasks' = SomeTasks \ {t} /\ t \in SomeTasks
    BY <1>8, <2>1, PoolAssumption DEF PoolAssumption, WorkerFinish, SomeTasks, TasksConserved
  <2>3. Fate' = [Fate EXCEPT ![t] = "done"]
    BY <1>8, <2>1 DEF WorkerFinish, Fates
  <2>4. Service!Finish(t)
    BY <1>8, <2>1, <2>2, <2>3 DEF WorkerFinish, Service!Finish
  <2>. QED
    BY <2>4 DEF Service!Next
<1>9. ASSUME NEW w \in Workers, WorkerBlock(w) \/ WorkerExit(w) \/ SpuriousWake(w)
      PROVE  UNCHANGED Service!vars
  BY <1>9, ServiceStutter DEF WorkerBlock, WorkerExit, SpuriousWake
<1>10. CASE UNCHANGED vars
  BY <1>10, ServiceStutter DEF vars
<1>. QED
  BY <1>1, <1>2, <1>3, <1>4, <1>5, <1>6, <1>7, <1>8, <1>9, <1>10
  DEF Next, WorkerLoop, Submit, SubmitDetached

\* thread_pool implements the safety half of the service its callers rely on.
THEOREM PoolImplementsService == SafeSpec => Service!SafeSpec
<1>1. Init => Service!Init
  BY PoolAssumption DEF PoolAssumption, Init, Service!Init, SomeTasks
<1>. QED
  BY <1>1, Inductive, ServiceStep, PTL DEF SafeSpec, Service!SafeSpec
================================================================================

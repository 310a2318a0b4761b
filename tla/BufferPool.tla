------------------------------- MODULE BufferPool -------------------------------
(***************************************************************************)
(* meta::buffer_pool (include/amemory/meta/buffer_pool.hpp): a fixed set of *)
(* buffers kept in a vector that is used as a stack, guarded by mutex;      *)
(* acquire waits on condition while the vector is empty.  A critical        *)
(* section is one action.  acquire(notice) leaves the mutex to run the      *)
(* caller's notice when it finds the vector empty, which is why it takes    *)
(* several actions.                                                         *)
(***************************************************************************)
EXTENDS Naturals, Sequences, FiniteSets

CONSTANTS Threads,      \* the threads that use the pool
          BufferCount,  \* buffer_count_
          MaxHeld       \* how many buffers a caller holds at a time (the caller's bound)

BufferAssumption == /\ IsFiniteSet(Threads)
                    /\ BufferCount \in Nat
                    /\ MaxHeld \in Nat
ASSUME BufferAssumption

Buffers == 1 .. BufferCount

VARIABLES free,   \* buffers, the vector; its back is the top of the stack
          held,   \* the buffers each thread has acquired and not released
          pc      \* where each thread is in acquire

vars == <<free, held, pc>>

States == {"out",      \* not in acquire
           "check",    \* acquire(notice): about to take mutex for the first time
           "notice",   \* acquire(notice): found it empty, mutex released, notice runs
           "lock",     \* about to evaluate the predicate of condition.wait
           "blocked"}  \* in the wait set of condition

Init == /\ free = [i \in 1 .. BufferCount |-> i]
        /\ held = [t \in Threads |-> {}]
        /\ pc = [t \in Threads |-> "out"]

Blocked == {t \in Threads : pc[t] = "blocked"}

\* buffers.back() is moved out and popped.
PopTo(t) == /\ free # <<>>
            /\ held' = [held EXCEPT ![t] = @ \cup {free[Len(free)]}]
            /\ free' = SubSeq(free, 1, Len(free) - 1)

Acquire(t) == /\ pc[t] = "out"
              /\ Cardinality(held[t]) < MaxHeld
              /\ pc' = [pc EXCEPT ![t] = "lock"]
              /\ UNCHANGED <<free, held>>

AcquireNotice(t) == /\ pc[t] = "out"
                    /\ Cardinality(held[t]) < MaxHeld
                    /\ pc' = [pc EXCEPT ![t] = "check"]
                    /\ UNCHANGED <<free, held>>

\* Mutant: the buffer stays in the vector when it is handed out.
TakeNoPop(t) == /\ pc[t] \in {"check", "lock"}
                /\ free # <<>>
                /\ pc' = [pc EXCEPT ![t] = "out"]
                /\ held' = [held EXCEPT ![t] = @ \cup {free[Len(free)]}]
                /\ UNCHANGED free

\* The vector is not empty: acquire returns a buffer.
Take(t) == /\ pc[t] \in {"check", "lock"}
           /\ pc' = [pc EXCEPT ![t] = "out"]
           /\ PopTo(t)

\* acquire(notice) finds the vector empty and releases mutex for the notice.
NoticeBegin(t) == /\ pc[t] = "check"
                  /\ free = <<>>
                  /\ pc' = [pc EXCEPT ![t] = "notice"]
                  /\ UNCHANGED <<free, held>>

\* Mutant: after the notice the thread blocks without checking again.
NoticeThenBlock(t) == /\ pc[t] = "notice"
                      /\ pc' = [pc EXCEPT ![t] = "blocked"]
                      /\ UNCHANGED <<free, held>>

NoticeEnd(t) == /\ pc[t] = "notice"
                /\ pc' = [pc EXCEPT ![t] = "lock"]
                /\ UNCHANGED <<free, held>>

Block(t) == /\ pc[t] = "lock"
            /\ free = <<>>
            /\ pc' = [pc EXCEPT ![t] = "blocked"]
            /\ UNCHANGED <<free, held>>

SpuriousWake(t) == /\ pc[t] = "blocked"
                   /\ pc' = [pc EXCEPT ![t] = "lock"]
                   /\ UNCHANGED <<free, held>>

\* try_acquire never waits; with an empty vector it changes nothing.
TryAcquire(t) == /\ pc[t] = "out"
                 /\ Cardinality(held[t]) < MaxHeld
                 /\ PopTo(t)
                 /\ UNCHANGED pc

NotifyOne == \/ /\ Blocked = {}
                /\ UNCHANGED pc
             \/ \E u \in Blocked : pc' = [pc EXCEPT ![u] = "lock"]

\* Mutant: nobody is told that a buffer has come back.
ReleaseSilent(t, b) == /\ pc[t] \in {"out", "notice"}
                       /\ b \in held[t]
                       /\ held' = [held EXCEPT ![t] = @ \ {b}]
                       /\ free' = Append(free, b)
                       /\ UNCHANGED pc

\* The push and notify_one, both under mutex.  A notice may release too: that
\* is what acquire(notice) runs it for.
Release(t, b) == /\ pc[t] \in {"out", "notice"}
                 /\ b \in held[t]
                 /\ held' = [held EXCEPT ![t] = @ \ {b}]
                 /\ free' = Append(free, b)
                 /\ NotifyOne

\* What acquire does once it has been called.
AcquireStep(t) == Take(t) \/ NoticeBegin(t) \/ NoticeEnd(t) \/ Block(t)

Next == \E t \in Threads :
            \/ Acquire(t) \/ AcquireNotice(t) \/ TryAcquire(t)
            \/ AcquireStep(t) \/ SpuriousWake(t)
            \/ \E b \in Buffers : Release(t, b)

\* A thread inside acquire runs whenever it can, and a notice returns.  No
\* caller has to acquire or to release, and nobody is owed a spurious wake-up.
Fairness == \A t \in Threads : WF_vars(AcquireStep(t))

SafeSpec == Init /\ [][Next]_vars
Spec == SafeSpec /\ Fairness

--------------------------------------------------------------------------------
(* Properties *)

TypeOK == /\ free \in Seq(Buffers)
          /\ held \in [Threads -> SUBSET Buffers]
          /\ pc \in [Threads -> States]

\* A buffer is in one place: once in the vector, or with one thread; none is
\* duplicated by a move that leaves it behind and none leaks (back/pop_back in
\* acquire and try_acquire against emplace_back in release).
IsFree(b) == \E i \in DOMAIN free : free[i] = b
BuffersConserved ==
    /\ \A i, j \in DOMAIN free : free[i] = free[j] => i = j
    /\ \A t \in Threads : \A b \in held[t] :
          ~IsFree(b) /\ \A u \in Threads : b \in held[u] => t = u
    /\ \A b \in Buffers : IsFree(b) \/ \E t \in Threads : b \in held[t]

\* While a thread sleeps in acquire, each buffer that is back in the vector is
\* covered by a thread that is about to look (release's notify_one against a
\* predicate checked, a notice run outside mutex, and callers that barge in).
Rechecking == {t \in Threads : pc[t] = "lock"}
NoStrandedBuffer == Blocked # {} => Len(free) <= Cardinality(Rechecking)

\* The pool keeps the promises of BufferService: exclusive buffers, and no
\* free buffer is left lying while everybody who wants one sleeps.
Service == INSTANCE BufferService WITH
    available <- {b \in Buffers : IsFree(b)},
    holds <- held,
    waiting <- {t \in Threads : pc[t] # "out"}
ImplementsService == Service!Spec
================================================================================

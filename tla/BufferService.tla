----------------------------- MODULE BufferService -----------------------------
(***************************************************************************)
(* What meta::buffer_pool promises its callers, without the mutex, the     *)
(* condition variable or the order of the free buffers: a buffer has at    *)
(* most one holder, and while a buffer is free and somebody waits for one, *)
(* somebody eventually gets one.  Who does is not promised.                *)
(***************************************************************************)
EXTENDS Naturals

CONSTANTS Threads, Buffers

VARIABLES available,  \* buffers nobody holds
          holds,      \* the buffers each thread holds
          waiting     \* threads inside acquire

vars == <<available, holds, waiting>>

Init == /\ available = Buffers
        /\ holds = [t \in Threads |-> {}]
        /\ waiting = {}

Request(t) == /\ t \notin waiting
              /\ waiting' = waiting \cup {t}
              /\ UNCHANGED <<available, holds>>

Get(t, b) == /\ b \in available
             /\ available' = available \ {b}
             /\ holds' = [holds EXCEPT ![t] = @ \cup {b}]

Grant(t) == /\ t \in waiting
            /\ waiting' = waiting \ {t}
            /\ \E b \in available : Get(t, b)

\* try_acquire: no waiting.
GrantNow(t) == /\ t \notin waiting
               /\ UNCHANGED waiting
               /\ \E b \in available : Get(t, b)

GiveBack(t, b) == /\ b \in holds[t]
                  /\ available' = available \cup {b}
                  /\ holds' = [holds EXCEPT ![t] = @ \ {b}]
                  /\ UNCHANGED waiting

Next == \E t \in Threads : \/ Request(t) \/ Grant(t) \/ GrantNow(t)
                           \/ \E b \in Buffers : GiveBack(t, b)

SafeSpec == Init /\ [][Next]_vars
Spec == SafeSpec /\ WF_vars(\E t \in Threads : Grant(t))
================================================================================

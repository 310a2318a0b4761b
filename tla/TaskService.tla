------------------------------ MODULE TaskService ------------------------------
(***************************************************************************)
(* What meta::thread_pool promises its callers, without threads, locks or  *)
(* condition variables: a task that submit or submit_detached accepts is   *)
(* started in the order of acceptance, at most Capacity at a time, runs    *)
(* exactly once, and once the service is closed the call that closed it    *)
(* returns (drained) only when nothing accepted is left to run.            *)
(***************************************************************************)
EXTENDS Naturals, Sequences, FiniteSets

CONSTANTS Tasks,     \* the tasks callers may submit
          Capacity   \* how many tasks may run at once

VARIABLES queue,     \* accepted tasks not started yet, oldest first
          running,   \* started and not finished
          fate,      \* what became of each task
          closed,    \* no task is accepted any more
          drained    \* the close has returned

vars == <<queue, running, fate, closed, drained>>

Fates == {"unsubmitted", "accepted", "refused", "done"}

Init == /\ queue = <<>>
        /\ running = {}
        /\ fate = [t \in Tasks |-> "unsubmitted"]
        /\ closed = FALSE
        /\ drained = FALSE

Accept(t) == /\ fate[t] = "unsubmitted"
             /\ ~closed
             /\ queue' = Append(queue, t)
             /\ fate' = [fate EXCEPT ![t] = "accepted"]
             /\ UNCHANGED <<running, closed, drained>>

Refuse(t) == /\ fate[t] = "unsubmitted"
             /\ closed
             /\ fate' = [fate EXCEPT ![t] = "refused"]
             /\ UNCHANGED <<queue, running, closed, drained>>

Start == /\ queue # <<>>
         /\ Cardinality(running) < Capacity
         /\ running' = running \cup {Head(queue)}
         /\ queue' = Tail(queue)
         /\ UNCHANGED <<fate, closed, drained>>

Finish(t) == /\ t \in running
             /\ running' = running \ {t}
             /\ fate' = [fate EXCEPT ![t] = "done"]
             /\ UNCHANGED <<queue, closed, drained>>

Close == /\ ~closed
         /\ closed' = TRUE
         /\ UNCHANGED <<queue, running, fate, drained>>

Drain == /\ closed
         /\ ~drained
         /\ queue = <<>>
         /\ running = {}
         /\ drained' = TRUE
         /\ UNCHANGED <<queue, running, fate, closed>>

Next == \/ \E t \in Tasks : Accept(t) \/ Refuse(t) \/ Finish(t)
        \/ Start
        \/ Close
        \/ Drain

\* Safety alone, and with the progress the pool owes its callers.
SafeSpec == Init /\ [][Next]_vars
Spec == /\ SafeSpec
        /\ WF_vars(Start)
        /\ \A t \in Tasks : WF_vars(Finish(t))
        /\ WF_vars(Drain)
================================================================================

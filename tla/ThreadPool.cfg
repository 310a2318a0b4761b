SPECIFICATION Spec
CONSTANTS
    Workers = {w1, w2, w3}
    Clients = {c1, c2}
    Closers = {s1, s2}
    Tasks = {t1, t2, t3}
    NoTask = NoTask
INVARIANTS WakeupsCoverQueue TasksConserved ShutdownDrains
PROPERTIES ImplementsService ShutdownTerminates
\* The pool may stop for good: shut down, every worker gone, nothing to submit.
CHECK_DEADLOCK FALSE

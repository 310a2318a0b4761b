SPECIFICATION Spec
CONSTANTS
    Threads = {t1, t2, t3, t4}
    BufferCount = 3
    MaxHeld = 2
INVARIANTS BuffersConserved NoStrandedBuffer
PROPERTIES ImplementsService
\* Callers that hold buffers and ask for more may all wait for each other.
CHECK_DEADLOCK FALSE

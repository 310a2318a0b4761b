SPECIFICATION Spec
CONSTANTS
    Workers = {w1, w2}
    BufferCount = 2
    Caller = caller
    c1 = c1
    c2 = c2
    c3 = c3
    Chunks = {c1, c2, c3}
    NoChunk = NoChunk
    Plan <- OneSearch
    Matching = {c1}
    Unreadable = {c2}
PROPERTY WaitReturns
\* The caller may have no search left to start or to wait for.
CHECK_DEADLOCK FALSE

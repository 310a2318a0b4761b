SPECIFICATION Spec
CONSTANTS
    Workers = {w1, w2}
    BufferCount = 2
    c1 = c1
    c2 = c2
    c3 = c3
    c4 = c4
    c5 = c5
    Chunks = {c1, c2, c3, c4, c5}
    Nothing = Nothing
    RegionCount = 2
    Plans <- OneBatch
    Unreadable = {}
INVARIANTS BatchHasRoom
\* The search ends.
CHECK_DEADLOCK FALSE

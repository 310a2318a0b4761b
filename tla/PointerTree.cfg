SPECIFICATION Spec
CONSTANTS
    Struct <- MCStruct
    Roots = {"data1", "twins", "wide", "top"}
    SizeOf <- MCSize
    RootAddr = 10
    Memories <- MCMemories
    Hot <- MCHot
    HotValues <- MCHotValues
    UIO_MAXIOV = 2
    MaxCalls = 2
    MaxWrites = 2
INVARIANTS RegionsCounted Coherent ReadsTree FailureContained
\* The calls are used up.
CHECK_DEADLOCK FALSE

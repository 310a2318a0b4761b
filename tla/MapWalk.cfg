SPECIFICATION Spec
CONSTANTS
    Types = {"C_ALLOC", "STACK"}
    MapLists <- MCMapLists
    BufferSize = 8
    PageSize = 4
    WordSize = 2
INVARIANTS ChunksFit ChunksDisjoint AllWalkedHanded WordsScannedOnce
PROPERTY WalkEnds
\* The walk ends.
CHECK_DEADLOCK FALSE

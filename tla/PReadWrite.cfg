SPECIFICATION Spec
CONSTANTS
    Objects = {a, b, c}
    Pids = {p, q}
    NoPid = NoPid
    MaxFd = 2
    MaxStarts = 3
SYMMETRY Symmetry
INVARIANTS DescriptorsOwned
PROPERTIES KeepsToProcess OnlyMoveMisleads

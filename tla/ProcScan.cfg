SPECIFICATION ScanSpec
CONSTANTS
    ScanPids = {1, 2, 3}
    Names = {"app", "tool", ""}
    NoName = ""
    Apps = {"app"}
    NoProcess = "none"
INVARIANTS FoundWasNamed NoneMissed EachOnce FilesClosed
PROPERTIES ScanEnds

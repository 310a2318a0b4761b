SPECIFICATION PackageSpec
CONSTANTS
    Letters <- MCLetters
    Digits <- MCDigits
    Colon = ":"
    Name <- MCName
    Uid <- MCUid
    StatusFiles <- MCFiles
    Installed <- MCInstalled
    AppDigits = 2
    BufferSize = 19
    Asked <- MCAsked
    Objects = {a, b}
    MaxLoads = 2
SYMMETRY Swaps
INVARIANTS ValuesAreFile NumbersStay AppMeansApp
\* The program may have ended.
CHECK_DEADLOCK FALSE

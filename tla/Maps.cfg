SPECIFICATION Spec
CONSTANTS
    Letters <- MCLetters
    Digits <- MCDigits
    Files <- MCFiles
INVARIANTS EntriesAreLines NoLineMissed CursorInText TypesFitLines
\* The program may have ended, or the client be content.
CHECK_DEADLOCK FALSE

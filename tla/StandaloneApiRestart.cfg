\* One accepted request, one end of the process.
CONSTANTS
    Runs = {r1}
    MaxCrashes = 1
SPECIFICATION StandaloneSpec
INVARIANT ComesUpAgain
\* Every request can be used up.
CHECK_DEADLOCK FALSE

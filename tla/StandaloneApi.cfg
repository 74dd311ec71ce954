\* Three accepted requests, two ends of the process.
CONSTANTS
    Runs = {r1, r2, r3}
    MaxCrashes = 2
SPECIFICATION StandaloneSpec
INVARIANTS
    CompleteMatchesFiles
    OneScanUnlessRaced
PROPERTY RunningEnds
\* Every request can be used up.
CHECK_DEADLOCK FALSE

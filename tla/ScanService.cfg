\* Two users, one scope that may be deleted under requests in progress, one target,
\* two scans, three requests at a time.
CONSTANTS
    Users = {u1, u2}
    Scopes = {x1}
    Targets = {t1}
    Scans = {s1, s2}
    Requests = {r1, r2, r3}
    MaxValidations = 2
SPECIFICATION Spec
INVARIANTS
    TypeOK
    ScansUnderActiveScope
    ActiveScopeWasValidated
    VisibleScanWasQueued
    CancelledScanWasRevoked
    ActiveScansBounded
PROPERTY EndIsFinal
\* Every id can be used up: no request is then possible.
CHECK_DEADLOCK FALSE

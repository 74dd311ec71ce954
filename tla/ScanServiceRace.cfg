\* Two users, one scope that may be deleted under requests in progress, one target,
\* two scans, two requests at a time.
CONSTANTS
    Users = {u1, u2}
    Scopes = {x1}
    Targets = {t1}
    Scans = {s1, s2}
    Requests = {r1, r2}
    MaxValidations = 2
SPECIFICATION Spec
INVARIANT OneActiveScanPerTarget
\* Every id can be used up: no request is then possible.
CHECK_DEADLOCK FALSE

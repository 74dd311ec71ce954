\* Two requests at a time, one scan, one pool process, one fault, one revocation on its way.
CONSTANTS
    Users = {u1}
    Scopes = {x1}
    Targets = {t1}
    Scans = {s1}
    Requests = {r1, r2}
    MaxValidations = 1
    Workers = {w1}
    MaxFaults = 1
    MaxBroadcasts = 1
    Deployments <- SystemDeployments
SPECIFICATION SystemSpec
INVARIANTS
    RunningScanIsWorkedOn
    CancelledReportExplained
    OrphanWorkflowExplained
CHECK_DEADLOCK FALSE

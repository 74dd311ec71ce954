\* One scan, two pool processes, one fault: a process dies, a message is
\* redelivered or the worker restarts.
CONSTANTS
    Scans = {s1}
    Workers = {w1, w2}
    MaxFaults = 1
    Deployments <- AllDeployments
SPECIFICATION FairSpec
INVARIANTS
    TypeOK
    PhaseOrder
    NothingLost
    ExactlyOnceWithoutFaults
    RevokedReportNotRunning
    RaisingTaskStopsChain
PROPERTIES
    WorkflowSettles
    ImplementsPhasedWorkflow
\* A workflow ends, and may wait for a queue that nothing consumes.
CHECK_DEADLOCK FALSE

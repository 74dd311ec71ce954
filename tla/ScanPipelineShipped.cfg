\* The deployment the repository ships: no workflow gets to its report.
CONSTANTS
    Scans = {s1}
    Workers = {w1}
    MaxFaults = 0
    Deployments <- ShippedOnly
SPECIFICATION FairSpec
PROPERTY ReachesReport
CHECK_DEADLOCK FALSE

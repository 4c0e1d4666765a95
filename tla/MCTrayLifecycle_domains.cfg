SPECIFICATION FairSpec
CONSTANTS
    MaxRuns = 2
    Callers = {u1}
    Sessions = {s1}
    Ports = {1443}
    AutoDomains = {TRUE}
    WaitsForClients = FALSE
PROPERTY
    StartedRunServes
CHECK_DEADLOCK FALSE

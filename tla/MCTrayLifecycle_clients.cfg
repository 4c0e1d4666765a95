SPECIFICATION FairSpec
CONSTANTS
    MaxRuns = 2
    Callers = {u1}
    Sessions = {s1}
    Ports = {1443}
    AutoDomains = {FALSE}
    WaitsForClients = TRUE
PROPERTY
    StopIsHonoured
CHECK_DEADLOCK FALSE

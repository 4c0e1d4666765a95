SPECIFICATION FairSpec
CONSTANTS
    MaxRuns = 3
    Callers = {u1, u2}
    Sessions = {s1}
    Ports = {1443, 1444}
    AutoDomains = {FALSE}
    WaitsForClients = FALSE
INVARIANTS
    StopIsHeard
    NoRunawayRun
    RestartFindsPortFree
    DrainsOwnSessions
PROPERTIES
    StopIsHonoured
    RestartReturns
    StartedRunServes
CHECK_DEADLOCK FALSE

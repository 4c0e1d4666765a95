SPECIFICATION FairSpec
CONSTANTS
    Sessions = {s1, s2}
    Keys = {dc2, dc5, dc7}
    Configured = {dc2}
    Default = {dc2, dc5}
    Workers = {w1, w2}
    UseCf = TRUE
    CfDomains = {d1, d2}
    Nothing = Nothing
INVARIANTS
    TcpIsLastResort
    ActiveIsExact
PROPERTIES
    SearchEnds
    BlacklistJustified
CHECK_DEADLOCK FALSE

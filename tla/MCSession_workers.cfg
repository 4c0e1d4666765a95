SPECIFICATION Spec
CONSTANTS
    Sessions = {s1, s2}
    Keys = {dc2, dc5}
    Configured = {dc2}
    Default = {dc2, dc5}
    Workers = {w1, w2}
    UseCf = FALSE
    CfDomains = {d1}
    Nothing = Nothing
INVARIANT
    WorkersAllTried
CHECK_DEADLOCK FALSE

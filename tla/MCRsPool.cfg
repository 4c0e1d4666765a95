SPECIFICATION FairSpec
CONSTANTS
    c1 = c1
    c2 = c2
    c3 = c3
    s1 = s1
    s2 = s2
    Keys = {dc2}
    PoolSize = 2
    Conns <- MCConns
    Sessions <- MCSessions
    Nobody = Nobody
INVARIANTS
    MarkedIffRefilling
    OneOwner
PROPERTIES
    RefillsEnd
    ImplementsBoundedPool
CHECK_DEADLOCK FALSE

SPECIFICATION FairSpec
CONSTANTS
    dc2 = dc2
    dc2m = dc2m
    dc2int = dc2int
    Keys <- MCKeys
    WarmKeys <- MCPairs
    GetKeys = {dc2, dc2int}
    RefillKeys <- MCPairs
    PoolSize = 2
    Conns = {c1, c2, c3}
    Tasks = {t1, t2, t3}
    Dialing = Dialing
    MaxResets = 0
INVARIANTS
    BucketBound
    OneRefillPerMark
    OneOwner
PROPERTIES
    RefillsEnd
    ImplementsBoundedPool
CHECK_DEADLOCK FALSE

SPECIFICATION Spec
CONSTANTS
    c1 = c1
    c2 = c2
    c3 = c3
    t1 = t1
    t2 = t2
    t3 = t3
    t4 = t4
    t5 = t5
    DCs <- MCDCs
    Keys <- MCKeys
    WarmKeys <- MCWarmKeys
    GetKeys <- MCGetKeys
    RefillKeys <- MCWarmKeys
    PoolSize = 1
    Conns <- MCConns
    Tasks <- MCTasks
    Dialing = Dialing
    MaxResets = 0
PROPERTY
    WarmConnectionIsUsed
CHECK_DEADLOCK FALSE

SPECIFICATION FairSpec
CONSTANTS
    t1 = t1
    t2 = t2
    t3 = t3
    t4 = t4
    t5 = t5
    Threads <- FiveThreads
    Permits = 1
    PoolSize = 2
CHECK_DEADLOCK FALSE
INVARIANTS NeverRefused OnePool ConnectionsAreExclusive
PROPERTY AllComeBack

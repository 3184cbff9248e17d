SPECIFICATION FairSpec
CONSTANTS
    t1 = t1
    t2 = t2
    t3 = t3
    matcha = matcha
    riven = riven
    Threads <- MCThreads
    Keys <- MCKeys
INVARIANTS OnePoolPerKey MapIsGuarded
PROPERTIES PoolsStay EveryBuildReturns

SPECIFICATION TSpec
CONSTANTS
    g1 = g1
    g2 = g2
    n1 = n1
    b1 = b1
    GetThreads <- MCGet
    TryGetThreads <- MCTryGet
    TryBlockGetThreads <- MCTryBlockGet
    Threads <- MCThreads
    Calls <- MCCalls
    Count = 2
    Fair = TRUE
    MaxHold = 1
CHECK_DEADLOCK FALSE
PROPERTY EveryThreadEnds

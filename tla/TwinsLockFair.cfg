SPECIFICATION OSpec
CONSTANTS
    t1 = t1
    t2 = t2
    t3 = t3
    Threads <- ThreeThreads
    Count = 1
    Fair = TRUE
    Calls <- LockAndTimed
    MaxHold = 1
PROPERTIES NoSecondOvertaking QueuedLockIsServed

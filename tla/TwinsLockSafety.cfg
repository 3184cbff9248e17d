SPECIFICATION Spec
CONSTANTS
    t1 = t1
    t2 = t2
    t3 = t3
    Threads <- ThreeThreads
    Count = 2
    Fair = TRUE
    Calls <- AllCalls
    MaxHold = 2
SYMMETRY Symmetry
INVARIANTS TypeOK PermitConservation NoLostWakeup
PROPERTY AbstractSpec

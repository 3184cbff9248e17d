SPECIFICATION Spec
CONSTANTS
    t1 = t1
    t2 = t2
    t3 = t3
    a = a
    b = b
    Null = Null
    Threads <- MCThreads
    Elements <- MCElements
    QueueSize = 3
    Spurious = FALSE
PROPERTY FifoSpec

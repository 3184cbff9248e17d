CONSTANTS
    NumWorkers = 2 Capacity = 2 MaxJobs = 5
    NumCustomers = 3 NumMissions = 4
    ThreadCount = 5
    StartA = 1 StartB = 7 Turns = 5
    Getters = {1, 2} Putters = {3} Rounds = 2 Calls = 1
    Callers = {1, 2} Batches <- TwoAndOne BatchSize = 1 Interruptible = {1}
    Ends = {1, 3, 4, 7, 10} THERE_SHOULD = 2
    Members = {1, 2} Null = 0 InitialSize = 1 MaxSize = 4
SPECIFICATION ProgramsSpec
INVARIANTS SharedDataOK NothingThrows WakeUpToCome OnlyRunnablesBreak
PROPERTIES PoolSpec EveryJobBegins EveryProgramEnds ListSpec
CHECK_DEADLOCK FALSE

SPECIFICATION FairSpec
CONSTANTS
    NumOfferers = 3
    NumPollers = 2
    HeadOfferers <- First
    HeadPollers <- First
    MaxCount = 4
INVARIANTS NobodyLostOrDoubled StopComesLast
PROPERTY EveryThreadEnds
CHECK_DEADLOCK FALSE

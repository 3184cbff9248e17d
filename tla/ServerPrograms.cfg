CONSTANTS
    Clients = {1, 2} Nobody = 0 Runs = 2 InFlight = 2 Faults = 1
    Threads = {1, 2, 3} Calls = 4
    ServerClients = {1, 2, 3} Workers = {1, 2} None = 0 Crashing = {1}
    SelectClients = {1, 2} Pieces = 3 Inside = {2}
SPECIFICATION ProgramsSpec
INVARIANTS ServersOK OrphanedByLoss
PROPERTIES SessionSpec OrphanShutsOut LeakIsForGood EveryCallEnds
CHECK_DEADLOCK FALSE

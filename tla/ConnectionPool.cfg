SPECIFICATION Spec
CONSTANTS
    insert = insert
    query = query
    update = update
    Threads <- MCThreads
    MaxConnectionCount = 2
    MaxCreated = 3
SYMMETRY Symmetry
INVARIANTS TypeOK OneThreadPerConnection NoOpenTransactionInPool
PROPERTY LostOnlyWhenFullOrRacing

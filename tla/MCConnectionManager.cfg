SPECIFICATION FairSpec
CONSTANTS
    Clients = {c1, c2}
    MaxBatch = 3
INVARIANTS
    RegisteredHasHandler
PROPERTIES
    ImplementsBatchLog
    ClosedIsRemoved
    BatchReachesClients
CHECK_DEADLOCK FALSE

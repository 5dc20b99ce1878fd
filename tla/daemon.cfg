SPECIFICATION Spec
CHECK_DEADLOCK FALSE
CONSTANTS
    Clients <- TwoClients
    Descriptors = 2
INVARIANTS
    TypeOK
    JoinedBeforeFreed
    ServerStays
    RemovedStaysOut
PROPERTIES
    Answered
    LeavesWithThread

SPECIFICATION Spec
CHECK_DEADLOCK FALSE
CONSTANTS
    Messages <- Mixed
    Count = 2
    Width = 4
    HashSize = 2
    Allocation = 3
    Packet = 2
    MaxSend = 9
    MaxReceive = 8
INVARIANTS
    TypeOK
    Framed
    StoresWhatWasSent
PROPERTIES
    Delivered

SPECIFICATION Spec
CHECK_DEADLOCK FALSE
CONSTANTS
    Messages <- Emptied
    Count = 1
    Width = 4
    HashSize = 2
    Allocation = 3
    Packet = 2
    MaxSend = 9
    MaxReceive = 8
INVARIANTS
    StoresWhatWasSent

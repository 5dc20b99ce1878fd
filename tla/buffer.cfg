SPECIFICATION Spec
CONSTANTS
    Byte <- Bytes
    Limit = 3
    MaxSize = 4
    Lengths <- SomeLengths
    Data <- SomeData
    Offsets <- SomeOffsets
    ValueSize = 2
INVARIANTS
    TypeOK
    CursorsAgree
PROPERTIES
    FlatSpec

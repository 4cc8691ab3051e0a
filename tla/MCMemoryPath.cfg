CONSTANTS
    ByteBits = 1
    BYTE = 1
    HALF = 2
    WORD = 4
    DOUBLE = 8
    Base = 16
    Size = 16
    LowLimit = 2
    Counter = 16
    Addresses <- MCAddresses
    Values <- MCValues
    Encodings <- MCEncodings
    MaxDepth = 3
    MaxCount = 2
SPECIFICATION Spec
INVARIANTS
    TypeOK
    NoLostCount
    LoadsAgree
    AmosAgree
PROPERTY
    ScReplacesWhatLrRead

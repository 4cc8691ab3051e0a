CONSTANTS
    a = a
    b = b
    NUL = NUL
    FifoSize = 2
    Chars <- OneChar
    LsrWrites <- EveryLsr
    Serial = FALSE
SPECIFICATION Spec
INVARIANTS
    TypeOK
    CountWithinFifo
    DrawnAtMostOnce
PROPERTY TransmitterRecovers

CONSTANTS
    a = a
    b = b
    NUL = NUL
    FifoSize = 2
    Chars <- OneChar
    LsrWrites <- NoLsr
    Serial = FALSE
SPECIFICATION Spec
INVARIANT NotIdleMeansDataOk

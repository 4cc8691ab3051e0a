CONSTANTS
    a = a
    b = b
    NUL = NUL
    FifoSize = 3
    Chars <- TwoChars
    LsrWrites <- NoLsr
    Serial = TRUE
SPECIFICATION Spec
INVARIANT StatusIsTrue
PROPERTY ImplementsPort

CONSTANTS
    XLen <- MCXLen
    WLen <- MCWLen
    Regs <- MCRegs
    Operands <- MCOperands
    Immediates <- MCImmediates
SPECIFICATION Spec
INVARIANTS
    TypeOK
    DivisionIdentity
    ProductHalves
    NarrowForms
    ArithmeticShift

CONSTANTS
    LowPc <- MCLowPc
    BasePc <- MCBasePc
    EndPc <- MCEndPc
    LoadPc <- MCLoadPc
    Targets <- MCTargets
    MppValues <- MCMppValues
    MieValues <- MCMieValues
SPECIFICATION Spec
INVARIANT TrapMarksPcUpdated

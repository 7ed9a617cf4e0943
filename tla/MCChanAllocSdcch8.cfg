CONSTANTS
    NTrx = 2
    NumTs = 3
    Subslots <- MCSubslots
    ChanAllocReverse = FALSE
SPECIFICATION Spec
INVARIANT Sdcch8OnlyOnTs1

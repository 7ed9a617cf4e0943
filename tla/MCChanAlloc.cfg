CONSTANTS
    NTrx = 2
    NumTs = 2
    Subslots <- MCSubslots
    ChanAllocReverse = FALSE
SPECIFICATION Spec
INVARIANT TypeOK
INVARIANT TypeMatchesPchan
INVARIANT ConnOnLiveLchan

CONSTANTS
    NArfcn = 10
    MaBytes = 2
SPECIFICATION Spec
INVARIANT MaCorrect
CHECK_DEADLOCK FALSE

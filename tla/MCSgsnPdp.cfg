CONSTANTS
    Ctxs = {p1, p2, p3}
    LibCapacity = 2
    GgsnVersion = 1
    MaxCreates = 4
    RecoveryValues = {0, 1}
SPECIFICATION Spec
INVARIANT TypeOK
 
INVARIANT SndcpOnlyEstablished
INVARIANT ImsiIe

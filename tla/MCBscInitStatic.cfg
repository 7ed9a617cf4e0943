CONSTANTS
    Trxs = {c0, trx1}
    C0 = c0
    StaticSis = {5}
    Arfcns = {0, 1, 124, 125, 128, 251, 512, 810, 885, 886, 955, 1023}
SPECIFICATION Spec
INVARIANT SiLengthsRight
CHECK_DEADLOCK FALSE

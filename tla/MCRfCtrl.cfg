CONSTANTS
    Trxs = {t1, t2}
    MaxCmds = 4
SPECIFICATION Spec
INVARIANT TypeOK
INVARIANT GraceTimerOnlyInGrace
INVARIANT RfCheckOnlyWhenOn

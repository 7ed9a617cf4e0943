CONSTANTS
    Btss = {"bts0"}
    Trxs = {"trx0"}
    Tss = {"ts0"}
    TrxBts <- MCTrxBts
    TsTrx <- MCTsTrx
SPECIFICATION Spec
INVARIANT IndexSubOwned

CONSTANTS
    b1 = b1
    b2 = b2
    b3 = b3
    Bts <- MCBts
    LacOrder <- MCLacOrder
    Subscrs = {s1, s2}
    MaxCalls <- MCMaxCalls
    CreditSlots <- MCCreditSlots
    LoadValues <- MCLoadValues
    FreeChansCheck = TRUE
SPECIFICATION Spec
INVARIANT TypeOK
INVARIANT NotStuck
INVARIANT OnePerBts

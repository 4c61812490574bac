\* Amounts finer than a quantum.
CONSTANTS
    Principal = 5
    RateNum = 1
    RateDen = 4
    Installments = 2
    Gateways = {g1, g2, g3}
    Amounts = {15, 20}
    LastMonth = 3
    MaxPenalty = 1
SPECIFICATION Spec
SYMMETRY Sym
INVARIANT RetriesAreRecognised
CHECK_DEADLOCK FALSE

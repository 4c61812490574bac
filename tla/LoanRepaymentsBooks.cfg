\* A principal of 5 quanta at a quarter a month, in two installments.
CONSTANTS
    Principal = 5
    RateNum = 1
    RateDen = 4
    Installments = 2
    Gateways = {g1, g2, g3}
    Amounts = {10, 20, 50, 70, 80}
    LastMonth = 3
    MaxPenalty = 1
SPECIFICATION Spec
SYMMETRY Sym
INVARIANTS
    TypeOK
    InterestOnOpeningBalance
    MoneyAccountedFor
    ScheduleFollowsRepayments
PROPERTIES
    QuotesAreExact
CHECK_DEADLOCK FALSE

\* A reversal that reuses the reference of an earlier reversal.
CONSTANTS
    Accounts = {a1}
    Loans = {}
    Refs = {r1, r2}
    Amounts = {10, 20}
    AdjustAmounts <- SomeCorrections
    MaxOpen = 1
    MaxBegins = 4
SPECIFICATION Spec
INVARIANTS SuccessMeansReversed
CHECK_DEADLOCK FALSE

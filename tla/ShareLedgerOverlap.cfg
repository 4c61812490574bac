\* Two transactions that overlap: the same property, violated.
CONSTANTS
    Accounts = {a1}
    Loans = {}
    Refs = {r1, r2}
    Amounts = {10, 20}
    AdjustAmounts <- SomeCorrections
    MaxOpen = 2
    MaxBegins = 3
SPECIFICATION Spec
INVARIANTS BalanceIsSumOfPostings
CHECK_DEADLOCK FALSE

\* Overlapping postings, retries, corrections, reversals and pledges on one account.
CONSTANTS
    Accounts = {a1}
    Loans = {l1}
    Refs = {r1, r2}
    Amounts <- SomeAmounts
    AdjustAmounts <- SomeCorrections
    MaxOpen = 2
    MaxBegins = 3
SPECIFICATION Spec
SYMMETRY SymRefs
CONSTRAINT WorkBound
INVARIANTS
    TypeOK
    PledgesCovered
    Books
    SuccessMeansPosted
PROPERTIES
    BalanceMovesByPosting
    ImplementsPositions
CHECK_DEADLOCK FALSE

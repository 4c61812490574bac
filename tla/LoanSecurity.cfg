\* Two loans of two, three members with one share each, two guarantors a loan.
CONSTANTS
    Loans = {l1, l2}
    Members = {m1, m2, m3}
    NoOne = NoOne
    Principals = {2}
    Guarantees = {1}
    OwnPledges = {0, 1}
    MaxGuarantors = 2
    MaxShares = 1
    MaxUnavailable = 1
SPECIFICATION Spec
SYMMETRY Sym
CONSTRAINT WorkBound
INVARIANTS
    TypeOK
    LoansSecured
    DomainsAgree
PROPERTIES
    SecurityHeldUntilLoanEnds
    ImplementsPositions
CHECK_DEADLOCK FALSE

\* A member closes while shares are pledged or a loan is outstanding.
CONSTANTS
    Loans = {l1}
    Members = {m1, m2, m3}
    NoOne = NoOne
    Principals = {2, 3}
    Guarantees = {1, 2}
    OwnPledges = {0, 1}
    MaxGuarantors = 2
    MaxShares = 2
    MaxUnavailable = 1
SPECIFICATION Spec
SYMMETRY Sym
INVARIANT ClosedMembersAreClear
CHECK_DEADLOCK FALSE

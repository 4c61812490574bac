CONSTANTS
    admin = admin
    manager = manager
    newcomer = newcomer
    things = {x1, x2}
    callers = {c1, c2}
    names = {n1, n2}
    refs = {r1, r2}
    NationalIds = {x1, x2}
    MemberCalls = {c1, c2}
    MaxChanges = 2
    StatusCalls = {c1, c2}
    MaxBegun = 3
    MaxMonths = 2
    Shareholders = {x1, x2}
    Facts <- MCFacts
    Managers = {c1, c2}
    Rates = {50}
    Vouchers = {n1, n2}
    NoPreview = NoPreview
    Approvers = {c1, c2}
    CeepFacts = {f1, f2, f3}
    BadFacts = {f3}
    NoReport = NoReport
    StaffIds = {admin, manager, newcomer}
    InitialRoles <- MCRoles
    HiredRoles = {"manager", "cashier"}
    MaxLeavers = 1
    Sessions = {x1, x2}
    Keys = {n1}
    BankRefs = {r1, r2}
    Amounts = {10}
    Counts = {0, 10, 15}
    Slips = {5, 10, 15, 20}
    CashCalls = {c1, c2}
    CreditIds = {x1, x2}
    CreditAmount = 2
    OperationIds = {n1, n2}
    OperationAmounts = {1, 2}
    PayoutRefs = {r1, r2}
    CreditCalls = {c1, c2}
    Listings <- MCListings
    Positions = {1, 2, 3, 4}
    PageSizes = {0, 1, 9}
    defaultPageSize = 2
    maxPageSize = 3
SPECIFICATION MCSpec
SYMMETRY Symmetry
CONSTRAINT CashBound
INVARIANTS
    OfficeTypeOK
    MemberRecordsAgree
    EligibilityHeld
    DividendsAddUp
    SettlementStaysOpen
    EveryoneSeesOneReport
    CashAccountedFor
    SeparationOfDuties
    CreditAccountedFor
    WalkListsEveryRowOnce
PROPERTIES
    DividendsImplementApproval
    CeepImplementsApproval
    DecisionsAreFinal
CHECK_DEADLOCK FALSE

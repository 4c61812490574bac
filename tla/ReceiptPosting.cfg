\* Two workers, two receipts; one server stop, timeout, staff retry or status change.
SPECIFICATION FairSpec
CONSTANTS
    Workers = {w1, w2}
    Accounts = {1, 2, 3}
    Loans = {1, 2, 3}
    AccountOf <- MCAccountOf
    OwnerOf <- MCOwnerOf
    Pledgors <- MCPledgors
    Debt <- MCDebt
    Fee = 1
    Charge <- MCCharge
    Requests <- MCRequests
    MaxReceipts = 2
    MaxFaults = 1
INVARIANTS
    TypeOK
    AllOrNothing
    DebtsPaidOnce
PROPERTIES
    PendingReceiptsSettle
CHECK_DEADLOCK FALSE

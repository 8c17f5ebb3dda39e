SPECIFICATION FairSpec
CONSTANTS
    Inventory <- MCInventory
    Active <- MCActive
    MaxPoints = 2
    Budgets = {5, 15}
    Concurrency = 2
    Collector = TRUE
    Identities = TRUE
INVARIANTS
    TypeOK
    OneRowEach
    ClaimsWithinBudget
    CompleteIsMeasured
PROPERTIES
    ExecuteEnds
CHECK_DEADLOCK FALSE

SPECIFICATION Spec
CONSTANTS
    whale = whale
    shark = shark
    tok = tok
    cash = cash
    Unit = 100
    Collateral = cash
    Tick = 10
    Batches <- MCBatches
    Watched = {whale, shark}
    Markets <- MCMarkets
    Rows <- MCRows
    Books <- MCBooks
    Policies <- MCPolicies
    Capacity = 2
    MaxBatches = 3
    MaxFailures = 2
INVARIANTS
    Inv
    WithinPolicy
PROPERTIES
    TradesAddUp
CHECK_DEADLOCK FALSE

SPECIFICATION FairSpec
CONSTANTS
    o1 = o1
    o2 = o2
    o3 = o3
    Orders = {o1, o2}
    NoOrder = NoOrder
    NonceKey <- DistinctKeys
    Bad = {}
    Unsettleable = {o1}
    Loop = loop
    Creators = {}
    Retriers = {r1}
    RetryStatuses = {"failed"}
    BatchSize = 2
    VaultConfigured = TRUE
    EngineConfigured = TRUE
    MaxIds = 2
    MaxBatches = 5
    FaultBudget <- RpcTwice
PROPERTY ImplementsLifecycle
PROPERTY OrdersReachOutcome
PROPERTY ClaimReleased
\* The system may stop: every request answered and no order pending.
CHECK_DEADLOCK FALSE

SPECIFICATION Spec
CONSTANTS
    o1 = o1
    o2 = o2
    o3 = o3
    Orders = {o1}
    NoOrder = NoOrder
    NonceKey <- DistinctKeys
    Bad = {}
    Unsettleable = {}
    Loop = loop
    Creators = {}
    Retriers = {r1}
    RetryStatuses = {"created", "submitted", "settled", "failed"}
    BatchSize = 1
    VaultConfigured = TRUE
    EngineConfigured = TRUE
    MaxIds = 1
    MaxBatches = 1
    FaultBudget <- RpcAndOutage
INVARIANT FailedNotExecuted
\* The system may stop: every request answered and no order pending.
CHECK_DEADLOCK FALSE

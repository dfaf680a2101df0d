SPECIFICATION Spec
CONSTANTS
    o1 = o1
    o2 = o2
    o3 = o3
    Orders = {o1, o2, o3}
    NoOrder = NoOrder
    NonceKey <- FirstTwoShare
    Bad = {o3}
    Unsettleable = {}
    Loop = loop
    Creators = {}
    Retriers = {r1, r2}
    RetryStatuses = {"failed"}
    BatchSize = 2
    VaultConfigured = FALSE
    EngineConfigured = FALSE
    MaxIds = 3
    MaxBatches = 2
    FaultBudget <- EachOnce
INVARIANT SettledBatchHasOutcomes
\* The system may stop: every request answered and no order pending.
CHECK_DEADLOCK FALSE

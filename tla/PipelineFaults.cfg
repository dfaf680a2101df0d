SPECIFICATION Spec
CONSTANTS
    o1 = o1
    o2 = o2
    o3 = o3
    Orders = {o1, o2}
    NoOrder = NoOrder
    NonceKey <- DistinctKeys
    Bad = {}
    Unsettleable = {}
    Loop = loop
    Creators = {c1}
    Retriers = {r1}
    RetryStatuses = {"created", "submitted", "settled", "failed"}
    BatchSize = 2
    VaultConfigured = TRUE
    EngineConfigured = TRUE
    MaxIds = 2
    MaxBatches = 2
    FaultBudget <- EachOnce
SYMMETRY OrderSymmetry
INVARIANT TypeOK
INVARIANT ClaimExclusive
INVARIANT SettledWasExecuted
INVARIANT ReceiptsMatchChain
INVARIANT ExecutedAsSealed
INVARIANT AmountIsOwn
PROPERTY SettledFinal
\* The system may stop: every request answered and no order pending.
CHECK_DEADLOCK FALSE

SPECIFICATION Spec
CONSTANTS
    FEE_BPS = 30
    BPS_DENOMINATOR = 10000
    MaxValue = 700
    MaxReserve = 10
    Decimals = 2
    SlippageBps = 100
    Significands = 512
    PowersOfTwo = {1, 2, 4, 8, 16, 32, 64, 128, 256, 512, 1024, 2048, 4096, 8192, 16384, 32768, 65536, 131072, 262144, 524288, 1048576, 2097152, 4194304, 8388608}
    FixedLimit = 6
    L = 5
    Participants = {1, 2, 3}
    Threshold = 2
    Clients = {k1, k2}
    windowMs = 2
    max = 2
    NoEntry = NoEntry
    MaxTime = 4
INVARIANT BurstIsBounded
INVARIANT IsqrtIsFloorRoot
INVARIANT AmountOutIsLargest
INVARIANT FormAmountsAreExact
INVARIANT KeysMatchCommitments
INVARIANT ProofsAreExact
INVARIANT AnyThresholdOpens
\* The walk ends at its last value.
CHECK_DEADLOCK FALSE

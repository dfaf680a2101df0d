SPECIFICATION Spec
CONSTANTS
    u1 = u1
    u2 = u2
    None = None
    Users = {u1, u2}
    Tokens = {1, 2}
    Pairs <- OnePool
    Funds <- ProviderAndTrader
    FEE_BPS = 1
    BPS_DENOMINATOR = 2
    Batches = {1}
    MaxOrders = 2
    OrderAmounts = {2}
INVARIANT ReservesAreHeld

SPECIFICATION Spec
CONSTANTS
    u1 = u1
    u2 = u2
    None = None
    Users = {u1, u2}
    Tokens = {1, 2, 3}
    Pairs <- TwoPools
    Funds <- ProviderAndTrader
    FEE_BPS = 1
    BPS_DENOMINATOR = 2
    Batches = {1}
    MaxOrders = 2
    OrderAmounts = {2}
INVARIANT TypeOK
INVARIANT SharesAreBacked
INVARIANT SupplyIsHeld
INVARIANT FeesAreAccounted
INVARIANT BooksBalance
PROPERTY ShareValueNeverDrops
PROPERTY SharesArePaidFor

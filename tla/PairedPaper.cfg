\* Two simulated trades, one venue a DEX: shared pools, gas, hedges that raise.
SPECIFICATION Spec
CONSTANTS
    t1 = t1
    t2 = t2
    v1 = v1
    v2 = v2
    Trades <- TwoTrades
    Venues <- TwoVenues
    Dex <- OneDex
    Size = 1
    Tol = 1
    Gas = 1
    Funds = 2
    MaxConcurrent = 2
    MaxFailures = 2
    Simulated = {TRUE}
    Events = {"hedge_error"}
SYMMETRY TradeSymmetry
INVARIANTS
    PoolCovers
    LedgerMatchesTrades
CHECK_DEADLOCK FALSE

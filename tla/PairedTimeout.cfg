\* A leg times out while the venue executes it.
SPECIFICATION Spec
CONSTANTS
    t1 = t1
    t2 = t2
    v1 = v1
    v2 = v2
    Trades <- OneTrade
    Venues <- TwoVenues
    Dex = {}
    Size = 1
    Tol = 0
    Gas = 0
    Funds = 1
    MaxConcurrent = 2
    MaxFailures = 2
    Simulated = {FALSE}
    Events = {"timeout"}
INVARIANTS
    EveryExposurePauses
CHECK_DEADLOCK FALSE

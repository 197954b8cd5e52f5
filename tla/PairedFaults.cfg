\* One trade with partial fills under faults and operators, simulated or on venues, scheduled fairly.
SPECIFICATION FairSpec
CONSTANTS
    t1 = t1
    t2 = t2
    v1 = v1
    v2 = v2
    Trades <- OneTrade
    Venues <- TwoVenues
    Dex = {}
    Size = 2
    Tol = 0
    Gas = 0
    Funds = 2
    MaxConcurrent = 2
    MaxFailures = 2
    Simulated = {TRUE, FALSE}
    Events = {"hedge_error", "db_error", "stop", "reset", "reset_paper", "timeout", "window", "bad_result"}
INVARIANTS
    CompletedIsFlat
    ExposurePauses
PROPERTIES
    CommitsOnlyWhenClear
    FlightEnds
    PoolsDrain
CHECK_DEADLOCK FALSE

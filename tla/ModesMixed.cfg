SPECIFICATION Spec
CONSTANTS
    r1 = r1
    r2 = r2
    t1 = t1
    UserModes <- PaperOnly
    Toggles <- Submitting
    TestRoute = FALSE
    Requests <- TwoRequests
    Trades <- OneTrade
    Faults = {"restart", "db_error"}
INVARIANT SimulatedTradesStaySimulated

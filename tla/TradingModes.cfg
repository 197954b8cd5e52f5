SPECIFICATION FairSpec
CONSTANTS
    r1 = r1
    r2 = r2
    t1 = t1
    UserModes <- PaperOnly
    Toggles <- Submitting
    TestRoute = TRUE
    Requests <- TwoRequests
    Trades <- OneTrade
    Faults = {"restart", "db_error"}
INVARIANTS
    LiveIsEarned
    NoLiveOrderUnlessAllowed
    BuiltForMode
PROPERTIES
    EntersLiveSafely
    RequestEnds

\* One venue: feed and health loop, one order and its lost answers, one simulated leg.
SPECIFICATION Spec
CONSTANTS
    Symbols <- TheSymbols
    Base <- TheBase
    Exchanges <- TheExchanges
    MaxVersion = 2
    UnhealthyAfter = 2
    RateLimitHits = 2
    MaxFaults = 2
    Size = 2
    MaxLost = 2
    Depths <- TheDepths
    Sizes = {1, 3, 5, 8}
    Slippages = {0, 1, 4}
    Tolerance = 2
    Stresses = {1, 2}
    Drifts = {0, 1}
    Impacts = {0, 1, 5}
    Floor = 3
INVARIANTS
    UnhealthyIsPaused
    NeverOverstated
    AnswerIsTrue
    SentOnce
    SizesFitTheirBook
    SimulationNeverFlatters
PROPERTIES
    BooksGoForward
    QuietVenueRecovers
CHECK_DEADLOCK FALSE

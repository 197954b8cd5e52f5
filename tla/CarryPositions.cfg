\* Two positions, the monitor and a request, on venues and simulated, under every fault.
SPECIFICATION Spec
CONSTANTS
    p1 = p1
    p2 = p2
    monitor = monitor
    request = request
    Positions <- TwoPositions
    Closers <- TwoClosers
    Monitor <- monitor
    Nobody = Nobody
    Sizes <- TwoSizes
    Funds = 2
    Simulated = {TRUE, FALSE}
    Faults = {"crash", "db_error", "leg_error", "partial"}
    Overrun = 1
INVARIANTS
    OneCloseAtATime
    BookedOnce
    NeverOversold
    PerpSettles
    SpotMatches
CHECK_DEADLOCK FALSE

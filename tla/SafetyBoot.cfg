\* A restart that reaches a venue before the breakers are loaded.
SPECIFICATION SafetySpec
CONSTANTS
    manual = manual
    exposure = exposure
    maintenance = maintenance
    l1 = l1
    l2 = l2
    o1 = o1
    o2 = o2
    Breakers <- AllBreakers
    Manual <- manual
    VenueBreakers <- Maintenance
    Loops <- OneLoop
    Operators <- OneOperator
    VenuesAtBoot = TRUE
    SafetyFaults = {"crash"}
INVARIANTS
    TrippedStaysTripped

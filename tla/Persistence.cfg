\* Withdrawals, breakers and the stop against crashes, failing writes and restarts.
SPECIFICATION PartsSpec
CONSTANTS
    d1 = d1
    r1 = r1
    r2 = r2
    e1 = e1
    Destinations <- OneDestination
    ClientKeys = {"k1"}
    Bodies <- KeyedAndNot
    Wallets <- LiveWallets
    Requests <- TwoRequests
    Editors <- OneEditor
    UserModes = {"PAPER"}
    Minutes = {1}
    RequireAllowlist = TRUE
    DelaysEntries = TRUE
    Faults = {"crash", "db_error"}
    manual = manual
    exposure = exposure
    maintenance = maintenance
    l1 = l1
    l2 = l2
    o1 = o1
    o2 = o2
    Breakers <- AllBreakers
    Manual <- manual
    VenueBreakers <- Maintenance
    Loops <- TwoLoops
    Operators <- OneOperator
    VenuesAtBoot = TRUE
    SafetyFaults = {"crash", "db_error"}
SYMMETRY CallerSymmetry
INVARIANTS
    RowsTellTheTruth
    OpenRowsHaveATask
    PersistedWhenQuiet
    OnlyStartsErase
    StopSurvives
PROPERTIES
    SendsOncePerKey

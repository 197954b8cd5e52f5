\* Routes of every kind, two scans, one change of the settings or of the world around them.
SPECIFICATION Spec
CONSTANTS
    k1 = k1
    k2 = k2
    k3 = k3
    pp = pp
    dA = dA
    dB = dB
    chX = chX
    Venues <- MCVenues
    KindOf <- MCKindOf
    ChainOf <- MCChainOf
    Strategies <- MCStrategies
    Listings <- MCListings
    Answers <- MCAnswers
    SettingsOf <- MCSettings
    WorldOf <- MCWorlds
    Funding <- MCFunding
    Extra = 0
    Ladder <- MCLadder
    Px = 100000
    TxGas = 2
    FlashGas = 4
    SmallTestNotional = 150000
    Start <- MCStart
    MaxEvaluations = 4
    MaxChanges = 1
INVARIANTS
    HonestProfit
    OneSafePerRoute
PROPERTIES
    ControlsHold
    HandedIsStrongest
CHECK_DEADLOCK FALSE

SPECIFICATION Spec
CONSTANTS
    t1 = t1
    t2 = t2
    Trades <- TwoTrades
    Quotes <- SomeQuotes
    Profits <- SomeProfits
    Slippage = 1
    Surcharge = 1
    MinProfit = 3
    Gas = 1
    MaxLoss = 1
    MaxSwitches = 1
    Faults = {"crash", "db_error", "lost_answer"}
INVARIANTS
    RowsTellTheTruth
    GainsCoverQuotes
    BooksAreCovered
PROPERTIES
    NothingNewIsSent
    TradeEnds
CHECK_DEADLOCK FALSE

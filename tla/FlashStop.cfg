\* A stop while a transaction is prepared.
SPECIFICATION Spec
CONSTANTS
    t1 = t1
    t2 = t2
    Trades <- TwoTrades
    Quotes <- SomeQuotes
    Profits <- SomeProfits
    Slippage = 1
    Surcharge = 1
    MinProfit = 3
    Gas = 1
    MaxLoss = 1
    MaxSwitches = 1
    Faults = {}
PROPERTIES
    StopBlocksLoans
CHECK_DEADLOCK FALSE

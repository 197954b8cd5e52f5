--------------------------- MODULE MCPairedExecution ---------------------------
(* Instances of PairedExecution for TLC.                                    *)
EXTENDS PairedExecution, TLC

CONSTANTS t1, t2, v1, v2

OneTrade  == {t1}
TwoTrades == {t1, t2}
TwoVenues == {v1, v2}
OneDex    == {v2}
TradeSymmetry == Permutations(Trades)
================================================================================

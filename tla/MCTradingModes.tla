----------------------------- MODULE MCTradingModes -----------------------------
(* Instances of TradingModes for TLC.                                       *)
EXTENDS TradingModes, TLC

CONSTANTS r1, r2, t1

PaperOnly   == {"PAPER"}
Submitting  == {[shadow |-> FALSE, auto |-> TRUE]}
TwoRequests == {r1, r2}
OneTrade    == {t1}
================================================================================

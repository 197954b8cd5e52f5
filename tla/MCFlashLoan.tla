------------------------------- MODULE MCFlashLoan -------------------------------
(* Instances of FlashLoan for TLC.                                          *)
EXTENDS FlashLoan

CONSTANTS t1, t2

TwoTrades == {t1, t2}

\* A quote that does not pay and one that does; swaps that make nothing, that fall short
\* of the quote by all that is allowed, so that they miss the minimum profit and an earlier
\* trade has to pay for it, and by less.
SomeQuotes  == {3, 4}
SomeProfits == {0, 2, 3}
================================================================================

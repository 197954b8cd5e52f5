------------------------------ MODULE PaperLedger ------------------------------
(***************************************************************************)
(* The simulated balances of connectors/paper/ledger.py.                   *)
(*                                                                         *)
(* A ledger is a function from accounts (a venue and an asset) to records  *)
(* [free, used].  Every method of PaperLedger takes the ledger's lock and  *)
(* never awaits inside it, so each is one operator on the whole ledger; a  *)
(* method that raises ValueError leaves the ledger as it was and is the    *)
(* failed guard of its caller.                                             *)
(*                                                                         *)
(* "used" is one pool per account: a reservation does not remember the     *)
(* trade it was made for.                                                  *)
(***************************************************************************)
EXTENDS Integers

Balance(free, used) == [free |-> free, used |-> used]

Total(balance) == balance.free + balance.used

Smaller(a, b) == IF a <= b THEN a ELSE b
Larger(a, b)  == IF a >= b THEN a ELSE b

(* seed: every account starts again with nothing reserved. *)
Seed(accounts, funds) == [a \in accounts |-> Balance(funds[a], 0)]

(* reserve: free -> used, refused when free does not cover the amount. *)
CanReserve(ledger, a, n) == ledger[a].free >= n
Reserve(ledger, a, n) ==
    [ledger EXCEPT ![a] = Balance(@.free - n, @.used + n)]

(* release: used -> free, never more than the pool holds. *)
ReleaseUncapped(ledger, a, n) ==           \* mutant: the pool is not looked at
    [ledger EXCEPT ![a] = Balance(@.free + n, @.used - n)]
Release(ledger, a, n) ==
    LET take == Smaller(n, ledger[a].used)
    IN  [ledger EXCEPT ![a] = Balance(@.free + take, @.used - take)]

(* What a fill takes from an account: the reservation pool, down to zero  *)
(* and without a check, or the free balance.                               *)
Consume(ledger, a, n, reserved) ==
    [ledger EXCEPT ![a] = IF reserved THEN Balance(@.free, Larger(0, @.used - n))
                                      ELSE Balance(@.free - n, @.used)]

Credit(ledger, a, n) == [ledger EXCEPT ![a].free = @ + n]

(* settle_fill: "out" is the account that pays, "in" the one that receives *)
(* (quote and base of a BUY, base and quote of a SELL; fees are part of    *)
(* the amounts).                                                           *)
SettleFill(ledger, out, spent, in, received, reserved) ==
    Credit(Consume(ledger, out, spent, reserved), in, received)

(* charge_gas: taken from free without a check; free may become negative.  *)
ChargeGasClamped(ledger, a, n) ==          \* mutant: stops at zero
    [ledger EXCEPT ![a].free = Larger(0, @ - n)]
ChargeGas(ledger, a, n) == [ledger EXCEPT ![a].free = @ - n]

(* settle_perp: the opening SELL moves the notional from the reservation   *)
(* (what it does not cover, from free) to the collateral account; the      *)
(* closing BUY returns the collateral with the short's profit or loss.     *)
OpenPerp(ledger, quote, collateral, notional, fee) ==
    LET moved == Smaller(ledger[quote].used, notional)
    IN  Credit([ledger EXCEPT ![quote] =
                    Balance(@.free - ((notional - moved) + fee), @.used - moved)],
               collateral, notional)

ClosePerpKept(ledger, quote, collateral, notional, fee) ==   \* mutant: bucket not emptied
    [ledger EXCEPT ![quote].free = @ + 2 * ledger[collateral].free - notional - fee]
ClosePerp(ledger, quote, collateral, notional, fee) ==
    LET entry == ledger[collateral].free
    IN  [ledger EXCEPT
            ![collateral].free = 0,
            ![quote].free = @ + entry + (entry - notional) - fee]
================================================================================

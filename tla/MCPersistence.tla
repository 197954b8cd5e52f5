----------------------------- MODULE MCPersistence -----------------------------
(***************************************************************************)
(* What the database must bring back, for TLC: withdrawals and their       *)
(* rows, breakers and the emergency stop.  The two share no state, so a    *)
(* run takes one of them at a time: the behaviours of each are those it    *)
(* has beside the other.                                                   *)
(***************************************************************************)
EXTENDS Transfers, MCSafetyControl

CONSTANTS d1, r1, r2, e1

OneDestination == {d1}
TwoRequests    == {r1, r2}
OneEditor      == {e1}

Withdrawal(family, key) == [family |-> family, to |-> d1, key |-> key]

\* A key that a client sends for either family, and no key.
KeyedAndNot == {Withdrawal("evm", "k1"), Withdrawal("evm", ""), Withdrawal("solana", "k1")}
LiveWallets == {[family |-> "evm", mode |-> "live"], [family |-> "solana", mode |-> "live"]}

VARIABLE part

\* The part that is not taken stays in its first state.
PartsInit == part \in {"transfers", "safety"} /\ Init /\ SafetyInit

TransferStep == part = "transfers" /\ Next /\ UNCHANGED safetyVars
SafetyStep   == part = "safety" /\ SafetyNext /\ UNCHANGED vars

PartsSpec == PartsInit /\ [][(TransferStep \/ SafetyStep) /\ UNCHANGED part]_<<part, vars, safetyVars>>
================================================================================

----------------------------- MODULE OncePerRequest -----------------------------
(***************************************************************************)
(* What the withdrawals ledger promises about one request: it is claimed   *)
(* before any money moves, money moves for it once at most and only while  *)
(* it is open, and it is closed as done only if money moved.  A request    *)
(* that is closed stays closed.                                            *)
(***************************************************************************)
EXTENDS Naturals

CONSTANT Keys  \* what two submissions of one request have in common

VARIABLES
    phase,  \* of each request
    moved   \* how often money was moved for it

vars == <<phase, moved>>

Phases == {"new", "open", "done", "refused"}

Init ==
    /\ phase = [k \in Keys |-> "new"]
    /\ moved = [k \in Keys |-> 0]

Enters(k, p) == phase' = [phase EXCEPT ![k] = p]

Claim(k) ==
    /\ phase[k] = "new"
    /\ Enters(k, "open")
    /\ UNCHANGED moved

Move(k) ==
    /\ phase[k] = "open" /\ moved[k] = 0
    /\ moved' = [moved EXCEPT ![k] = 1]
    /\ UNCHANGED phase

Finish(k) ==
    /\ phase[k] = "open" /\ moved[k] = 1
    /\ Enters(k, "done")
    /\ UNCHANGED moved

\* A refusal does not say that nothing moved: the answer may have been lost.
Refuse(k) ==
    /\ phase[k] = "open"
    /\ Enters(k, "refused")
    /\ UNCHANGED moved

Next == \E k \in Keys : Claim(k) \/ Move(k) \/ Finish(k) \/ Refuse(k)

Spec == Init /\ [][Next]_vars
================================================================================

---------------------------- MODULE MCCarryPositions ----------------------------
(* Instances of CarryPositions for TLC.                                     *)
EXTENDS CarryPositions

CONSTANTS p1, p2, monitor, request

OnePosition  == {p1}
TwoPositions == {p1, p2}
OneSize  == [p \in {p1} |-> 1]
SmallSizes == [p \in {p1, p2} |-> 1]
TwoSizes == [p \in {p1, p2} |-> IF p = p1 THEN 2 ELSE 1]
TwoClosers   == {monitor, request}
================================================================================

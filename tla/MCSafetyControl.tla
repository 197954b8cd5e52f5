---------------------------- MODULE MCSafetyControl ----------------------------
(* Instances of SafetyControl for TLC.                                      *)
EXTENDS SafetyControl, TLC

CONSTANTS manual, exposure, maintenance, l1, l2, o1, o2

AllBreakers  == {manual, exposure, maintenance}
Maintenance  == {maintenance}
OneLoop      == {l1}
TwoLoops     == {l1, l2}
OneOperator  == {o1}
TwoOperators == {o1, o2}
CallerSymmetry == Permutations(Loops) \cup Permutations(Operators)
================================================================================

------------------------------ MODULE MCTaskGraph ------------------------------
(***************************************************************************)
(* Small instances of TaskGraph.                                           *)
(***************************************************************************)
EXTENDS TaskGraph

OneContract  == {1}
TwoContracts == 1..2

ThreeIds == 1..3
FourIds  == 1..4

\* One contract with two duties, so that it can be split, and one with a single one.
OneDuty     == {<<1, 1>>}
ThreeDuties == {<<1, 1>>, <<1, 2>>, <<2, 1>>}
===============================================================================

-------------------------------- MODULE MCSerie --------------------------------
(***************************************************************************)
(* Instances of the tracker for TLC.                                       *)
(***************************************************************************)
EXTENDS Serie, TLC

Pid3 == 1..3
Pid4 == 1..4
JustInit == {1}
NameOnly == {"comm"}
NameAndUid == {"comm", "uid"}
OneValue == {1}
TwoValues == {1, 2}
Nobody == {}
Two == {2}

Symmetry == Permutations(Rec)
===============================================================================

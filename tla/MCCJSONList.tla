---------------------------- MODULE MCCJSONList ----------------------------
(* CJSONList on a handful of items and one name in two cases. *)
EXTENDS CJSONList, TLC
LowerCase == [x \in Key |-> "k"]
Names == {"k", "K"}
Symmetry == Permutations(Item)
=============================================================================

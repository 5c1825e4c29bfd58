------------------------------- MODULE MCProgram -------------------------------
(***************************************************************************)
(* Two records whose texts differ in length.                               *)
(***************************************************************************)
EXTENDS Program

Sizes == [r \in Rec |-> IF r = First THEN 2 ELSE 1]
===============================================================================

-------------------------------- MODULE ProcRec --------------------------------
(***************************************************************************)
(* Pointers to process records (proc *, c_core/ser_proc.h).                *)
(***************************************************************************)
CONSTANTS Rec,   \* the addresses a struct proc can have
          NULL   \* the null pointer

ASSUME NullNotRec == NULL \notin Rec
===============================================================================

---------------------------- MODULE MCProcTableSpec ----------------------------
(***************************************************************************)
(* Two buckets and three pids, so that two pids share a bucket; four       *)
(* records, so that one pid has a live and an older record next to them.   *)
(***************************************************************************)
EXTENDS ProcTableSpec, TLC

MCPid == 1..3
Symmetry == Permutations(Rec)
===============================================================================

-------------------------------- MODULE ProcMap --------------------------------
(***************************************************************************)
(* What the hash table of c_core/ser_proc.c promises: every pid has a      *)
(* history of records, of which any two are ordered by age. A lookup       *)
(* answers the newest one, and the older ones stay, in their order, until  *)
(* somebody deletes exactly that record.                                   *)
(***************************************************************************)
CONSTANTS Rec, Pid

VARIABLE history   \* <<r, s>> \in history[pid]: r is no older than s

MapInit == history = [pid \in Pid |-> {}]

Records(pid) == {r \in Rec : <<r, r>> \in history[pid]}

\* A record that no pid has becomes the newest of its pid.
Push(pid, r) ==
  /\ \A q \in Pid : r \notin Records(q)
  /\ history' = [history EXCEPT ![pid] = @ \cup ({r} \X (Records(pid) \cup {r}))]

Drop(pid, r) ==
  /\ r \in Records(pid)
  /\ history' = [history EXCEPT ![pid] = {e \in @ : e[1] # r /\ e[2] # r}]

Clear == history' = [pid \in Pid |-> {}]

MapNext == (\E pid \in Pid, r \in Rec : Push(pid, r) \/ Drop(pid, r)) \/ Clear

MapSpec == MapInit /\ [][MapNext]_history
===============================================================================

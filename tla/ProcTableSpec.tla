----------------------------- MODULE ProcTableSpec -----------------------------
(***************************************************************************)
(* The process table on its own, driven the way the event handlers and     *)
(* docs/d13.md drive it: records are inserted by fork and by the loading   *)
(* of a parent, deleted by pid and birth time, and destroyed all at once.  *)
(***************************************************************************)
EXTENDS ProcTable, FiniteSets

CONSTANTS Pid,
          MaxTime   \* bound of the birth times

ASSUME PidsAreNumbers == Pid \subseteq Nat /\ MaxTime \in Nat

\* The fields of struct proc that identify a record
Key == [pid : Pid, birth_time : 0..MaxTime]

ASSUME FreeIsNoKey == Free \notin Key

Births == {heap[r].birth_time : r \in Allocated}

\* even_fork inserts the record of a child with the time of its fork event,
\* without a lookup: an older record of the pid may still be there.
inse_chil(r, pid) ==
  /\ heap[r] = Free
  /\ \E t \in 1..MaxTime :
       /\ \A b \in Births : b < t
       /\ heap' = [heap EXCEPT ![r] = [pid |-> pid, birth_time |-> t]]
  /\ proc_inse(r, pid)

\* A bug: the loaded parent is inserted without a lookup.
inse_pare_unlooked(r, pid) ==
  /\ heap[r] = Free
  /\ heap' = [heap EXCEPT ![r] = [pid |-> pid, birth_time |-> 0]]
  /\ proc_inse(r, pid)

\* even_fork and re_pare insert a loaded parent only after a lookup answered
\* NULL; calloc left its birth time 0.
inse_pare(r, pid) ==
  /\ heap[r] = Free
  /\ proc_look(pid) = NULL
  /\ heap' = [heap EXCEPT ![r] = [pid |-> pid, birth_time |-> 0]]
  /\ proc_inse(r, pid)

dele(r) == InTable(r) /\ proc_dele(r)

TableNext ==
  \/ \E r \in Rec :
       \/ dele(r)
       \/ \E pid \in Pid : inse_chil(r, pid) \/ inse_pare(r, pid)
  \/ proc_tabl_dest

TableSpec == TableInit /\ [][TableNext]_tableVars

-------------------------------------------------------------------------------
(* An allocated record is in the table: nothing is lost when a node of the   *)
(* middle of a bucket is unlinked (ser_proc.c:38-41).                        *)
NothingLost == \A r \in Allocated : InTable(r)

(* A pid may have had several processes, and records of other pids stand     *)
(* between theirs: a lookup answers the record of the one created last, as   *)
(* long as the table has one (ser_proc.c:53-65). It holds because every      *)
(* insertion is of a younger process, at the head, and deletions keep order. *)
NewestFound ==
  \A pid \in Pid :
    LET known == {r \in Rec : InTable(r) /\ heap[r].pid = pid}
    IN  IF known = {} THEN proc_look(pid) = NULL
        ELSE /\ proc_look(pid) \in known
             /\ \A r \in known : heap[r].birth_time <= heap[proc_look(pid)].birth_time

(* Collisions are invisible: the records of each pid, in bucket order, are   *)
(* that pid's history of insertions and deletions.                           *)
NoLater(r, s) ==
  \E h \in Bucket : \E i, j \in DOMAIN buckets[h] :
    i <= j /\ buckets[h][i] = r /\ buckets[h][j] = s
Map == INSTANCE ProcMap WITH
  history <- [pid \in Pid |->
    {e \in Rec \X Rec : NoLater(e[1], e[2]) /\ heap[e[1]].pid = pid /\ heap[e[2]].pid = pid}]
ImplementsMap == Map!MapSpec

(* Deleting a record frees that record and no other, and the records of the  *)
(* other pids are found as before (d13: a dead process is looked up by pid   *)
(* and birth time).                                                          *)
DeleteExact ==
  [][\A r \in Rec :
       InTable(r) /\ proc_dele(r) =>
         /\ heap'[r] = Free
         /\ \A s \in Rec \ {r} : heap'[s] = heap[s] /\ InTable(s)' = InTable(s)
    ]_tableVars
===============================================================================

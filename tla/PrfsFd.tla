-------------------------------- MODULE PrfsFd --------------------------------
(***************************************************************************)
(* The descriptor paths of one record: prfs_status stores FDSize in        *)
(* fd_coun, prfs_fd replaces fd_paths by what /proc/<pid>/fd lists and     *)
(* fd_coun by their number, and prfs_clean_fd releases as many slots as    *)
(* fd_coun says. Serie has one step for each of the reads and none of the  *)
(* memory; here the memory is all there is.                                *)
(***************************************************************************)
EXTENDS Integers, FiniteSets

CONSTANTS FDSize,   \* sizes of descriptor tables: 0 for a process that exited
          MaxLooks  \* bound: calls of prfs_look

ASSUME SizesAreNumbers == FDSize \subseteq Nat /\ MaxLooks \in Nat

VARIABLES look,     \* "idle", "fd": prfs_fd is next, "gone": no record
          fd_coun,
          slots,    \* the slots of the array fd_paths points to
          given,    \* fd_paths # NULL
          looks,    \* calls of prfs_look so far
          good,     \* the last one succeeded
          leaked,   \* blocks nothing points to any more
          bad       \* a pointer that malloc never returned was freed

fdVars == <<look, fd_coun, slots, given, looks, good, leaked, bad>>

\* A slot holds what malloc left there, NULL, or a path. The loop over the
\* directory fills the first i of n slots; a readlink that fails leaves NULL
\* behind them.
Filled(n, i, tail) ==
  [j \in 0 .. n-1 |-> IF j < i THEN "path" ELSE IF j = i THEN tail ELSE "junk"]
Paths == {j \in DOMAIN slots : slots[j] = "path"}

FdInit ==
  /\ look = "idle" /\ fd_coun = 0 /\ slots = <<>> /\ given = FALSE
  /\ looks = 0 /\ good = FALSE /\ leaked = 0 /\ bad = FALSE

\* i slots are freed, then the array.
prfs_clean_fd(i) ==
  /\ bad' = \E j \in 0 .. i-1 : j \notin DOMAIN slots \/ slots[j] = "junk"
  /\ leaked' = leaked + Cardinality({j \in Paths : j >= i})

\* prfs_look failed: proc_load frees the record it has just allocated, and
\* even_exec and even_exit keep theirs.
Fail == good' = FALSE /\ look' = IF looks' = 1 THEN "gone" ELSE "idle"

\* The file does not open; it ends before its FDSize line; the line is there.
prfs_status ==
  /\ look = "idle" /\ ~bad /\ looks < MaxLooks
  /\ looks' = looks + 1
  /\ \/ Fail /\ fd_coun' \in {fd_coun, -1}
     \/ look' = "fd" /\ fd_coun' \in FDSize /\ UNCHANGED good
  /\ UNCHANGED <<slots, given, leaked, bad>>

\* A bug: the count moves on before readlink has answered.
prfs_fd_over ==
  /\ look = "fd" /\ fd_coun # 0
  /\ IF given THEN prfs_clean_fd(fd_coun) ELSE UNCHANGED <<leaked, bad>>
  /\ given' = TRUE /\ good' = TRUE /\ look' = "idle"
  /\ UNCHANGED looks
  /\ \E i \in 0..fd_coun : slots' = Filled(fd_coun, i, "null") /\ fd_coun' = i + 1

\* A process without descriptor table; a directory that does not open; one that
\* does, with the memory for the array and the paths or without.
prfs_fd ==
  /\ look = "fd"
  /\ UNCHANGED looks
  /\ \/ /\ fd_coun = 0
        /\ leaked' = leaked + (IF given THEN 1 + Cardinality(Paths) ELSE 0)
        /\ slots' = <<>> /\ given' = FALSE
        /\ good' = TRUE /\ look' = "idle"
        /\ UNCHANGED <<fd_coun, bad>>
     \/ fd_coun # 0 /\ Fail /\ UNCHANGED <<fd_coun, slots, given, leaked, bad>>
     \/ /\ fd_coun # 0
        /\ IF given THEN prfs_clean_fd(fd_coun) ELSE UNCHANGED <<leaked, bad>>
        /\ \/ /\ Fail
              /\ slots' = <<>> /\ given' = FALSE
              /\ UNCHANGED fd_coun
           \/ /\ good' = TRUE /\ look' = "idle"
              /\ given' = TRUE
              /\ \E i \in 0..fd_coun, tail \in {"junk", "null"} :
                   slots' = Filled(fd_coun, i, tail) /\ fd_coun' = i

\* proc_dest: the record could not be inserted, or the program ends.
proc_dest ==
  /\ look = "idle" /\ looks > 0 /\ ~bad
  /\ prfs_clean_fd(fd_coun)
  /\ look' = "gone" /\ slots' = <<>> /\ given' = FALSE
  /\ UNCHANGED <<fd_coun, looks, good>>

-------------------------------------------------------------------------------
(* A record that is read once is released exactly, whichever read of /proc   *)
(* or allocation fails: proc_load's free leaves nothing behind, and          *)
(* proc_dest frees every path and nothing else (ser_proc.c:117, 125).        *)
FirstLookExact ==
  looks <= 1 => /\ ~bad /\ leaked = 0
                /\ look = "gone" => ~given

(* d13.md: prfs_look is safe to call multiple times on the same proc.        *)
SafeToRepeat == ~bad
===============================================================================

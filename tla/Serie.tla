--------------------------------- MODULE Serie ---------------------------------
(***************************************************************************)
(* The tracker: c_core/ser_proc_conn.c receives one event of the proc      *)
(* connector at a time and its handler updates the process table and the   *)
(* process tree, reading /proc on the way (c_core/ser_prfs.c,              *)
(* proc_load in c_core/ser_proc.c). The kernel goes on between any two     *)
(* reads, so a handler may see a later state than its event describes.     *)
(***************************************************************************)
EXTENDS ProcForest, ProcTable, Kernel

\* TRUE: memory or descriptors may run out: calloc, malloc, fopen and opendir may
\* answer NULL.
CONSTANT AllocMayFail

ASSUME MemoryMayEnd == AllocMayFail \in BOOLEAN

VARIABLE fr   \* the local state of the handler that is running

tracker == <<heap, buckets, kids, pare, fr>>
vars == <<heap, buckets, kids, pare, fr, task, clock, evq>>

\* pc: where the handler stands. tgt: the record prfs_look is filling, ret: what
\* it is filled for. pare, chil, dead: the records the handler holds. pid, ts:
\* the child and the time of a fork event.
Ptr == Rec \cup {NULL}
Frame == [pc : {"recv", "stat", "status", "fd", "load", "link", "loop", "repare"},
          ret : {"", "pare", "chil", "exec", "orphan", "reaper"},
          tgt : Ptr, pare : Ptr, chil : Ptr, dead : Ptr,
          pid : Pid \cup {0}, ts : 0..MaxClock]

Idle == [pc |-> "recv", ret |-> "", tgt |-> NULL, pare |-> NULL, chil |-> NULL,
         dead |-> NULL, pid |-> 0, ts |-> 0]

\* struct proc; 0 is what calloc leaves.
Proc == [pid : Pid \cup {0}, ppid : Pid \cup {0}, birth_ppid : Pid \cup {0, -1},
         birth_time : 0..MaxClock, death_time : 0..MaxClock, alive : BOOLEAN,
         attr : [Attr -> Val \cup {0}]]

ASSUME FreeIsNoProc == Free \notin Proc

Blank(pid) == [pid |-> pid, ppid |-> 0, birth_ppid |-> 0, birth_time |-> 0,
               death_time |-> 0, alive |-> FALSE, attr |-> [a \in Attr |-> 0]]

TypeOK ==
  /\ heap \in [Rec -> Proc \cup {Free}]
  /\ buckets \in [Bucket -> Seq(Rec)]
  /\ kids \in [Rec -> Seq(Rec)]
  /\ pare \in [Rec -> Ptr]
  /\ fr \in Frame
  /\ KernelTypeOK

Init == TableInit /\ ForestInit /\ KernelInit /\ fr = Idle

-------------------------------------------------------------------------------
(* proc_load and prfs_look *)

\* calloc fails when the machine has no memory; the model has none when every
\* address is in use.
CanFail == AllocMayFail \/ Allocated = Rec

\* proc_load(pid): the record calloc answers goes to prfs_look.
proc_load(pid, frame, ret) ==
  \/ \E r \in Rec \ Allocated :
       /\ heap' = [heap EXCEPT ![r] = Blank(pid)]
       /\ fr' = [frame EXCEPT !.pc = "stat", !.tgt = r, !.ret = ret]
  \/ CanFail /\ fr' = Idle /\ UNCHANGED heap

\* prfs_look answers -1, and so does the handler. proc_load frees its record;
\* an existing record that was being refreshed keeps what was read so far.
prfs_fail ==
  /\ heap' = IF fr.ret \in {"pare", "chil", "reaper"}
             THEN [heap EXCEPT ![fr.tgt] = Free] ELSE heap
  /\ fr' = Idle

\* Where the handler goes on when prfs_look answers 0: proc_load's caller links
\* the record, even_exit finds the orphan a parent, even_exec is done.
Looked == CASE fr.ret = "exec"   -> Idle
            [] fr.ret = "orphan" -> [fr EXCEPT !.pc = "repare"]
            [] OTHER             -> [fr EXCEPT !.pc = "link"]

\* A process that is gone has no files in /proc, and opening one that is there takes
\* memory and a descriptor.
CannotOpen(p) == ~InProc(p) \/ AllocMayFail

\* /proc/<pid>/stat
prfs_stat ==
  LET old == heap[fr.tgt]
      p == old.pid
  IN
  /\ fr.pc = "stat"
  /\ \/ /\ InProc(p)
        /\ heap' = [heap EXCEPT ![fr.tgt] =
             [old EXCEPT !.ppid = Ppid(p),
                         !.birth_ppid = IF @ = -1 THEN Ppid(p) ELSE @,
                         !.attr["comm"] = task[p].attr["comm"],
                         !.alive = TRUE]]
        /\ fr' = [fr EXCEPT !.pc = "status"]
     \/ CannotOpen(p) /\ prfs_fail
  /\ UNCHANGED <<buckets, kids, pare, task, clock, evq>>

\* /proc/<pid>/status: uids, gids and FDSize. A process that has no descriptor
\* table is not asked for its descriptors.
prfs_status ==
  LET p == heap[fr.tgt].pid IN
  /\ fr.pc = "status"
  /\ \/ /\ InProc(p)
        /\ heap' = [heap EXCEPT ![fr.tgt].attr =
             [a \in Attr |-> IF a = "comm" THEN @[a] ELSE task[p].attr[a]]]
        /\ fr' = IF HasFiles(p) THEN [fr EXCEPT !.pc = "fd"] ELSE Looked
     \/ CannotOpen(p) /\ prfs_fail
  /\ UNCHANGED <<buckets, kids, pare, task, clock, evq>>

\* /proc/<pid>/fd, and the memory for the paths it lists
prfs_fd ==
  LET p == heap[fr.tgt].pid IN
  /\ fr.pc = "fd"
  /\ \/ InProc(p) /\ fr' = Looked /\ UNCHANGED heap
     \/ CannotOpen(p) /\ prfs_fail
  /\ UNCHANGED <<buckets, kids, pare, task, clock, evq>>

\* proc_load's last assignment, after prfs_look succeeded
Loaded == [heap EXCEPT ![fr.tgt].birth_ppid = -1]

\* A bug: the record that could not be inserted is not destroyed.
inse_fail_leak == AllocMayFail /\ fr' = Idle /\ UNCHANGED <<heap, buckets, kids, pare>>

\* proc_inse cannot get its node, and the caller destroys the record.
inse_fail ==
  /\ AllocMayFail
  /\ heap' = [heap EXCEPT ![fr.tgt] = Free]
  /\ fr' = Idle
  /\ UNCHANGED <<buckets, kids, pare>>

-------------------------------------------------------------------------------
(* even_fork *)

\* A bug: the parent is loaded without asking the table first.
even_fork_unlooked(e) ==
  /\ e.what = "fork"
  /\ proc_load(e.arg, [Idle EXCEPT !.pid = e.pid, !.ts = e.ts], "pare")
  /\ UNCHANGED <<buckets, kids, pare>>

even_fork(e) ==
  /\ e.what = "fork"
  /\ LET p == proc_look(e.arg)
         f == [Idle EXCEPT !.pid = e.pid, !.ts = e.ts]
     IN  IF p = NULL
         THEN proc_load(e.arg, f, "pare")
         ELSE fr' = [f EXCEPT !.pc = "load", !.pare = p] /\ UNCHANGED heap
  /\ UNCHANGED <<buckets, kids, pare>>

\* The parent was not in the table: it is loaded, and inserted.
fork_pare ==
  /\ fr.pc = "link" /\ fr.ret = "pare"
  /\ \/ /\ heap' = Loaded
        /\ proc_inse(fr.tgt, heap[fr.tgt].pid)
        /\ fr' = [fr EXCEPT !.pc = "load", !.pare = fr.tgt, !.tgt = NULL]
        /\ UNCHANGED <<kids, pare>>
     \/ inse_fail
  /\ UNCHANGED <<task, clock, evq>>

fork_load ==
  /\ fr.pc = "load"
  /\ proc_load(fr.pid, fr, "chil")
  /\ UNCHANGED <<buckets, kids, pare, task, clock, evq>>

\* A bug: the child that could not be inserted is destroyed but not detached.
fork_chil_undetached ==
  /\ fr.pc = "link" /\ fr.ret = "chil"
  /\ atta_chil(fr.pare, fr.tgt)
  /\ fr' = Idle
  /\ \/ /\ heap' = [Loaded EXCEPT ![fr.tgt].birth_time = fr.ts]
        /\ proc_inse(fr.tgt, fr.pid)
     \/ AllocMayFail /\ heap' = [heap EXCEPT ![fr.tgt] = Free] /\ UNCHANGED buckets
  /\ UNCHANGED <<task, clock, evq>>

\* A bug: parent and child are swapped.
fork_chil_swapped ==
  /\ fr.pc = "link" /\ fr.ret = "chil"
  /\ heap' = [Loaded EXCEPT ![fr.tgt].birth_time = fr.ts]
  /\ atta_chil(fr.tgt, fr.pare)
  /\ proc_inse(fr.tgt, fr.pid)
  /\ fr' = Idle
  /\ UNCHANGED <<task, clock, evq>>

\* The child is attached before it is inserted; when the insertion fails it is
\* detached again and destroyed.
fork_chil ==
  /\ fr.pc = "link" /\ fr.ret = "chil"
  /\ \/ /\ heap' = [Loaded EXCEPT ![fr.tgt].birth_time = fr.ts]
        /\ atta_chil(fr.pare, fr.tgt)
        /\ proc_inse(fr.tgt, fr.pid)
        /\ fr' = Idle
     \/ inse_fail
  /\ UNCHANGED <<task, clock, evq>>

-------------------------------------------------------------------------------
(* even_exec, even_comm, even_uid, even_gid *)

\* A bug: exec does not read /proc again.
even_exec_unread(e) ==
  e.what = "exec" /\ fr' = Idle /\ UNCHANGED <<heap, buckets, kids, pare>>

even_exec(e) ==
  /\ e.what = "exec"
  /\ LET p == proc_look(e.pid) IN
     fr' = IF p = NULL THEN Idle
           ELSE [Idle EXCEPT !.pc = "stat", !.tgt = p, !.ret = "exec"]
  /\ UNCHANGED <<heap, buckets, kids, pare>>

even_attr(e) ==
  /\ e.what \in Attr
  /\ LET p == proc_look(e.pid) IN
     heap' = IF p = NULL THEN heap ELSE [heap EXCEPT ![p].attr[e.what] = e.arg]
  /\ fr' = Idle
  /\ UNCHANGED <<buckets, kids, pare>>

-------------------------------------------------------------------------------
(* even_exit *)

\* A bug: the dead record stays in its parent's list.
even_exit_attached(e) ==
  /\ e.what = "exit"
  /\ LET d == proc_look(e.pid) IN
     IF d = NULL
     THEN fr' = Idle /\ UNCHANGED heap
     ELSE /\ heap' = [heap EXCEPT ![d] = [@ EXCEPT !.alive = FALSE, !.death_time = e.ts]]
          /\ fr' = [Idle EXCEPT !.pc = "loop", !.dead = d]
  /\ UNCHANGED <<buckets, kids, pare>>

\* The dead record is detached from its parent. Without a parent deta_chil
\* answers -1 and the handler returns before it looks at the children.
even_exit(e) ==
  /\ e.what = "exit"
  /\ LET d == proc_look(e.pid) IN
     IF d = NULL
     THEN fr' = Idle /\ UNCHANGED <<heap, kids, pare>>
     ELSE /\ heap' = [heap EXCEPT ![d] = [@ EXCEPT !.alive = FALSE, !.death_time = e.ts]]
          /\ IF pare[d] = NULL
             THEN fr' = Idle /\ UNCHANGED <<kids, pare>>
             ELSE /\ deta_chil(pare[d], d)
                  /\ fr' = [Idle EXCEPT !.pc = "loop", !.dead = d]
  /\ UNCHANGED buckets

\* A bug: the orphan is not refreshed, its ppid is the dead process.
exit_loop_stale ==
  /\ fr.pc = "loop"
  /\ LET c == FirstKid(fr.dead) IN
     IF c = NULL
     THEN fr' = Idle /\ UNCHANGED <<kids, pare>>
     ELSE /\ deta_chil(fr.dead, c)
          /\ fr' = [fr EXCEPT !.pc = "repare", !.chil = c]
  /\ UNCHANGED <<heap, buckets, task, clock, evq>>

\* A bug: the orphan is not detached from the dead record.
exit_loop_attached ==
  /\ fr.pc = "loop"
  /\ LET c == FirstKid(fr.dead) IN
     fr' = IF c = NULL THEN Idle
           ELSE [fr EXCEPT !.pc = "stat", !.tgt = c, !.chil = c, !.ret = "orphan"]
  /\ UNCHANGED <<heap, buckets, kids, pare, task, clock, evq>>

\* One turn of the loop: the first child is detached and refreshed.
exit_loop ==
  /\ fr.pc = "loop"
  /\ LET c == FirstKid(fr.dead) IN
     IF c = NULL
     THEN fr' = Idle /\ UNCHANGED <<kids, pare>>
     ELSE /\ deta_chil(fr.dead, c)
          /\ fr' = [fr EXCEPT !.pc = "stat", !.tgt = c, !.chil = c, !.ret = "orphan"]
  /\ UNCHANGED <<heap, buckets, task, clock, evq>>

Looping == [fr EXCEPT !.pc = "loop", !.tgt = NULL, !.chil = NULL, !.ret = ""]

\* A bug: every orphan is given to init.
re_pare_init ==
  /\ fr.pc = "repare"
  /\ LET p == proc_look(InitPid) IN
     IF p = NULL
     THEN /\ proc_load(InitPid, fr, "reaper")
          /\ UNCHANGED <<kids, pare>>
     ELSE /\ atta_chil(p, fr.chil) /\ fr' = Looping
          /\ UNCHANGED heap
  /\ UNCHANGED <<buckets, task, clock, evq>>

\* re_pare when the parent /proc named is in the table, or has to be loaded
re_pare ==
  /\ fr.pc = "repare"
  /\ LET ppid == heap[fr.chil].ppid
         p == proc_look(ppid)
     IN  IF p = NULL
         THEN /\ proc_load(ppid, fr, "reaper")
              /\ UNCHANGED <<kids, pare>>
         ELSE /\ IF CanAttach(p, fr.chil)
                 THEN atta_chil(p, fr.chil) /\ fr' = Looping
                 ELSE fr' = Idle /\ UNCHANGED <<kids, pare>>
              /\ UNCHANGED heap
  /\ UNCHANGED <<buckets, task, clock, evq>>

\* re_pare with a parent it has loaded
re_pare_load ==
  /\ fr.pc = "link" /\ fr.ret = "reaper"
  /\ \/ /\ heap' = Loaded
        /\ proc_inse(fr.tgt, heap[fr.tgt].pid)
        /\ atta_chil(fr.tgt, fr.chil)
        /\ fr' = Looping
     \/ inse_fail
  /\ UNCHANGED <<task, clock, evq>>

-------------------------------------------------------------------------------
(* The main loop *)

\* sock_reci takes the oldest event and read_even dispatches it.
sock_reci ==
  /\ fr = Idle /\ evq # <<>>
  /\ LET e == Head(evq) IN even_fork(e) \/ even_exec(e) \/ even_exit(e) \/ even_attr(e)
  /\ evq' = Tail(evq)
  /\ UNCHANGED <<task, clock>>

\* The socket is non-blocking: on an empty queue recvmsg answers EAGAIN.
sock_empty == fr = Idle /\ evq = <<>> /\ UNCHANGED vars

Step ==
  \/ sock_reci
  \/ prfs_stat \/ prfs_status \/ prfs_fd
  \/ fork_pare \/ fork_load \/ fork_chil
  \/ exit_loop \/ re_pare \/ re_pare_load

Next ==
  \/ Step
  \/ sock_empty
  \/ KernelNext /\ UNCHANGED tracker

Spec == Init /\ [][Next]_vars

\* The tracker runs on while there is something to do; nothing is assumed of
\* the processes it watches.
FairSpec == Spec /\ WF_vars(Step)

-------------------------------------------------------------------------------
(* What holds whatever the kernel does, events are lost or memory runs out. *)

Loading(r) == r = fr.tgt /\ fr.ret \in {"pare", "chil", "reaper"}

(* Every record has exactly one owner: a node of the table, or the handler   *)
(* that is loading it. Nothing is freed twice and nothing leaks, also when   *)
(* a handler gives up half way (ser_proc_conn.c:170-190, 217-220).           *)
Ownership ==
  /\ NodesOwnRecords
  /\ \A r \in Allocated : InTable(r) # Loading(r)

(* The tree and the handler's locals name only records of the table, so a    *)
(* record is never in the tree while it can still be freed.                  *)
NoDangling ==
  /\ \A r \in Rec : pare[r] # NULL => InTable(r) /\ InTable(pare[r])
  /\ \A r \in {fr.pare, fr.chil, fr.dead} \ {NULL} : InTable(r)

(* Nobody is its own ancestor: a walk to the root ends.                      *)
Acyclic == \A S \in SUBSET Rec : (\A r \in S : pare[r] \in S) => S = {}

(* Pid and birth time identify a record of the table, whatever pids are used *)
(* again and whatever events are lost: proc_dele can find it (docs/d13.md).  *)
KeyUnique ==
  \A r, s \in Rec :
    /\ InTable(r) /\ InTable(s)
    /\ heap[r].pid = heap[s].pid /\ heap[r].birth_time = heap[s].birth_time
    => r = s

Dead(r) == heap[r] # Free /\ heap[r].death_time # 0

(* A record that died is nobody's child any more.                            *)
DeadIsRoot == \A r \in Rec : Dead(r) => pare[r] = NULL

-------------------------------------------------------------------------------
(* What holds when no event is lost and no pid is used twice. *)

Threadless == \A p \in Pid : task[p].tgid = p

(* A dead process stays dead and keeps its life data: no late event or       *)
(* refresh brings it back (even_exit, prfs_stat's alive = true). Nor is any   *)
(* process put under it, although the parent an event or /proc named may have *)
(* exited since; a process whose first thread is dead may rightly be a parent *)
(* and is left out.                                                           *)
DeathIsFinal ==
  [][\A r \in Rec : Dead(r) =>
       /\ Dead(r)'
       /\ ~heap'[r].alive
       /\ heap'[r].death_time = heap[r].death_time
       /\ heap'[r].birth_time = heap[r].birth_time
       /\ Threadless => \A c \in Rec : pare'[c] = r => pare[c] = r]_vars

Quiet == fr = Idle /\ evq = <<>>
Live(r) == InTable(r) /\ ~Dead(r)

(* A process that has had several threads *)
Threaded(p) == \E t \in Pid \ {p} : task[t].tgid = p

(* When all events are handled, a record that is alive is a running process,  *)
(* and its parent in the tree, if that runs, is its parent in the kernel or   *)
(* another thread of it. A process whose first thread had exited before       *)
(* re_pare loaded its record is left out: that exit is never heard of again,  *)
(* its other threads may have kept it in /proc.                               *)
TreeAgrees ==
  Quiet => \A r \in Rec : Live(r) =>
    /\ Running(heap[r].pid) \/ Threaded(heap[r].pid)
    /\ pare[r] # NULL /\ Running(heap[pare[r]].pid) =>
         task[heap[pare[r]].pid].tgid = Ppid(heap[r].pid)

(* ... and it has the name and the ids of the process, although events and   *)
(* /proc reads write them in any order.                                      *)
AttrAgrees == Quiet => \A r \in Rec : Live(r) => heap[r].attr = task[heap[r].pid].attr

(* Every handler ends and every event is handled, unless a process whose     *)
(* first thread has exited keeps other threads for ever: the loop of         *)
(* even_exit takes every child away from the dead record.                    *)
Headless == \E p \in Pid : task[p].st = "zombie" /\ Group(p) # {}
DrainsAfterGroups == <>[]~Headless => <>[]Quiet

-------------------------------------------------------------------------------
(* What the documentation says and the code does not do. *)

(* docs/d13.md: even_exit handles the children; docs/d17.md: the main loop   *)
(* then looks at its flags. Every handler ends and every event is handled.   *)
Drains == <>[]Quiet

(* docs/d13.md: birth_ppid "preserves the original creator process". The -1  *)
(* is assigned after the first prfs_look, so the next one fills it in.       *)
BirthPpidIsCreator ==
  [][\A r \in Rec : /\ heap[r] # Free /\ heap'[r] # Free
                    /\ heap[r].birth_ppid = -1 /\ heap'[r].birth_ppid # -1
                    => heap'[r].birth_ppid = task[heap[r].pid].creator]_vars
===============================================================================

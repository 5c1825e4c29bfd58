-------------------------------- MODULE Kernel --------------------------------
(***************************************************************************)
(* The kernel as the tracker sees it: processes that fork, exec, change    *)
(* their attributes, exit and are reaped, the proc connector that queues   *)
(* an event for each of these, and the /proc files that always show the    *)
(* present. External to the repository: modelled from how                  *)
(* c_core/ser_proc_conn.c and c_core/ser_prfs.c use it.                    *)
(***************************************************************************)
EXTENDS Integers, Sequences

CONSTANTS
  Pid,       \* process ids
  InitPid,   \* the process that adopts orphans and never exits
  Subreaper, \* processes that adopt the children of their children
  Boot,      \* processes that run before the tracker listens; InitPid creates them
  Attr,      \* attributes with an event of their own: "comm", "uid", "gid"
  Val,       \* values of an attribute
  Threads,   \* TRUE: processes may have several threads, each with an id from Pid
  Recycle,   \* TRUE: the pid of a reaped process may be given out again
  MaxClock,  \* bound: events the kernel emits
  QMax       \* length of the socket's receive queue

ASSUME KernelConstants ==
  /\ Pid \subseteq Nat \ {0} /\ InitPid \in Boot /\ Boot \subseteq Pid
  /\ "comm" \in Attr /\ Attr \subseteq {"comm", "uid", "gid"}
  /\ Threads \in BOOLEAN /\ Subreaper \subseteq Pid
  /\ Recycle \in BOOLEAN /\ MaxClock \in Nat /\ QMax \in Nat

VARIABLES task,  \* task[p]: the thread with id p; a process is its first thread
          clock, \* time of the last event
          evq    \* events the tracker has not received yet

kernelVars == <<task, clock, evq>>

\* tgid: the process of the thread. parent: the thread it is a child of.
\* creator: the process that made it.
Task == [st : {"new", "run", "zombie", "gone"}, tgid : Pid, parent : Pid \cup {0},
         creator : Pid \cup {0}, attr : [Attr -> Val]]

\* struct proc_event: arg is the parent of a fork or the value of an attribute.
Time == 1..MaxClock
Event ==
  [what : {"fork"}, pid : Pid, arg : Pid \cup {0}, ts : Time] \cup
  [what : {"exec", "exit"}, pid : Pid, arg : {0}, ts : Time] \cup
  [what : Attr, pid : Pid, arg : Val, ts : Time]

KernelTypeOK ==
  /\ task \in [Pid -> Task]
  /\ clock \in 0..MaxClock
  /\ evq \in Seq(Event)

Running(p) == task[p].st = "run"

\* /proc/<p> is there until the process is reaped.
InProc(p) == p \in Pid /\ task[p].st \in {"run", "zombie"}

\* The parent /proc names is a process, also when a thread of it made the child.
Ppid(p) == IF task[p].parent = 0 THEN 0 ELSE task[task[p].parent].tgid

\* A process that exited has no descriptor table: its status says FDSize 0.
HasFiles(p) == Running(p)

KernelInit ==
  /\ \E v \in [Attr -> Val] :
       task = [p \in Pid |->
                 [st   |-> IF p \in Boot THEN "run" ELSE "new",
                  tgid |-> p,
                  parent |-> IF p \in Boot \ {InitPid} THEN InitPid ELSE 0,
                  creator |-> 0,
                  attr |-> v]]
  /\ clock = 0
  /\ evq = <<>>

\* A full receive queue drops the event; recvmsg reports it once as ENOBUFS,
\* which sock_reci returns and the main loop ignores.
Emit(what, pid, arg) ==
  /\ clock < MaxClock
  /\ clock' = clock + 1
  /\ evq' = IF Len(evq) < QMax
            THEN Append(evq, [what |-> what, pid |-> pid, arg |-> arg, ts |-> clock + 1])
            ELSE evq

Unused(c) == task[c].st = "new" \/ (Recycle /\ task[c].st = "gone")

KFork(p, c) ==
  /\ Running(p) /\ Unused(c)
  /\ task' = [task EXCEPT ![c] = [st |-> "run", tgid |-> c, parent |-> p,
                                 creator |-> task[p].tgid, attr |-> task[p].attr]]
  /\ Emit("fork", c, p)

\* A new thread is reported as a child of its process's parent.
KClone(p, c) ==
  /\ Threads /\ Running(p) /\ Unused(c)
  /\ task' = [task EXCEPT ![c] = [task[p] EXCEPT !.creator = task[p].tgid]]
  /\ Emit("fork", c, task[p].parent)

\* The threads of process g that run
Group(g) == {t \in Pid : task[t].tgid = g /\ Running(t)}

\* exec sets the command name without an event of its own. The exec of a process
\* with several threads, which ends the others, is left out.
KExec(p) ==
  /\ Running(p) /\ Group(p) = {p}
  /\ \E v \in Val : task' = [task EXCEPT ![p].attr["comm"] = v]
  /\ Emit("exec", p, 0)

KAttr(p, a) ==
  /\ Running(p)
  /\ \E v \in Val \ {task[p].attr[a]} :
       /\ task' = [task EXCEPT ![p].attr[a] = v]
       /\ Emit(a, p, v)

\* Who gets the children of a thread that exits: another thread of its process, a
\* parent that is a subreaper, or init. A subreaper farther up is left out.
Adopters(p) ==
  LET mates == Group(task[p].tgid) \ {p} IN
  IF mates # {} THEN mates
  ELSE IF Ppid(p) \in Subreaper THEN Group(Ppid(p))
  ELSE {InitPid}

\* exit_notify moves the children before proc_exit_connector emits the event. A
\* thread is gone at once; a process waits for its other threads and for a reaper.
KExit(p) ==
  /\ Running(p) /\ p # InitPid
  /\ \E a \in Adopters(p) :
       task' = [c \in Pid |->
         IF c = p
         THEN IF task[p].tgid = p THEN [task[p] EXCEPT !.st = "zombie"]
                                  ELSE [task[p] EXCEPT !.st = "gone", !.parent = 0]
         ELSE IF task[c].parent = p THEN [task[c] EXCEPT !.parent = a] ELSE task[c]]
  /\ Emit("exit", p, 0)

KReap(p) ==
  /\ task[p].st = "zombie" /\ Group(p) = {}
  /\ task' = [task EXCEPT ![p] = [@ EXCEPT !.st = "gone", !.parent = 0]]
  /\ UNCHANGED <<clock, evq>>

KernelNext ==
  \E p \in Pid :
    \/ \E c \in Pid : KFork(p, c) \/ KClone(p, c)
    \/ KExec(p)
    \/ \E a \in Attr : KAttr(p, a)
    \/ KExit(p)
    \/ KReap(p)
===============================================================================

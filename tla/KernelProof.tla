------------------------------ MODULE KernelProof -------------------------------
(***************************************************************************)
(* The facts Serie's proofs take from the kernel: its processes and its    *)
(* event queue are well formed and, when no event is lost and no pid is    *)
(* used again, the events in the queue tell of everything that happened    *)
(* since the tracker was last told of a process.                           *)
(***************************************************************************)
EXTENDS Kernel, SequenceTheorems, TLAPS

\* The events in the queue are in the order of their times.
EventsOrdered ==
  /\ \A i \in 1..Len(evq) : evq[i].ts <= clock
  /\ \A i, j \in 1..Len(evq) : i < j => evq[i].ts < evq[j].ts

\* An event of the right type keeps the queue well formed, or is dropped.
LEMMA EmitKeeps ==
  ASSUME KernelTypeOK, EventsOrdered, NEW what, NEW pid, NEW arg,
         [what |-> what, pid |-> pid, arg |-> arg, ts |-> clock + 1] \in Event
           \/ ~(clock + 1 \in Time),
         Emit(what, pid, arg)
  PROVE  clock' \in 0..MaxClock /\ evq' \in Seq(Event) /\ EventsOrdered'
<1> DEFINE e == [what |-> what, pid |-> pid, arg |-> arg, ts |-> clock + 1]
<1>1. clock \in Nat /\ clock + 1 \in Time /\ clock' = clock + 1 /\ clock' \in 0..MaxClock
  BY KernelConstants DEF KernelTypeOK, Emit, Time
<1>2. e \in Event /\ e.ts = clock + 1
  BY <1>1
<1>3. evq \in Seq(Event) /\ Len(evq) \in Nat
  BY LenProperties DEF KernelTypeOK
<1>4. \A i \in 1..Len(evq) : evq[i].ts \in Nat
  <2>1. \A x \in Event : x.ts \in Nat
    BY KernelConstants DEF Event, Time
  <2> QED BY <2>1, <1>3, ElementOfSeq
<1>5. CASE evq' = evq
  <2>1. \A i \in 1..Len(evq') : evq'[i].ts <= clock'
    BY <1>1, <1>4, <1>5 DEF EventsOrdered
  <2> QED BY <2>1, <1>1, <1>3, <1>5 DEF EventsOrdered
<1>6. CASE evq' = Append(evq, e)
  <2> HIDE DEF e
  <2>1. /\ evq' \in Seq(Event) /\ Len(evq') = Len(evq) + 1
        /\ \A i \in 1..Len(evq) : evq'[i] = evq[i]
        /\ evq'[Len(evq) + 1] = e
    BY <1>2, <1>3, <1>6, AppendProperties
  <2>2. \A i \in 1..Len(evq') : i \in 1..Len(evq) \/ i = Len(evq) + 1
    BY <2>1, <1>3
  <2>3. \A i \in 1..Len(evq') : evq'[i].ts <= clock'
    BY <2>1, <2>2, <1>1, <1>2, <1>4 DEF EventsOrdered
  <2>4. ASSUME NEW i \in 1..Len(evq'), NEW j \in 1..Len(evq'), i < j
        PROVE  evq'[i].ts < evq'[j].ts
    <3>1. i \in 1..Len(evq)
      BY <2>1, <2>4, <1>3
    <3>2. CASE j \in 1..Len(evq)
      BY <3>1, <3>2, <2>1, <2>4 DEF EventsOrdered
    <3>3. CASE j = Len(evq) + 1
      BY <3>1, <3>3, <2>1, <1>1, <1>2, <1>4 DEF EventsOrdered
    <3> QED BY <3>2, <3>3, <2>2
  <2> QED BY <2>1, <2>3, <2>4, <1>1 DEF EventsOrdered
<1> QED BY <1>5, <1>6 DEF Emit

\* The fields of an event
LEMMA EventFields ==
  ASSUME NEW e \in Event
  PROVE  /\ e.pid \in Pid /\ e.ts \in 0..MaxClock /\ e.ts # 0
         /\ e.what = "fork" => e.arg \in Pid \cup {0}
         /\ e.what \in Attr => e.arg \in Val
<1>1. "fork" \notin Attr /\ "exec" \notin Attr /\ "exit" \notin Attr /\ MaxClock \in Nat
  BY KernelConstants
<1>2. CASE e \in [what : {"fork"}, pid : Pid, arg : Pid \cup {0}, ts : Time]
  BY <1>1, <1>2 DEF Time
<1>3. CASE e \in [what : {"exec", "exit"}, pid : Pid, arg : {0}, ts : Time]
  BY <1>1, <1>3 DEF Time
<1>4. CASE e \in [what : Attr, pid : Pid, arg : Val, ts : Time]
  BY <1>1, <1>4 DEF Time
<1> QED BY <1>2, <1>3, <1>4 DEF Event

\* Whoever adopts a child has an id.
LEMMA AdoptersAreThreads == \A p \in Pid : Adopters(p) \subseteq Pid
  BY KernelConstants DEF Adopters, Group

LEMMA KernelInitTypes == KernelInit => KernelTypeOK /\ EventsOrdered
<1> SUFFICES ASSUME KernelInit PROVE KernelTypeOK /\ EventsOrdered
  OBVIOUS
<1>1. task \in [Pid -> Task]
  BY KernelConstants DEF KernelInit, Task
<1>2. clock \in 0..MaxClock /\ evq \in Seq(Event) /\ Len(evq) = 0
  BY KernelConstants DEF KernelInit
<1> QED BY <1>1, <1>2 DEF KernelTypeOK, EventsOrdered

\* What a process may do to its entry in the table of processes.
LEMMA TaskUpdates ==
  ASSUME NEW t \in Task
  PROVE  /\ [t EXCEPT !.st = "zombie"] \in Task
         /\ [t EXCEPT !.st = "gone", !.parent = 0] \in Task
         /\ \A a \in Pid : [t EXCEPT !.parent = a] \in Task
         /\ \A a \in Attr, v \in Val : [t EXCEPT !.attr[a] = v] \in Task
<1>1. [t EXCEPT !.st = "zombie"] \in Task
  BY DEF Task
<1>2. [t EXCEPT !.st = "gone", !.parent = 0] \in Task
  BY DEF Task
<1>3. ASSUME NEW a \in Pid PROVE [t EXCEPT !.parent = a] \in Task
  BY DEF Task
<1>4. ASSUME NEW a \in Attr, NEW v \in Val PROVE [t EXCEPT !.attr[a] = v] \in Task
  <2>1. t.attr \in [Attr -> Val]
    BY DEF Task
  <2>2. [t.attr EXCEPT ![a] = v] \in [Attr -> Val]
    BY <2>1
  <2>3. [t EXCEPT !.attr[a] = v] = [t EXCEPT !.attr = [t.attr EXCEPT ![a] = v]]
    BY DEF Task
  <2> QED BY <2>2, <2>3 DEF Task
<1> QED BY <1>1, <1>2, <1>3, <1>4

(* Whatever the processes do, their table and the events of the connector    *)
(* stay well formed, and the events are queued in the order of their times.  *)
THEOREM KernelKeepsTypes ==
  ASSUME KernelTypeOK, EventsOrdered, KernelNext
  PROVE  KernelTypeOK' /\ EventsOrdered'
<1>1. /\ task \in [Pid -> Task]
      /\ clock + 1 \in Nat
  BY KernelConstants DEF KernelTypeOK
<1>2. \A p \in Pid : /\ task[p] \in Task /\ task[p].tgid \in Pid
                     /\ task[p].parent \in Pid \cup {0} /\ task[p].attr \in [Attr -> Val]
  BY <1>1 DEF Task
<1> SUFFICES task' \in [Pid -> Task] /\ clock' \in 0..MaxClock /\ evq' \in Seq(Event)
             /\ EventsOrdered'
  BY DEF KernelTypeOK
<1>3. ASSUME NEW p \in Pid, NEW c \in Pid, KFork(p, c)
      PROVE  task' \in [Pid -> Task] /\ clock' \in 0..MaxClock /\ evq' \in Seq(Event)
             /\ EventsOrdered'
  <2>1. task' \in [Pid -> Task]
    BY <1>1, <1>2, <1>3 DEF KFork, Task
  <2>2. Emit("fork", c, p)
    BY <1>3 DEF KFork
  <2>3. [what |-> "fork", pid |-> c, arg |-> p, ts |-> clock + 1] \in Event
          \/ ~(clock + 1 \in Time)
    BY DEF Event
  <2> QED BY <2>1, <2>2, <2>3, EmitKeeps
<1>4. ASSUME NEW p \in Pid, NEW c \in Pid, KClone(p, c)
      PROVE  task' \in [Pid -> Task] /\ clock' \in 0..MaxClock /\ evq' \in Seq(Event)
             /\ EventsOrdered'
  <2>1. task' \in [Pid -> Task]
    BY <1>1, <1>2, <1>4 DEF KClone, Task
  <2>2. Emit("fork", c, task[p].parent)
    BY <1>4 DEF KClone
  <2>3. [what |-> "fork", pid |-> c, arg |-> task[p].parent, ts |-> clock + 1] \in Event
          \/ ~(clock + 1 \in Time)
    BY <1>2 DEF Event
  <2> QED BY <2>1, <2>2, <2>3, EmitKeeps
<1>5. ASSUME NEW p \in Pid, KExec(p)
      PROVE  task' \in [Pid -> Task] /\ clock' \in 0..MaxClock /\ evq' \in Seq(Event)
             /\ EventsOrdered'
  <2>1. PICK v \in Val : task' = [task EXCEPT ![p].attr["comm"] = v] /\ Emit("exec", p, 0)
    BY <1>5 DEF KExec
  <2>2. task' \in [Pid -> Task]
    <3>1. [task[p] EXCEPT !.attr["comm"] = v] \in Task
      BY <1>1, TaskUpdates, KernelConstants
    <3>2. task' = [task EXCEPT ![p] = [task[p] EXCEPT !.attr["comm"] = v]]
      BY <2>1
    <3> QED BY <3>1, <3>2, <1>1
  <2>3. [what |-> "exec", pid |-> p, arg |-> 0, ts |-> clock + 1] \in Event
          \/ ~(clock + 1 \in Time)
    BY DEF Event
  <2> QED BY <2>1, <2>2, <2>3, EmitKeeps
<1>6. ASSUME NEW p \in Pid, NEW a \in Attr, KAttr(p, a)
      PROVE  task' \in [Pid -> Task] /\ clock' \in 0..MaxClock /\ evq' \in Seq(Event)
             /\ EventsOrdered'
  <2>1. PICK v \in Val : task' = [task EXCEPT ![p].attr[a] = v] /\ Emit(a, p, v)
    BY <1>6 DEF KAttr
  <2>2. task' \in [Pid -> Task]
    <3>1. [task[p] EXCEPT !.attr[a] = v] \in Task
      BY <1>1, TaskUpdates
    <3>2. task' = [task EXCEPT ![p] = [task[p] EXCEPT !.attr[a] = v]]
      BY <2>1
    <3> QED BY <3>1, <3>2, <1>1
  <2>3. [what |-> a, pid |-> p, arg |-> v, ts |-> clock + 1] \in Event
          \/ ~(clock + 1 \in Time)
    BY DEF Event
  <2> QED BY <2>1, <2>2, <2>3, EmitKeeps
<1>7. ASSUME NEW p \in Pid, KExit(p)
      PROVE  task' \in [Pid -> Task] /\ clock' \in 0..MaxClock /\ evq' \in Seq(Event)
             /\ EventsOrdered'
  <2>1. PICK a \in Pid :
       task' = [c \in Pid |->
         IF c = p
         THEN IF task[p].tgid = p THEN [task[p] EXCEPT !.st = "zombie"]
                                  ELSE [task[p] EXCEPT !.st = "gone", !.parent = 0]
         ELSE IF task[c].parent = p THEN [task[c] EXCEPT !.parent = a] ELSE task[c]]
    BY <1>7, AdoptersAreThreads DEF KExit
  <2>2. task' \in [Pid -> Task]
    BY <2>1, <1>1, TaskUpdates
  <2>3. Emit("exit", p, 0)
    BY <1>7 DEF KExit
  <2>4. [what |-> "exit", pid |-> p, arg |-> 0, ts |-> clock + 1] \in Event
          \/ ~(clock + 1 \in Time)
    BY DEF Event
  <2> QED BY <2>2, <2>3, <2>4, EmitKeeps
<1>8. ASSUME NEW p \in Pid, KReap(p)
      PROVE  task' \in [Pid -> Task] /\ clock' \in 0..MaxClock /\ evq' \in Seq(Event)
             /\ EventsOrdered'
  <2>1. task' \in [Pid -> Task]
    <3>1. [task[p] EXCEPT !.st = "gone", !.parent = 0] \in Task
      BY <1>1, TaskUpdates
    <3>2. task' = [task EXCEPT ![p] = [task[p] EXCEPT !.st = "gone", !.parent = 0]]
      BY <1>8 DEF KReap
    <3> QED BY <3>1, <3>2, <1>1
  <2> QED BY <2>1, <1>8 DEF KReap, KernelTypeOK, EventsOrdered
<1> QED BY <1>3, <1>4, <1>5, <1>6, <1>7, <1>8 DEF KernelNext

-------------------------------------------------------------------------------
(* Age. A pid that is used once has an age, a number, from its fork on: a    *)
(* parent is older than its children, also the one that adopts them, and the *)
(* threads of a process are of one age. 0 is the age of a pid not used yet.  *)
Older(age, p, c) == p \in Pid /\ c \in Pid /\ 0 < age[p] /\ age[p] < age[c]

TaskAged(age) ==
  /\ age[InitPid] = 1
  /\ \A p \in Pid :
       /\ task[p].st = "new" <=> age[p] = 0
       /\ age[p] # 0 => /\ age[task[p].tgid] = age[p]
                        /\ task[p].parent # 0 => Older(age, task[p].parent, p)

QueueAged(age) ==
  \A i \in 1..Len(evq) :
    evq[i].what = "fork" /\ evq[i].arg # 0 => Older(age, evq[i].arg, evq[i].pid)

\* The queue grows by an event, or the event is dropped.
LEMMA EmitAges ==
  ASSUME KernelTypeOK, NEW age, NEW next, QueueAged(age),
         \A p, c : Older(age, p, c) => Older(next, p, c),
         NEW what, NEW pid, NEW arg, Emit(what, pid, arg),
         what = "fork" /\ arg # 0 => Older(next, arg, pid)
  PROVE  QueueAged(next)'
<1> DEFINE e == [what |-> what, pid |-> pid, arg |-> arg, ts |-> clock + 1]
<1>1. evq \in Seq(Event) /\ Len(evq) \in Nat
  BY LenProperties DEF KernelTypeOK
<1>2. CASE evq' = evq
  BY <1>2 DEF QueueAged
<1>3. CASE evq' = Append(evq, e)
  <2>1. evq \in Seq(Event \cup {e})
    BY <1>1
  <2>2. e.what = what /\ e.pid = pid /\ e.arg = arg
    OBVIOUS
  <2> HIDE DEF e
  <2>3. /\ Len(evq') = Len(evq) + 1 /\ evq'[Len(evq) + 1] = e
        /\ \A i \in 1..Len(evq) : evq'[i] = evq[i]
    BY <1>3, <2>1, AppendProperties
  <2>4. \A i \in 1..Len(evq') : i \in 1..Len(evq) \/ i = Len(evq) + 1
    BY <1>1, <2>3
  <2> QED BY <2>2, <2>3, <2>4 DEF QueueAged
<1> QED BY <1>2, <1>3 DEF Emit

\* Whoever adopts the children of a thread is older than they are.
LEMMA AdoptersAreOlder ==
  ASSUME KernelTypeOK, NEW age \in [Pid -> Nat], TaskAged(age),
         NEW p \in Pid, Running(p), NEW a \in Adopters(p),
         NEW c, Older(age, p, c)
  PROVE  Older(age, a, c)
<1>1. \A q \in Pid : /\ task[q].tgid \in Pid /\ task[q].parent \in Pid \cup {0}
                     /\ Running(q) => age[q] # 0
  BY DEF KernelTypeOK, Task, TaskAged, Running
<1>2. a \in Pid /\ c \in Pid /\ age[p] \in Nat /\ age[c] \in Nat /\ 0 < age[p] /\ age[p] < age[c]
  BY AdoptersAreThreads DEF Older
<1>3. ASSUME NEW g \in Pid, a \in Group(g) PROVE age[a] = age[g] /\ age[a] # 0
  BY <1>1, <1>2, <1>3 DEF Group, TaskAged
<1>4. CASE a \in Group(task[p].tgid)
  BY <1>1, <1>2, <1>3, <1>4 DEF TaskAged, Older
<1>5. CASE a \in Group(Ppid(p)) /\ Ppid(p) \in Subreaper
  <2>1. task[p].parent # 0 /\ Ppid(p) = task[task[p].parent].tgid
    BY <1>5, KernelConstants DEF Ppid
  <2>2. Older(age, task[p].parent, p)
    BY <2>1, <1>2 DEF TaskAged
  <2>3. age[Ppid(p)] = age[task[p].parent] /\ Ppid(p) \in Pid
    BY <2>1, <2>2, <1>1 DEF TaskAged, Older
  <2>4. age[a] = age[task[p].parent]
    BY <2>3, <1>3, <1>5
  <2> QED BY <2>2, <2>4, <1>2 DEF Older
<1>6. CASE a = InitPid
  BY <1>2, <1>6 DEF TaskAged, Older
<1> QED BY <1>4, <1>5, <1>6 DEF Adopters

\* A step of the processes that uses no new pid
LEMMA NobodyIsBorn ==
  ASSUME KernelTypeOK, KernelTypeOK', NEW age \in [Pid -> Nat], TaskAged(age),
         \A q \in Pid : /\ task'[q].st = "new" <=> task[q].st = "new"
                        /\ task'[q].tgid = task[q].tgid
                        /\ age[q] # 0 /\ task'[q].parent # 0 => Older(age, task'[q].parent, q)
  PROVE  TaskAged(age)'
  BY DEF TaskAged

\* A new thread or process c gets the age n.
LEMMA SomebodyIsBorn ==
  ASSUME KernelTypeOK, NEW age \in [Pid -> Nat], TaskAged(age),
         NEW c \in Pid, task[c].st = "new", NEW n \in Nat \ {0},
         NEW t \in Task, task' = [task EXCEPT ![c] = t], t.st # "new",
         t.tgid # c => t.tgid \in Pid /\ age[t.tgid] = n,
         t.parent # 0 => t.parent \in Pid /\ 0 < age[t.parent] /\ age[t.parent] < n
  PROVE  LET next == [age EXCEPT ![c] = n] IN
         /\ next \in [Pid -> Nat] /\ TaskAged(next)'
         /\ \A p, q : Older(age, p, q) => Older(next, p, q)
         /\ t.parent # 0 => Older(next, t.parent, c)
<1> DEFINE next == [age EXCEPT ![c] = n]
<1>1. age[c] = 0 /\ InitPid \in Pid /\ InitPid # c
  BY KernelConstants DEF TaskAged
<1>2. next \in [Pid -> Nat] /\ next[c] = n /\ \A q \in Pid : q # c => next[q] = age[q]
  OBVIOUS
<1>3. /\ task \in [Pid -> Task] /\ task'[c] = t /\ \A q \in Pid : q # c => task'[q] = task[q]
  BY DEF KernelTypeOK
<1> HIDE DEF next
<1>4. \A p, q : Older(age, p, q) => Older(next, p, q)
  BY <1>1, <1>2 DEF Older
<1>5. t.parent # 0 => Older(next, t.parent, c)
  BY <1>1, <1>2 DEF Older
<1>6. ASSUME NEW q \in Pid
      PROVE  /\ task'[q].st = "new" <=> next[q] = 0
             /\ next[q] # 0 => /\ next[task'[q].tgid] = next[q]
                               /\ task'[q].parent # 0 => Older(next, task'[q].parent, q)
  <2>1. CASE q = c
    BY <2>1, <1>1, <1>2, <1>3, <1>5
  <2>2. CASE q # c
    <3>1. task'[q] = task[q] /\ next[q] = age[q] /\ task[q].tgid \in Pid
      BY <2>2, <1>2, <1>3 DEF Task
    <3>2. age[q] # 0 => age[task[q].tgid] = age[q] /\ task[q].tgid # c
      BY <1>1 DEF TaskAged
    <3> QED BY <3>1, <3>2, <1>2, <1>4 DEF TaskAged
  <2> QED BY <2>1, <2>2
<1>7. TaskAged(next)'
  BY <1>1, <1>2, <1>6 DEF TaskAged
<1> QED BY <1>2, <1>4, <1>5, <1>7 DEF next

(* When pids are used once, every step of the processes keeps the old ages   *)
(* and gives one to a new process: adoption never makes a younger process a  *)
(* parent, also through threads and subreapers (find_new_reaper).            *)
THEOREM ProcessesAge ==
  ASSUME ~Recycle, KernelTypeOK, KernelTypeOK', KernelNext,
         NEW age \in [Pid -> Nat], TaskAged(age), QueueAged(age)
  PROVE  \E next \in [Pid -> Nat] :
           /\ TaskAged(next)' /\ QueueAged(next)'
           /\ \A p, c : Older(age, p, c) => Older(next, p, c)
<1>1. task \in [Pid -> Task] /\ \A p \in Pid : /\ task[p] \in Task /\ task[p].tgid \in Pid
                                               /\ task[p].parent \in Pid \cup {0}
  BY DEF KernelTypeOK, Task
<1>2. \A p \in Pid : Running(p) => age[p] \in Nat /\ 0 < age[p] /\ age[p] # 0
  BY DEF Running, TaskAged
<1>3. ASSUME NEW p \in Pid, NEW c \in Pid, KFork(p, c)
      PROVE  \E next \in [Pid -> Nat] :
               /\ TaskAged(next)' /\ QueueAged(next)'
               /\ \A q, d : Older(age, q, d) => Older(next, q, d)
  <2> DEFINE t == [st |-> "run", tgid |-> c, parent |-> p,
                   creator |-> task[p].tgid, attr |-> task[p].attr]
             next == [age EXCEPT ![c] = age[p] + 1]
  <2>1. /\ task[c].st = "new" /\ task' = [task EXCEPT ![c] = t] /\ Emit("fork", c, p)
        /\ Running(p)
    BY <1>3 DEF KFork, Unused
  <2>2. t \in Task /\ t.st # "new" /\ t.tgid = c /\ t.parent = p
    BY <1>1 DEF Task
  <2>3. age[p] + 1 \in Nat \ {0} /\ 0 < age[p] /\ age[p] < age[p] + 1 /\ p # 0
    BY <2>1, <1>2, KernelConstants
  <2> HIDE DEF t
  <2>4. /\ next \in [Pid -> Nat] /\ TaskAged(next)' /\ Older(next, p, c)
        /\ \A q, d : Older(age, q, d) => Older(next, q, d)
    BY <2>1, <2>2, <2>3, SomebodyIsBorn
  <2> HIDE DEF next
  <2>5. QueueAged(next)'
    BY <2>1, <2>4, EmitAges
  <2> QED BY <2>4, <2>5
<1>4. ASSUME NEW p \in Pid, NEW c \in Pid, KClone(p, c)
      PROVE  \E next \in [Pid -> Nat] :
               /\ TaskAged(next)' /\ QueueAged(next)'
               /\ \A q, d : Older(age, q, d) => Older(next, q, d)
  <2> DEFINE t == [task[p] EXCEPT !.creator = task[p].tgid]
             next == [age EXCEPT ![c] = age[p]]
  <2>1. /\ task[c].st = "new" /\ task' = [task EXCEPT ![c] = t] /\ Running(p)
        /\ Emit("fork", c, task[p].parent)
    BY <1>4 DEF KClone, Unused
  <2>2. t \in Task /\ t.st # "new" /\ t.tgid = task[p].tgid /\ t.parent = task[p].parent
    BY <2>1, <1>1 DEF Task, Running
  <2>3. age[p] \in Nat \ {0} /\ age[t.tgid] = age[p] /\ t.tgid \in Pid
    BY <2>1, <2>2, <1>1, <1>2 DEF TaskAged
  <2>4. t.parent # 0 => t.parent \in Pid /\ 0 < age[t.parent] /\ age[t.parent] < age[p]
    BY <2>2, <2>3 DEF TaskAged, Older
  <2> HIDE DEF t
  <2>5. /\ next \in [Pid -> Nat] /\ TaskAged(next)'
        /\ \A q, d : Older(age, q, d) => Older(next, q, d)
        /\ t.parent # 0 => Older(next, t.parent, c)
    BY <2>1, <2>2, <2>3, <2>4, SomebodyIsBorn
  <2> HIDE DEF next
  <2>6. QueueAged(next)'
    BY <2>1, <2>2, <2>5, EmitAges
  <2> QED BY <2>5, <2>6
<1>5. ASSUME TaskAged(age)',
             \/ UNCHANGED evq
             \/ \E what, pid, arg : Emit(what, pid, arg) /\ what # "fork"
      PROVE  \E next \in [Pid -> Nat] :
               /\ TaskAged(next)' /\ QueueAged(next)'
               /\ \A q, d : Older(age, q, d) => Older(next, q, d)
  <2>1. CASE UNCHANGED evq
    BY <1>5, <2>1 DEF QueueAged
  <2>2. CASE \E what, pid, arg : Emit(what, pid, arg) /\ what # "fork"
    <3>1. PICK what, pid, arg : Emit(what, pid, arg) /\ what # "fork"
      BY <2>2
    <3>2. QueueAged(age)'
      BY <3>1, EmitAges
    <3> QED BY <3>2, <1>5
  <2> QED BY <1>5, <2>1, <2>2
<1>6. ASSUME NEW p \in Pid, KExec(p) PROVE TaskAged(age)' /\ Emit("exec", p, 0)
  <2>1. PICK v \in Val : task' = [task EXCEPT ![p].attr["comm"] = v] /\ Emit("exec", p, 0)
    BY <1>6 DEF KExec
  <2>2. \A q \in Pid : /\ task'[q].st = task[q].st /\ task'[q].tgid = task[q].tgid
                       /\ task'[q].parent = task[q].parent
    BY <2>1, <1>1 DEF Task
  <2> QED BY <2>1, <2>2, NobodyIsBorn DEF TaskAged
<1>7. ASSUME NEW p \in Pid, NEW a \in Attr, KAttr(p, a)
      PROVE  TaskAged(age)' /\ \E v : Emit(a, p, v)
  <2>1. PICK v \in Val : task' = [task EXCEPT ![p].attr[a] = v] /\ Emit(a, p, v)
    BY <1>7 DEF KAttr
  <2>2. \A q \in Pid : /\ task'[q].st = task[q].st /\ task'[q].tgid = task[q].tgid
                       /\ task'[q].parent = task[q].parent
    BY <2>1, <1>1 DEF Task
  <2> QED BY <2>1, <2>2, NobodyIsBorn DEF TaskAged
<1>8. ASSUME NEW p \in Pid, KExit(p) PROVE TaskAged(age)' /\ Emit("exit", p, 0)
  <2>1. Running(p) /\ Emit("exit", p, 0)
    BY <1>8 DEF KExit
  <2>2. PICK a \in Adopters(p) :
       task' = [c \in Pid |->
         IF c = p
         THEN IF task[p].tgid = p THEN [task[p] EXCEPT !.st = "zombie"]
                                  ELSE [task[p] EXCEPT !.st = "gone", !.parent = 0]
         ELSE IF task[c].parent = p THEN [task[c] EXCEPT !.parent = a] ELSE task[c]]
    BY <1>8 DEF KExit
  <2>3. ASSUME NEW q \in Pid
        PROVE  /\ task'[q].st = "new" <=> task[q].st = "new"
               /\ task'[q].tgid = task[q].tgid
               /\ age[q] # 0 /\ task'[q].parent # 0 => Older(age, task'[q].parent, q)
    <3>1. task[q] \in Task
      BY <1>1
    <3>2. CASE q = p
      BY <2>1, <2>2, <3>1, <3>2 DEF Task, Running, TaskAged
    <3>3. CASE q # p /\ task[q].parent # p
      BY <2>2, <3>3 DEF TaskAged
    <3>4. CASE q # p /\ task[q].parent = p
      <4>1. task'[q] = [task[q] EXCEPT !.parent = a]
        BY <2>2, <3>4
      <4>2. /\ task'[q].st = task[q].st /\ task'[q].tgid = task[q].tgid
            /\ task'[q].parent = a
        BY <4>1, <3>1 DEF Task
      <4>3. age[q] # 0 => Older(age, p, q)
        BY <3>4, KernelConstants DEF TaskAged
      <4>4. age[q] # 0 => Older(age, a, q)
        BY <4>3, <2>1, AdoptersAreOlder
      <4> QED BY <4>2, <4>4
    <3> QED BY <3>2, <3>3, <3>4
  <2> QED BY <2>1, <2>3, NobodyIsBorn
<1>9. ASSUME NEW p \in Pid, KReap(p) PROVE TaskAged(age)' /\ UNCHANGED evq
  <2>1. /\ task' = [task EXCEPT ![p] = [task[p] EXCEPT !.st = "gone", !.parent = 0]]
        /\ task[p].st = "zombie" /\ UNCHANGED evq
    BY <1>9 DEF KReap
  <2>2. ASSUME NEW q \in Pid
        PROVE  /\ task'[q].st = "new" <=> task[q].st = "new"
               /\ task'[q].tgid = task[q].tgid
               /\ age[q] # 0 /\ task'[q].parent # 0 => Older(age, task'[q].parent, q)
    BY <2>1, <1>1 DEF Task, TaskAged
  <2> QED BY <2>1, <2>2, NobodyIsBorn
<1>10. "fork" \notin Attr
  BY KernelConstants
<1> QED BY <1>3, <1>4, <1>5, <1>6, <1>7, <1>8, <1>9, <1>10 DEF KernelNext

-------------------------------------------------------------------------------
\* The events the tracker has yet to receive, and whom an event is about
Pending == {evq[i] : i \in 1..Len(evq)}
Mentions(e, p) == e.pid = p \/ (e.what = "fork" /\ e.arg = p)
ForkDue(p) == \E e \in Pending : e.what = "fork" /\ e.pid = p
ExitDue(p) == \E e \in Pending : e.what = "exit" /\ e.pid = p

\* The end of p is still to be told: it runs, or its exit event is pending.
Going(p) == p \in Pid /\ (Running(p) \/ ExitDue(p))

\* The birth of p was told, or p is older than the tracker.
Known(p) == p \in Pid /\ task[p].st # "new" /\ ~ForkDue(p)

\* While both run, b is of the process that is a's parent.
Related(b, a) == Running(a) /\ Running(b) => task[b].tgid = Ppid(a)

\* The handler of e makes the attribute a of p what it is, or has it read again.
Settles(e, p, a) == e.pid = p /\ (e.what = a \/ (a = "comm" /\ e.what = "exec"))

\* What the states, the groups and the parents of the tasks have in common
TaskInv ==
  /\ Running(InitPid) /\ task[InitPid].tgid = InitPid
  /\ \A p \in Pid :
       /\ task[p].parent # 0 => Running(task[p].parent)
       /\ task[task[p].tgid].tgid = task[p].tgid
       /\ task[p].st = "new" => task[p].parent = 0 /\ task[p].tgid = p
       /\ task[p].st # "new" => task[task[p].tgid].st # "new"
       /\ task[p].st = "zombie" => task[p].tgid = p
       /\ Running(p) => /\ task[task[p].tgid].parent = task[p].parent
                        /\ task[task[p].tgid].st \in {"run", "zombie"}

\* An event in the queue tells of somebody who runs or whose exit is told later.
Told ==
  \A e \in Pending, p \in Pid :
    Mentions(e, p) => /\ task[p].st # "new"
                      /\ Running(p) \/ \E x \in Pending : /\ x.what = "exit" /\ x.pid = p
                                                          /\ e.ts <= x.ts

\* Nothing is told of a process after its exit.
ExitIsLast ==
  \A x, e \in Pending :
    x.what = "exit" /\ Mentions(e, x.pid) => ~Running(x.pid) /\ e.ts <= x.ts

\* Nothing is told of a process before its fork.
ForkIsFirst ==
  \A f, e \in Pending :
    f.what = "fork" => f.pid # InitPid /\ (Mentions(e, f.pid) => f.ts <= e.ts)

\* The fork of a parent is told before the forks of its children.
ForksInOrder ==
  \A f \in Pending, c \in Pid :
    f.what = "fork" /\ task[c].parent # 0 /\ f.pid = Ppid(c) =>
      \E g \in Pending : g.what = "fork" /\ g.pid = c /\ f.ts < g.ts

\* While both run, a fork event names the parent of the child.
ForkNamesParent ==
  \A f \in Pending : f.what = "fork" /\ f.arg # 0 => f.arg # f.pid /\ Related(f.arg, f.pid)

\* The value an event tells is the value of the process, or told of again.
AttrsTold ==
  \A e \in Pending :
    e.what \in Attr => \/ e.arg = task[e.pid].attr[e.what]
                       \/ \E x \in Pending : Settles(x, e.pid, e.what) /\ e.ts < x.ts

\* What the queue tells of the tasks; no event was lost.
QueueInv ==
  /\ Len(evq) <= clock
  /\ Told /\ ExitIsLast /\ ForkIsFirst /\ ForksInOrder /\ ForkNamesParent /\ AttrsTold

\* What a step of the processes leaves as it is
Lasting ==
  /\ Pending \subseteq Pending'
  /\ \A p \in Pid : task[p].st # "new" =>
       /\ task'[p].st # "new" /\ task'[p].tgid = task[p].tgid
       /\ Going(p)' <=> Going(p)
       /\ Known(p) => Known(p)'
       /\ \A a \in Attr : \/ task'[p].attr[a] = task[p].attr[a]
                          \/ \E e \in Pending' : Settles(e, p, a)
  /\ \A p \in Pid, b \in Pid :
       task[p].st # "new" /\ task[b].st # "new" /\ Related(b, p) => Related(b, p)'

\* The pending events are events of the past and differ in their times.
LEMMA PendingFacts ==
  ASSUME KernelTypeOK, EventsOrdered
  PROVE  /\ clock \in Nat
         /\ Pending \subseteq Event
         /\ \A e \in Pending : e.ts \in Nat /\ e.ts <= clock /\ e.pid \in Pid
         /\ \A e, x \in Pending : e.ts = x.ts => e = x
<1>1. clock \in Nat /\ evq \in Seq(Event) /\ Len(evq) \in Nat
  BY KernelConstants, LenProperties DEF KernelTypeOK
<1>2. \A i \in 1..Len(evq) : evq[i] \in Event
  BY <1>1, ElementOfSeq
<1>3. \A e \in Event : e.ts \in Nat /\ e.pid \in Pid
  BY EventFields, KernelConstants
<1>4. \A i \in 1..Len(evq) : evq[i].ts <= clock
  BY DEF EventsOrdered
<1>5. ASSUME NEW i \in 1..Len(evq), NEW j \in 1..Len(evq), evq[i].ts = evq[j].ts
      PROVE  evq[i] = evq[j]
  <2>1. ~(i < j) /\ ~(j < i)
    <3>1. evq[i].ts \in Nat /\ evq[j].ts \in Nat
      BY <1>2, <1>3
    <3> QED BY <3>1, <1>5 DEF EventsOrdered
  <2>2. i = j
    BY <2>1, <1>1
  <2> QED BY <2>2
<1> QED BY <1>1, <1>2, <1>3, <1>4, <1>5 DEF Pending

\* No event is lost: the queue takes as many as the kernel emits.
LEMMA EmitPends ==
  ASSUME MaxClock <= QMax, KernelTypeOK, EventsOrdered, Len(evq) <= clock,
         NEW what, NEW pid, NEW arg, Emit(what, pid, arg)
  PROVE  /\ Pending' = Pending \cup
              {[what |-> what, pid |-> pid, arg |-> arg, ts |-> clock + 1]}
         /\ Len(evq') <= clock'
<1> DEFINE e == [what |-> what, pid |-> pid, arg |-> arg, ts |-> clock + 1]
<1>1. /\ clock \in Nat /\ evq \in Seq(Event) /\ Len(evq) \in Nat
      /\ MaxClock \in Nat /\ QMax \in Nat
  BY KernelConstants, LenProperties DEF KernelTypeOK
<1>2. clock < MaxClock /\ clock' = clock + 1
  BY DEF Emit
<1>3. Len(evq) < QMax
  BY <1>1, <1>2
<1>4. evq' = Append(evq, e)
  BY <1>3 DEF Emit
<1>5. evq \in Seq(Event \cup {e}) /\ e \in Event \cup {e}
  BY <1>1
<1> HIDE DEF e
<1>6. /\ Len(evq') = Len(evq) + 1 /\ evq'[Len(evq) + 1] = e
      /\ \A i \in 1..Len(evq) : evq'[i] = evq[i]
  BY <1>4, <1>5, AppendProperties
<1>7. 1..Len(evq') = 1..Len(evq) \cup {Len(evq) + 1}
  BY <1>1, <1>6
<1>8. Pending' = Pending \cup {e}
  BY <1>6, <1>7 DEF Pending
<1> QED BY <1>1, <1>2, <1>6, <1>8 DEF e

\* The fields of a task, of their types
LEMMA TaskFields ==
  ASSUME KernelTypeOK
  PROVE  /\ task \in [Pid -> Task]
         /\ 0 \notin Pid /\ InitPid \in Pid
         /\ \A p \in Pid : /\ task[p] \in Task /\ task[p].tgid \in Pid
                           /\ task[p].parent \in Pid \cup {0}
                           /\ task[p].attr \in [Attr -> Val]
  BY KernelConstants DEF KernelTypeOK, Task

\* A new process or thread c is told of by its fork event.
LEMMA Spawned ==
  ASSUME KernelTypeOK, EventsOrdered, MaxClock <= QMax, TaskInv, QueueInv,
         NEW c \in Pid, task[c].st = "new", NEW t \in Task, t.st = "run",
         task' = [task EXCEPT ![c] = t],
         t.parent # 0 => Running(t.parent),
         t.tgid # c => \E p \in Pid : Running(p) /\ t.tgid = task[p].tgid /\ t.parent = task[p].parent,
         Emit("fork", c, t.parent)
  PROVE  TaskInv' /\ QueueInv' /\ Lasting
<1> DEFINE f == [what |-> "fork", pid |-> c, arg |-> t.parent, ts |-> clock + 1]
<1>1. /\ task \in [Pid -> Task] /\ 0 \notin Pid /\ InitPid \in Pid
      /\ \A p \in Pid : task[p].tgid \in Pid /\ task[p].parent \in Pid \cup {0}
      /\ t.tgid \in Pid /\ t.parent \in Pid \cup {0}
  BY TaskFields DEF Task
<1>2. task'[c] = t /\ \A q \in Pid : q # c => task'[q] = task[q]
  BY <1>1
<1>3. /\ clock \in Nat /\ Pending \subseteq Event
      /\ \A e \in Pending : e.ts \in Nat /\ e.ts <= clock /\ e.pid \in Pid
  BY PendingFacts
<1>4. Pending' = Pending \cup {f} /\ Len(evq') <= clock'
  BY EmitPends DEF QueueInv
<1>5. f.what = "fork" /\ f.pid = c /\ f.arg = t.parent /\ f.ts = clock + 1
  OBVIOUS
<1>6. \A e \in Pending : e.ts < f.ts
  BY <1>3
<1> HIDE DEF f
<1>7. /\ \A q \in Pid : task[q].parent # c
      /\ \A q \in Pid : q # c => task[q].tgid # c
      /\ task[c].parent = 0 /\ task[c].tgid = c /\ t.parent # c /\ ~Running(c)
      /\ Running(InitPid) /\ InitPid # c
  BY <1>1 DEF TaskInv, Running
<1>8. \A e \in Pending : ~Mentions(e, c)
  BY DEF QueueInv, Told
<1>9. /\ \A q \in Pid : Running(q)' <=> Running(q) \/ q = c
      /\ \A q \in Pid : q # c => Ppid(q)' = Ppid(q)
      /\ Ppid(c)' = IF t.parent = 0 THEN 0 ELSE task[t.parent].tgid
  <2>1. \A q \in Pid : Running(q)' <=> Running(q) \/ q = c
    BY <1>2 DEF Running
  <2>2. ASSUME NEW q \in Pid, q # c PROVE Ppid(q)' = Ppid(q)
    <3>1. task'[q] = task[q] /\ task[q].parent # c
      BY <2>2, <1>2, <1>7
    <3> QED BY <3>1, <1>1, <1>2 DEF Ppid
  <2>3. Ppid(c)' = IF t.parent = 0 THEN 0 ELSE task[t.parent].tgid
    BY <1>1, <1>2, <1>7 DEF Ppid
  <2> QED BY <2>1, <2>2, <2>3
<1>10. TaskInv'
  <2>1. Running(InitPid)' /\ task'[InitPid].tgid = InitPid
    BY <1>1, <1>2, <1>7, <1>9 DEF TaskInv
  <2>2. ASSUME NEW p \in Pid, p # c
        PROVE  /\ task'[p] = task[p]
               /\ task[p].parent # 0 => Running(task[p].parent)'
               /\ task[p].tgid # c
    BY <2>2, <1>1, <1>2, <1>7, <1>9 DEF TaskInv
  <2>3. ASSUME NEW p \in Pid, p # c
        PROVE  /\ task'[p].parent # 0 => Running(task[p].parent)'
               /\ task'[task'[p].tgid].tgid = task'[p].tgid
               /\ task'[p].st = "new" => task'[p].parent = 0 /\ task'[p].tgid = p
               /\ task'[p].st # "new" => task'[task'[p].tgid].st # "new"
               /\ task'[p].st = "zombie" => task'[p].tgid = p
               /\ Running(p)' => /\ task'[task'[p].tgid].parent = task'[p].parent
                                 /\ task'[task'[p].tgid].st \in {"run", "zombie"}
    <3>1. task'[p] = task[p] /\ task'[task[p].tgid] = task[task[p].tgid]
      BY <2>2, <2>3, <1>1, <1>2
    <3>2. Running(p)' <=> Running(p)
      BY <2>3, <1>9
    <3> QED BY <2>2, <2>3, <3>1, <3>2 DEF TaskInv
  <2>4. /\ task'[c].parent # 0 => Running(task[c].parent)'
        /\ task'[c].st = "run"
    BY <1>1, <1>2, <1>9
  <2>5. /\ task'[task'[c].tgid].tgid = task'[c].tgid
        /\ task'[task'[c].tgid].st \in {"run", "zombie"}
        /\ task'[task'[c].tgid].parent = task'[c].parent
    <3>1. CASE t.tgid = c
      BY <3>1, <1>2
    <3>2. CASE t.tgid # c
      <4>1. PICK p \in Pid : Running(p) /\ t.tgid = task[p].tgid /\ t.parent = task[p].parent
        BY <3>2
      <4>2. /\ task[t.tgid].tgid = t.tgid /\ task[t.tgid].st \in {"run", "zombie"}
            /\ task[t.tgid].parent = t.parent
        BY <4>1 DEF TaskInv
      <4> QED BY <4>2, <3>2, <1>1, <1>2
    <3> QED BY <3>1, <3>2
  <2> QED BY <2>1, <2>3, <2>4, <2>5 DEF TaskInv
<1>11. \A p \in Pid : Mentions(f, p) <=> p = c \/ p = t.parent
  BY <1>5 DEF Mentions
<1>12. Told'
  <2>1. ASSUME NEW e \in Pending', NEW p \in Pid, Mentions(e, p)
        PROVE  /\ task'[p].st # "new"
               /\ Running(p)' \/ \E x \in Pending' : x.what = "exit" /\ x.pid = p /\ e.ts <= x.ts
    <3>1. CASE e \in Pending
      <4>1. p # c
        BY <2>1, <3>1, <1>8
      <4> QED BY <2>1, <3>1, <4>1, <1>2, <1>4, <1>9 DEF QueueInv, Told
    <3>2. CASE e = f
      <4>1. Running(p)'
        BY <2>1, <3>2, <1>1, <1>9, <1>11
      <4> QED BY <4>1 DEF Running
    <3> QED BY <3>1, <3>2, <1>4
  <2> QED BY <2>1 DEF Told, Mentions
<1>13. ExitIsLast'
  <2>1. ASSUME NEW x \in Pending', NEW e \in Pending', x.what = "exit", Mentions(e, x.pid)
        PROVE  ~Running(x.pid)' /\ e.ts <= x.ts
    <3>1. x \in Pending /\ x.pid \in Pid /\ x.pid # c /\ ~Running(x.pid)
      BY <2>1, <1>3, <1>4, <1>5, <1>8 DEF Mentions, QueueInv, ExitIsLast
    <3>2. e # f
      BY <2>1, <3>1, <1>1, <1>11
    <3> QED BY <2>1, <3>1, <3>2, <1>4, <1>9 DEF QueueInv, ExitIsLast
  <2> QED BY <2>1 DEF ExitIsLast, Mentions
<1>14. ForkIsFirst'
  <2>1. ASSUME NEW g \in Pending', NEW e \in Pending', g.what = "fork"
        PROVE  g.pid # InitPid /\ (Mentions(e, g.pid) => g.ts <= e.ts)
    <3>1. CASE g \in Pending /\ e \in Pending
      BY <2>1, <3>1 DEF QueueInv, ForkIsFirst
    <3>2. CASE g \in Pending /\ e = f
      BY <2>1, <3>2, <1>3, <1>5, <1>6 DEF QueueInv, ForkIsFirst
    <3>3. CASE g = f
      BY <3>3, <1>3, <1>4, <1>5, <1>7, <1>8
    <3> QED BY <3>1, <3>2, <3>3, <1>4
  <2> QED BY <2>1 DEF ForkIsFirst, Mentions
<1>15. ForksInOrder'
  <2>1. ASSUME NEW g \in Pending', NEW d \in Pid,
               g.what = "fork", task'[d].parent # 0, g.pid = Ppid(d)'
        PROVE  \E h \in Pending' : h.what = "fork" /\ h.pid = d /\ g.ts < h.ts
    <3>1. g # f
      <4>1. Ppid(d)' # c
        <5>1. CASE d = c
          BY <5>1, <2>1, <1>1, <1>2, <1>7, <1>9
        <5>2. CASE d # c
          BY <5>2, <2>1, <1>1, <1>2, <1>7, <1>9 DEF Ppid
        <5> QED BY <5>1, <5>2
      <4> QED BY <4>1, <2>1, <1>5
    <3>2. g \in Pending
      BY <3>1, <2>1, <1>4
    <3>3. CASE d = c
      BY <3>2, <3>3, <1>4, <1>5, <1>6
    <3>4. CASE d # c
      BY <2>1, <3>2, <3>4, <1>2, <1>4, <1>9 DEF QueueInv, ForksInOrder
    <3> QED BY <3>3, <3>4
  <2> QED BY <2>1 DEF ForksInOrder
<1>16. \A b, p \in Pid : b # c /\ p # c /\ Related(b, p) => Related(b, p)'
  BY <1>2, <1>9 DEF Related
<1>17. ForkNamesParent'
  <2>1. ASSUME NEW g \in Pending', g.what = "fork", g.arg # 0
        PROVE  g.arg # g.pid /\ Related(g.arg, g.pid)'
    <3>1. CASE g \in Pending
      <4>1. g.arg \in Pid /\ g.pid \in Pid /\ g.arg # c /\ g.pid # c
        BY <2>1, <3>1, <1>3, <1>8, EventFields DEF Mentions
      <4> QED BY <2>1, <3>1, <4>1, <1>16 DEF QueueInv, ForkNamesParent
    <3>2. CASE g = f
      <4>1. task'[t.parent].tgid = Ppid(c)' /\ t.parent # c
        BY <2>1, <3>2, <1>1, <1>2, <1>5, <1>7, <1>9
      <4> QED BY <4>1, <3>2, <1>5 DEF Related
    <3> QED BY <2>1, <3>1, <3>2, <1>4
  <2> QED BY <2>1 DEF ForkNamesParent, Related, Running, Ppid
<1>18. AttrsTold'
  <2>1. ASSUME NEW e \in Pending', e.what \in Attr
        PROVE  \/ e.arg = task'[e.pid].attr[e.what]
               \/ \E x \in Pending' : Settles(x, e.pid, e.what) /\ e.ts < x.ts
    <3>1. e \in Pending /\ e.pid \in Pid /\ e.pid # c
      BY <2>1, <1>3, <1>4, <1>5, <1>8, KernelConstants DEF Mentions
    <3> QED BY <2>1, <3>1, <1>2, <1>4 DEF QueueInv, AttrsTold
  <2> QED BY <2>1 DEF AttrsTold, Settles
<1>19. Lasting
  <2>1. ASSUME NEW p \in Pid, task[p].st # "new"
        PROVE  /\ task'[p] = task[p]
               /\ Going(p)' <=> Going(p)
               /\ Known(p) => Known(p)'
    <3>1. p # c /\ task'[p] = task[p] /\ (Running(p)' <=> Running(p))
      BY <2>1, <1>2, <1>9
    <3>2. ExitDue(p)' <=> ExitDue(p)
      BY <3>1, <1>4, <1>5 DEF ExitDue
    <3>3. ForkDue(p)' <=> ForkDue(p)
      BY <3>1, <1>4, <1>5 DEF ForkDue
    <3> QED BY <3>1, <3>2, <3>3 DEF Going, Known
  <2> QED BY <2>1, <1>4, <1>16 DEF Lasting
<1> QED BY <1>4, <1>10, <1>12, <1>13, <1>14, <1>15, <1>17, <1>18, <1>19 DEF QueueInv

\* A process p changes its attribute a, and an event that settles it tells so.
LEMMA Changed ==
  ASSUME KernelTypeOK, EventsOrdered, MaxClock <= QMax, TaskInv, QueueInv,
         NEW p \in Pid, Running(p), NEW a \in Attr, NEW t \in Task, task' = [task EXCEPT ![p] = t],
         t.st = task[p].st, t.tgid = task[p].tgid, t.parent = task[p].parent,
         \A b \in Attr : b # a => t.attr[b] = task[p].attr[b],
         NEW what, NEW arg, Emit(what, p, arg),
         (what = a /\ arg = t.attr[a]) \/ (what = "exec" /\ a = "comm")
  PROVE  TaskInv' /\ QueueInv' /\ Lasting
<1> DEFINE f == [what |-> what, pid |-> p, arg |-> arg, ts |-> clock + 1]
<1>1. /\ task \in [Pid -> Task] /\ 0 \notin Pid /\ InitPid \in Pid
      /\ \A q \in Pid : task[q].tgid \in Pid /\ task[q].parent \in Pid \cup {0}
  BY TaskFields
<1>2. task'[p] = t /\ \A q \in Pid : q # p => task'[q] = task[q]
  BY <1>1
<1>3. \A q \in Pid : /\ task'[q].st = task[q].st /\ task'[q].tgid = task[q].tgid
                     /\ task'[q].parent = task[q].parent
  BY <1>2
<1>4. /\ clock \in Nat /\ Pending \subseteq Event
      /\ \A e \in Pending : e.ts \in Nat /\ e.ts <= clock /\ e.pid \in Pid
  BY PendingFacts
<1>5. Pending' = Pending \cup {f} /\ Len(evq') <= clock'
  BY EmitPends DEF QueueInv
<1>6. /\ f.what = what /\ f.pid = p /\ f.arg = arg /\ f.ts = clock + 1
      /\ f.what # "fork" /\ f.what # "exit"
  BY KernelConstants
<1>7. \A e \in Pending : e.ts < f.ts
  BY <1>4
<1> HIDE DEF f
<1>8. \A q \in Pid : (Running(q)' <=> Running(q)) /\ Ppid(q)' = Ppid(q)
  <2>1. \A q \in Pid : Running(q)' <=> Running(q)
    BY <1>3 DEF Running
  <2>2. ASSUME NEW q \in Pid PROVE Ppid(q)' = Ppid(q)
    BY <1>1, <1>3 DEF Ppid
  <2> QED BY <2>1, <2>2
<1>9. \A b, q \in Pid : Related(b, q)' <=> Related(b, q)
  BY <1>3, <1>8 DEF Related
<1>10. TaskInv'
  <2>1. ASSUME NEW q \in Pid
        PROVE  /\ task'[q].parent # 0 => Running(task[q].parent)'
               /\ task'[task'[q].tgid].tgid = task'[q].tgid
               /\ task'[q].st = "new" => task'[q].parent = 0 /\ task'[q].tgid = q
               /\ task'[q].st # "new" => task'[task'[q].tgid].st # "new"
               /\ task'[q].st = "zombie" => task'[q].tgid = q
               /\ Running(q)' => /\ task'[task'[q].tgid].parent = task'[q].parent
                                 /\ task'[task'[q].tgid].st \in {"run", "zombie"}
    <3>1. /\ task[q].tgid \in Pid /\ task[q].parent \in Pid \cup {0}
          /\ Running(q)' <=> Running(q)
          /\ task[q].parent # 0 => (Running(task[q].parent)' <=> Running(task[q].parent))
      <4>1. task[q].tgid \in Pid /\ task[q].parent \in Pid \cup {0}
        BY <1>1
      <4>2. task[q].parent # 0 => (Running(task[q].parent)' <=> Running(task[q].parent))
        BY <4>1, <1>3 DEF Running
      <4> QED BY <4>1, <4>2, <1>8
    <3> QED BY <3>1, <1>3 DEF TaskInv
  <2> QED BY <2>1, <1>1, <1>3, <1>8 DEF TaskInv
<1>11. \A q \in Pid : Mentions(f, q) <=> q = p
  BY <1>6 DEF Mentions
<1>12. Told'
  <2>1. ASSUME NEW e \in Pending', NEW q \in Pid, Mentions(e, q)
        PROVE  /\ task'[q].st # "new"
               /\ Running(q)' \/ \E x \in Pending' : x.what = "exit" /\ x.pid = q /\ e.ts <= x.ts
    <3>1. CASE e \in Pending
      BY <2>1, <3>1, <1>3, <1>5, <1>8 DEF QueueInv, Told
    <3>2. CASE e = f
      BY <2>1, <3>2, <1>3, <1>8, <1>11 DEF Running
    <3> QED BY <3>1, <3>2, <1>5
  <2> QED BY <2>1 DEF Told, Mentions
<1>13. ExitIsLast'
  <2>1. ASSUME NEW x \in Pending', NEW e \in Pending', x.what = "exit", Mentions(e, x.pid)
        PROVE  ~Running(x.pid)' /\ e.ts <= x.ts
    <3>1. x \in Pending /\ x.pid \in Pid /\ ~Running(x.pid)
      BY <2>1, <1>4, <1>5, <1>6 DEF Mentions, QueueInv, ExitIsLast
    <3>2. e # f
      BY <2>1, <3>1, <1>11
    <3> QED BY <2>1, <3>1, <3>2, <1>5, <1>8 DEF QueueInv, ExitIsLast
  <2> QED BY <2>1 DEF ExitIsLast, Mentions
<1>14. ForkIsFirst'
  <2>1. ASSUME NEW g \in Pending', NEW e \in Pending', g.what = "fork"
        PROVE  g.pid # InitPid /\ (Mentions(e, g.pid) => g.ts <= e.ts)
    <3>1. g \in Pending /\ g.ts \in Nat /\ f.ts \in Nat
      BY <2>1, <1>4, <1>5, <1>6
    <3> QED BY <2>1, <3>1, <1>5, <1>7 DEF QueueInv, ForkIsFirst
  <2> QED BY <2>1 DEF ForkIsFirst, Mentions
<1>15. ForksInOrder'
  BY <1>3, <1>5, <1>6, <1>8 DEF QueueInv, ForksInOrder
<1>17. ForkNamesParent'
  <2>1. ASSUME NEW g \in Pending', g.what = "fork", g.arg # 0
        PROVE  g.arg # g.pid /\ Related(g.arg, g.pid)'
    <3>1. g \in Pending
      BY <2>1, <1>5, <1>6
    <3>2. g.arg \in Pid /\ g.pid \in Pid
      BY <2>1, <3>1, <1>4, EventFields
    <3> QED BY <2>1, <3>1, <3>2, <1>9 DEF QueueInv, ForkNamesParent
  <2> QED BY <2>1 DEF ForkNamesParent, Related, Running, Ppid
<1>18. Settles(f, p, a)
  BY <1>6 DEF Settles
<1>19. AttrsTold'
  <2>1. ASSUME NEW e \in Pending', e.what \in Attr
        PROVE  \/ e.arg = task'[e.pid].attr[e.what]
               \/ \E x \in Pending' : Settles(x, e.pid, e.what) /\ e.ts < x.ts
    <3>1. CASE e = f
      BY <2>1, <3>1, <1>2, <1>6, KernelConstants
    <3>2. CASE e \in Pending /\ e.pid = p /\ e.what = a
      BY <2>1, <3>2, <1>5, <1>7, <1>18
    <3>3. CASE e \in Pending /\ ~(e.pid = p /\ e.what = a)
      <4>1. task'[e.pid].attr[e.what] = task[e.pid].attr[e.what]
        BY <2>1, <3>3, <1>2, <1>4
      <4> QED BY <2>1, <3>3, <4>1, <1>5 DEF QueueInv, AttrsTold
    <3> QED BY <3>1, <3>2, <3>3, <1>5
  <2> QED BY <2>1 DEF AttrsTold, Settles
<1>20. Lasting
  <2>1. ASSUME NEW q \in Pid, task[q].st # "new"
        PROVE  /\ task'[q].st # "new" /\ task'[q].tgid = task[q].tgid
               /\ Going(q)' <=> Going(q)
               /\ Known(q) => Known(q)'
    <3>1. ExitDue(q)' <=> ExitDue(q)
      BY <1>5, <1>6 DEF ExitDue
    <3>2. ForkDue(q)' <=> ForkDue(q)
      BY <1>5, <1>6 DEF ForkDue
    <3> QED BY <2>1, <3>1, <3>2, <1>3, <1>8 DEF Going, Known
  <2>2. ASSUME NEW q \in Pid, NEW b \in Attr
        PROVE  task'[q].attr[b] = task[q].attr[b] \/ \E e \in Pending' : Settles(e, q, b)
    BY <1>2, <1>5, <1>18
  <2> QED BY <2>1, <2>2, <1>5, <1>9 DEF Lasting
<1> QED BY <1>5, <1>10, <1>12, <1>13, <1>14, <1>15, <1>17, <1>19, <1>20 DEF QueueInv

\* Whoever gets the children of p runs on, in p's process, if any of it does.
LEMMA AdopterRuns ==
  ASSUME KernelTypeOK, TaskInv, NEW age \in [Pid -> Nat], TaskAged(age),
         NEW p \in Pid, Running(p), p # InitPid, NEW a \in Adopters(p)
  PROVE  /\ a \in Pid /\ Running(a) /\ a # p
         /\ task[p].parent # p
         /\ \A b \in Pid : b # p /\ Running(b) /\ task[b].tgid = task[p].tgid =>
              task[a].tgid = task[p].tgid
         /\ \/ task[a].tgid = task[p].tgid
            \/ task[p].parent # 0 /\ task[a].tgid = Ppid(p)
            \/ a = InitPid
<1> DEFINE mates == Group(task[p].tgid) \ {p}
<1>1. /\ 0 \notin Pid /\ InitPid \in Pid
      /\ \A q \in Pid : task[q].tgid \in Pid /\ task[q].parent \in Pid \cup {0}
  BY TaskFields
<1>2. task[p].parent # p
  BY <1>1 DEF TaskAged, Older, Running
<1>3. \A b \in mates : b \in Pid /\ Running(b) /\ b # p /\ task[b].tgid = task[p].tgid
  BY DEF Group
<1>4. \A b \in Pid : b # p /\ Running(b) /\ task[b].tgid = task[p].tgid => b \in mates
  BY DEF Group
<1>5. CASE mates # {}
  <2>1. a \in mates
    BY <1>5 DEF Adopters
  <2> HIDE DEF mates
  <2> QED BY <2>1, <1>2, <1>3
<1>6. CASE mates = {} /\ Ppid(p) \in Subreaper
  <2>1. a \in Group(Ppid(p))
    BY <1>6 DEF Adopters
  <2>2. task[p].parent \in Pid /\ Ppid(p) = task[task[p].parent].tgid
    BY <1>1, <1>6, KernelConstants DEF Ppid
  <2>3. Running(task[p].parent) /\ task[p].parent # 0
    BY <1>1, <2>2 DEF TaskInv
  <2>4. a \in Pid /\ Running(a) /\ task[a].tgid = Ppid(p)
    BY <2>1 DEF Group
  <2> HIDE DEF mates
  <2>5. a # p
    <3>1. SUFFICES ASSUME a = p PROVE FALSE
      OBVIOUS
    <3>2. task[p].parent \in mates
      BY <3>1, <2>2, <2>3, <2>4, <1>2, <1>4
    <3> QED BY <3>2, <1>6
  <2> QED BY <2>3, <2>4, <2>5, <1>2, <1>4, <1>6
<1>7. CASE mates = {} /\ Ppid(p) \notin Subreaper
  <2>1. a = InitPid
    BY <1>7 DEF Adopters
  <2>2. Running(InitPid)
    BY DEF TaskInv
  <2> HIDE DEF mates
  <2> QED BY <2>1, <2>2, <1>1, <1>2, <1>4, <1>7
<1> QED BY <1>5, <1>6, <1>7

LEMMA Exited ==
  ASSUME KernelTypeOK, EventsOrdered, MaxClock <= QMax, TaskInv, QueueInv,
         NEW age \in [Pid -> Nat], TaskAged(age), NEW p \in Pid, KExit(p)
  PROVE  TaskInv' /\ QueueInv' /\ Lasting
<1> DEFINE f == [what |-> "exit", pid |-> p, arg |-> 0, ts |-> clock + 1]
<1>1. /\ task \in [Pid -> Task] /\ 0 \notin Pid /\ InitPid \in Pid
      /\ \A q \in Pid : /\ task[q].tgid \in Pid /\ task[q].parent \in Pid \cup {0}
                        /\ task[q] \in Task
  BY TaskFields
<1>2. Running(p) /\ p # InitPid /\ Emit("exit", p, 0)
  BY DEF KExit
<1>3. PICK a \in Adopters(p) :
       task' = [c \in Pid |->
         IF c = p
         THEN IF task[p].tgid = p THEN [task[p] EXCEPT !.st = "zombie"]
                                  ELSE [task[p] EXCEPT !.st = "gone", !.parent = 0]
         ELSE IF task[c].parent = p THEN [task[c] EXCEPT !.parent = a] ELSE task[c]]
  BY DEF KExit
<1>4. /\ a \in Pid /\ Running(a) /\ a # p /\ task[p].parent # p
      /\ \A b \in Pid : b # p /\ Running(b) /\ task[b].tgid = task[p].tgid =>
           task[a].tgid = task[p].tgid
      /\ \/ task[a].tgid = task[p].tgid
         \/ task[p].parent # 0 /\ task[a].tgid = Ppid(p)
         \/ a = InitPid
  BY <1>2, AdopterRuns
<1>5. /\ task'[p].tgid = task[p].tgid /\ task'[p].attr = task[p].attr
      /\ task[p].tgid = p => task'[p].st = "zombie" /\ task'[p].parent = task[p].parent
      /\ task[p].tgid # p => task'[p].st = "gone" /\ task'[p].parent = 0
  BY <1>1, <1>3 DEF Task
<1>6. ASSUME NEW q \in Pid, q # p
      PROVE  /\ task'[q].tgid = task[q].tgid /\ task'[q].attr = task[q].attr
             /\ task'[q].st = task[q].st
             /\ task'[q].parent = IF task[q].parent = p THEN a ELSE task[q].parent
  BY <1>1, <1>3, <1>6 DEF Task
<1>7. \A q \in Pid : task'[q].tgid = task[q].tgid /\ task'[q].attr = task[q].attr
  BY <1>5, <1>6
<1>8. \A q \in Pid : Running(q)' <=> Running(q) /\ q # p
  BY <1>5, <1>6 DEF Running
<1>9. ASSUME NEW q \in Pid
      PROVE  /\ q # p /\ task[q].parent = p => Ppid(q)' = task[a].tgid
             /\ task[q].parent # p /\ task'[q].parent # 0 => Ppid(q)' = Ppid(q) /\ task[q].parent # 0
             /\ q # p /\ task[q].parent = p => Ppid(q) = task[p].tgid
             /\ q # p /\ task[q].parent = 0 => Ppid(q)' = 0 /\ Ppid(q) = 0
  <2>1. q # p /\ task[q].parent = p => Ppid(q)' = task[a].tgid /\ Ppid(q) = task[p].tgid
    BY <1>1, <1>4, <1>6, <1>7 DEF Ppid
  <2>2. ASSUME task[q].parent # p, task'[q].parent # 0
        PROVE  Ppid(q)' = Ppid(q) /\ task[q].parent # 0
    <3>1. task'[q].parent = task[q].parent /\ task[q].parent \in Pid
      BY <2>2, <1>1, <1>5, <1>6
    <3> QED BY <3>1, <2>2, <1>7 DEF Ppid
  <2>3. q # p /\ task[q].parent = 0 => Ppid(q)' = 0 /\ Ppid(q) = 0
    BY <1>1, <1>6 DEF Ppid
  <2> QED BY <2>1, <2>2, <2>3
<1> HIDE DEF f
<1>10. TaskInv'
  <2>1. Running(InitPid)' /\ task'[InitPid].tgid = InitPid
    BY <1>1, <1>2, <1>7, <1>8 DEF TaskInv
  <2>2. ASSUME NEW q \in Pid
        PROVE  /\ task'[q].parent # 0 => Running(task[q].parent)'
               /\ task'[task'[q].tgid].tgid = task'[q].tgid
               /\ task'[q].st = "new" => task'[q].parent = 0 /\ task'[q].tgid = q
               /\ task'[q].st # "new" => task'[task'[q].tgid].st # "new"
               /\ task'[q].st = "zombie" => task'[q].tgid = q
    <3>1. task'[q].parent # 0 => Running(task[q].parent)'
      <4>1. task'[q].parent # 0 => /\ task'[q].parent \in Pid /\ task'[q].parent # p
                                   /\ Running(task'[q].parent)
        <5>1. CASE q = p
          BY <5>1, <1>1, <1>4, <1>5 DEF TaskInv
        <5>2. CASE q # p
          BY <5>2, <1>1, <1>4, <1>6 DEF TaskInv
        <5> QED BY <5>1, <5>2
      <4> QED BY <4>1, <1>8 DEF Running
    <3>2. \A r \in Pid : task'[r].st = "new" <=> task[r].st = "new"
      <4>1. task[p].st # "new" /\ task'[p].st # "new"
        BY <1>2, <1>5 DEF Running
      <4> QED BY <4>1, <1>6
    <3>3. task'[task'[q].tgid].tgid = task'[q].tgid
      BY <1>1, <1>7 DEF TaskInv
    <3>4. task'[q].st = "new" => task'[q].parent = 0 /\ task'[q].tgid = q
      BY <3>2, <1>1, <1>2, <1>6, <1>7 DEF TaskInv, Running
    <3>5. task'[q].st # "new" => task'[task'[q].tgid].st # "new"
      BY <3>2, <1>1, <1>7 DEF TaskInv
    <3>6. task'[q].st = "zombie" => task'[q].tgid = q
      <4>1. CASE q = p
        BY <4>1, <1>5
      <4>2. CASE q # p
        BY <4>2, <1>6 DEF TaskInv
      <4> QED BY <4>1, <4>2
    <3> QED BY <3>1, <3>3, <3>4, <3>5, <3>6
  <2>3. ASSUME NEW q \in Pid, Running(q)'
        PROVE  /\ task'[task'[q].tgid].parent = task'[q].parent
               /\ task'[task'[q].tgid].st \in {"run", "zombie"}
    <3>1. q # p /\ Running(q) /\ task'[q].tgid = task[q].tgid
      BY <2>3, <1>7, <1>8
    <3>2. PICK g \in Pid : g = task[q].tgid
      BY <1>1
    <3>3. task[g].parent = task[q].parent /\ task[g].st \in {"run", "zombie"} /\ task[g].tgid = g
      BY <3>1, <3>2 DEF TaskInv
    <3>4. CASE g = p
      BY <3>1, <3>2, <3>3, <3>4, <1>4, <1>5, <1>6
    <3>5. CASE g # p
      BY <3>1, <3>2, <3>3, <3>5, <1>6
    <3> QED BY <3>4, <3>5
  <2> QED BY <2>1, <2>2, <2>3 DEF TaskInv
<1>11. ASSUME NEW b \in Pid, NEW q \in Pid, Related(b, q) PROVE Related(b, q)'
  <2>1. SUFFICES ASSUME Running(q)', Running(b)' PROVE task'[b].tgid = Ppid(q)'
    BY DEF Related
  <2>2. Running(q) /\ Running(b) /\ q # p /\ b # p /\ task[b].tgid = Ppid(q)
        /\ task'[b].tgid = task[b].tgid
    BY <2>1, <1>7, <1>8, <1>11 DEF Related
  <2>3. CASE task[q].parent = p
    BY <2>2, <2>3, <1>4, <1>9
  <2>4. CASE task[q].parent # p
    BY <2>2, <2>4, <1>6, <1>9
  <2> QED BY <2>3, <2>4
<1>12. /\ clock \in Nat /\ Pending \subseteq Event
       /\ \A e \in Pending : e.ts \in Nat /\ e.ts <= clock /\ e.pid \in Pid
  BY PendingFacts
<1>13. Pending' = Pending \cup {f} /\ Len(evq') <= clock'
  BY <1>2, EmitPends DEF QueueInv, f
<1>14. f.what = "exit" /\ f.pid = p /\ f.ts = clock + 1 /\ f.ts \in Nat /\ f.what \notin Attr
  BY <1>12, KernelConstants DEF f
<1>15. \A e \in Pending' : e.ts <= f.ts /\ e.ts \in Nat
  BY <1>12, <1>13, <1>14
<1>16. \A q \in Pid : Mentions(f, q) <=> q = p
  BY <1>14 DEF Mentions
<1>17. Told'
  <2>1. ASSUME NEW e \in Pending', NEW q \in Pid, Mentions(e, q)
        PROVE  /\ task'[q].st # "new"
               /\ Running(q)' \/ \E x \in Pending' : x.what = "exit" /\ x.pid = q /\ e.ts <= x.ts
    <3>1. CASE q = p
      BY <3>1, <2>1, <1>5, <1>13, <1>14, <1>15
    <3>2. CASE q # p
      <4>1. e \in Pending
        BY <3>2, <2>1, <1>13, <1>16
      <4> QED BY <2>1, <3>2, <4>1, <1>6, <1>8, <1>13 DEF QueueInv, Told
    <3> QED BY <3>1, <3>2
  <2> QED BY <2>1 DEF Told, Mentions
<1>18. ExitIsLast'
  <2>1. ASSUME NEW x \in Pending', NEW e \in Pending', x.what = "exit", Mentions(e, x.pid)
        PROVE  ~Running(x.pid)' /\ e.ts <= x.ts
    <3>1. CASE x = f
      BY <3>1, <1>8, <1>14, <1>15
    <3>2. CASE x \in Pending
      <4>1. x.pid \in Pid /\ ~Running(x.pid)
        BY <2>1, <3>2, <1>12 DEF QueueInv, ExitIsLast, Mentions
      <4>2. e \in Pending
        BY <2>1, <4>1, <1>2, <1>13, <1>16
      <4> QED BY <2>1, <3>2, <4>1, <4>2, <1>8 DEF QueueInv, ExitIsLast
    <3> QED BY <3>1, <3>2, <1>13
  <2> QED BY <2>1 DEF ExitIsLast, Mentions
<1>19. ForkIsFirst'
  <2>1. ASSUME NEW g \in Pending', NEW e \in Pending', g.what = "fork"
        PROVE  g.pid # InitPid /\ (Mentions(e, g.pid) => g.ts <= e.ts)
    <3>1. g \in Pending
      BY <2>1, <1>13, <1>14
    <3> QED BY <2>1, <3>1, <1>13, <1>15 DEF QueueInv, ForkIsFirst
  <2> QED BY <2>1 DEF ForkIsFirst, Mentions
<1>20. ForksInOrder'
  <2>1. ASSUME NEW g \in Pending', NEW d \in Pid,
               g.what = "fork", task'[d].parent # 0, g.pid = Ppid(d)'
        PROVE  \E h \in Pending' : h.what = "fork" /\ h.pid = d /\ g.ts < h.ts
    <3>1. g \in Pending
      BY <2>1, <1>13, <1>14
    <3>2. \A h \in Pending, q \in Pid :
            h.what = "fork" /\ task[q].parent # 0 /\ h.pid = Ppid(q) =>
              \E k \in Pending : k.what = "fork" /\ k.pid = q /\ h.ts < k.ts
      BY DEF QueueInv, ForksInOrder
    <3>3. CASE task[d].parent # p
      BY <2>1, <3>1, <3>2, <3>3, <1>9, <1>13
    <3>4. CASE task[d].parent = p
      <4>1. d # p /\ Ppid(d)' = task[a].tgid /\ Ppid(d) = task[p].tgid /\ p # 0
        BY <3>4, <1>1, <1>4, <1>9
      <4>2. CASE task[a].tgid = task[p].tgid
        BY <2>1, <3>1, <3>2, <3>4, <4>1, <4>2, <1>13
      <4>3. CASE task[p].parent # 0 /\ task[a].tgid = Ppid(p)
        <5>1. PICK l \in Pid : l = task[p].tgid
          BY <1>1
        <5>2. task[l].parent = task[p].parent
          BY <5>1, <1>2 DEF TaskInv
        <5>3. Ppid(l) = Ppid(p)
          BY <5>2 DEF Ppid
        <5>4. PICK h \in Pending : h.what = "fork" /\ h.pid = l /\ g.ts < h.ts
          BY <2>1, <3>1, <3>2, <4>1, <4>3, <5>2, <5>3
        <5>5. PICK k \in Pending : k.what = "fork" /\ k.pid = d /\ h.ts < k.ts
          BY <3>2, <3>4, <4>1, <5>1, <5>4
        <5>6. g.ts < k.ts
          BY <3>1, <5>4, <5>5, <1>12
        <5> QED BY <5>5, <5>6, <1>13
      <4>4. CASE a = InitPid
        BY <2>1, <3>1, <4>1, <4>4 DEF QueueInv, ForkIsFirst, TaskInv
      <4> QED BY <4>2, <4>3, <4>4, <1>4
    <3> QED BY <3>3, <3>4
  <2> QED BY <2>1 DEF ForksInOrder
<1>21. ForkNamesParent'
  <2>1. ASSUME NEW g \in Pending', g.what = "fork", g.arg # 0
        PROVE  g.arg # g.pid /\ Related(g.arg, g.pid)'
    <3>1. g \in Pending
      BY <2>1, <1>13, <1>14
    <3>2. g.arg \in Pid /\ g.pid \in Pid
      BY <2>1, <3>1, <1>12, EventFields
    <3> QED BY <2>1, <3>1, <3>2, <1>11 DEF QueueInv, ForkNamesParent
  <2> QED BY <2>1 DEF ForkNamesParent, Related, Running, Ppid
<1>22. AttrsTold'
  <2>1. ASSUME NEW e \in Pending', e.what \in Attr
        PROVE  \/ e.arg = task'[e.pid].attr[e.what]
               \/ \E x \in Pending' : Settles(x, e.pid, e.what) /\ e.ts < x.ts
    <3>1. e \in Pending /\ task'[e.pid].attr = task[e.pid].attr
      BY <2>1, <1>7, <1>12, <1>13, <1>14
    <3> QED BY <2>1, <3>1, <1>13 DEF QueueInv, AttrsTold
  <2> QED BY <2>1 DEF AttrsTold, Settles
<1>23. Lasting
  <2>1. ASSUME NEW q \in Pid, task[q].st # "new"
        PROVE  /\ task'[q].st # "new" /\ task'[q].tgid = task[q].tgid
               /\ Going(q)' <=> Going(q)
               /\ Known(q) => Known(q)'
    <3>1. ExitDue(q)' <=> ExitDue(q) \/ q = p
      BY <1>13, <1>14 DEF ExitDue
    <3>2. ForkDue(q)' <=> ForkDue(q)
      BY <1>13, <1>14 DEF ForkDue
    <3>3. task'[q].st # "new"
      BY <2>1, <1>5, <1>6
    <3>4. Going(q)' <=> Going(q)
      BY <3>1, <1>2, <1>8 DEF Going
    <3> QED BY <3>2, <3>3, <3>4, <1>7 DEF Known
  <2> QED BY <2>1, <1>7, <1>11, <1>13 DEF Lasting
<1> QED BY <1>10, <1>13, <1>17, <1>18, <1>19, <1>20, <1>21, <1>22, <1>23 DEF QueueInv

\* Nobody is left of a process that is reaped: nobody's parent, nobody's leader.
LEMMA Reaped ==
  ASSUME KernelTypeOK, TaskInv, QueueInv, NEW p \in Pid, KReap(p)
  PROVE  TaskInv' /\ QueueInv' /\ Lasting
<1>1. /\ task \in [Pid -> Task] /\ 0 \notin Pid /\ InitPid \in Pid
      /\ \A q \in Pid : /\ task[q].tgid \in Pid /\ task[q].parent \in Pid \cup {0}
                        /\ task[q] \in Task
  BY TaskFields
<1>2. /\ task[p].st = "zombie" /\ Group(p) = {} /\ UNCHANGED <<clock, evq>>
      /\ task' = [task EXCEPT ![p] = [task[p] EXCEPT !.st = "gone", !.parent = 0]]
  BY DEF KReap
<1>3. /\ task'[p].st = "gone" /\ task'[p].parent = 0 /\ task'[p].tgid = task[p].tgid
      /\ task'[p].attr = task[p].attr
  BY <1>1, <1>2 DEF Task
<1>4. \A q \in Pid : q # p => task'[q] = task[q]
  BY <1>1, <1>2
<1>5. \A q \in Pid : /\ task'[q].tgid = task[q].tgid /\ task'[q].attr = task[q].attr
                     /\ task'[q].st # "new" <=> task[q].st # "new"
  BY <1>2, <1>3, <1>4
<1>6. /\ \A q \in Pid : Running(q)' <=> Running(q)
      /\ ~Running(p)
  BY <1>2, <1>3, <1>4 DEF Running
<1>7. \A q \in Pid : task[q].parent # p /\ (Running(q) => task[q].tgid # p)
  BY <1>1, <1>2, <1>6 DEF TaskInv, Group
<1>8. \A q \in Pid : q # p => Ppid(q)' = Ppid(q)
  BY <1>1, <1>4, <1>5, <1>7 DEF Ppid
<1>9. TaskInv'
  <2>1. Running(InitPid)' /\ task'[InitPid].tgid = InitPid
    BY <1>1, <1>5, <1>6 DEF TaskInv
  <2>2. ASSUME NEW q \in Pid
        PROVE  /\ task'[q].parent # 0 => Running(task[q].parent)'
               /\ task'[task'[q].tgid].tgid = task'[q].tgid
               /\ task'[q].st = "new" => task'[q].parent = 0 /\ task'[q].tgid = q
               /\ task'[q].st # "new" => task'[task'[q].tgid].st # "new"
               /\ task'[q].st = "zombie" => task'[q].tgid = q
    <3>1. task'[q].parent # 0 => Running(task[q].parent)'
      <4>1. CASE q = p
        BY <4>1, <1>3
      <4>2. CASE q # p
        <5>1. task'[q].parent = task[q].parent
          BY <4>2, <1>4
        <5>2. task[q].parent # 0 => task[q].parent \in Pid /\ Running(task[q].parent)
          BY <1>1 DEF TaskInv
        <5> QED BY <5>1, <5>2, <1>6 DEF Running
      <4> QED BY <4>1, <4>2
    <3>2. task'[task'[q].tgid].tgid = task'[q].tgid
      BY <1>1, <1>5 DEF TaskInv
    <3>3. task'[q].st = "new" => task'[q].parent = 0 /\ task'[q].tgid = q
      BY <1>2, <1>3, <1>4 DEF TaskInv
    <3>4. task'[q].st # "new" => task'[task'[q].tgid].st # "new"
      BY <1>1, <1>5 DEF TaskInv
    <3>5. task'[q].st = "zombie" => task'[q].tgid = q
      BY <1>3, <1>4 DEF TaskInv
    <3> QED BY <3>1, <3>2, <3>3, <3>4, <3>5
  <2>3. ASSUME NEW q \in Pid, Running(q)'
        PROVE  /\ task'[task'[q].tgid].parent = task'[q].parent
               /\ task'[task'[q].tgid].st \in {"run", "zombie"}
    <3>1. Running(q) /\ q # p /\ task[q].tgid # p /\ task[q].tgid \in Pid
      BY <2>3, <1>1, <1>6, <1>7
    <3>2. task'[q] = task[q] /\ task'[task[q].tgid] = task[task[q].tgid]
      BY <3>1, <1>4
    <3> QED BY <3>1, <3>2 DEF TaskInv
  <2> QED BY <2>1, <2>2, <2>3 DEF TaskInv
<1>10. \A b, q \in Pid : Related(b, q) => Related(b, q)'
  BY <1>5, <1>6, <1>8 DEF Related
<1>11. Pending' = Pending
  BY <1>2 DEF Pending
<1>12. \A e \in Pending : e.pid \in Pid /\ (e.what = "fork" => e.arg \in Pid \cup {0})
  <2>1. \A i \in 1..Len(evq) : evq[i] \in Event
    BY ElementOfSeq DEF KernelTypeOK
  <2> QED BY <2>1, EventFields DEF Pending
<1>13. Told'
  BY <1>5, <1>6, <1>11 DEF QueueInv, Told, Mentions
<1>14. ExitIsLast'
  BY <1>6, <1>11, <1>12 DEF QueueInv, ExitIsLast, Mentions
<1>15. ForkIsFirst'
  BY <1>11 DEF QueueInv, ForkIsFirst, Mentions
<1>16. ForksInOrder'
  BY <1>3, <1>4, <1>8, <1>11 DEF QueueInv, ForksInOrder
<1>17. ForkNamesParent'
  <2>1. ASSUME NEW g \in Pending, g.what = "fork", g.arg # 0
        PROVE  g.arg # g.pid /\ Related(g.arg, g.pid)'
    BY <2>1, <1>10, <1>12 DEF QueueInv, ForkNamesParent
  <2> QED BY <2>1, <1>11 DEF ForkNamesParent, Related, Running, Ppid
<1>18. AttrsTold'
  BY <1>5, <1>11, <1>12 DEF QueueInv, AttrsTold, Settles
<1>19. Lasting
  <2>1. \A q : (ExitDue(q)' <=> ExitDue(q)) /\ (ForkDue(q)' <=> ForkDue(q))
    BY <1>11 DEF ExitDue, ForkDue
  <2>2. \A q \in Pid : /\ Going(q)' <=> Going(q)
                       /\ Known(q) => Known(q)'
    BY <2>1, <1>5, <1>6 DEF Going, Known
  <2> QED BY <2>2, <1>5, <1>10, <1>11 DEF Lasting
<1> QED BY <1>2, <1>9, <1>13, <1>14, <1>15, <1>16, <1>17, <1>18, <1>19 DEF QueueInv

\* At first the queue is empty and nobody is left to tell of.
LEMMA KernelAgreesAtFirst == KernelInit => TaskInv /\ QueueInv
<1> SUFFICES ASSUME KernelInit PROVE TaskInv /\ QueueInv
  OBVIOUS
<1>1. clock = 0 /\ evq = <<>> /\ Pending = {}
  BY DEF KernelInit, Pending
<1>2. ASSUME NEW p \in Pid
      PROVE  /\ task[p].tgid = p
             /\ p \in Boot => task[p].st = "run"
             /\ p \notin Boot => task[p].st = "new"
             /\ p \in Boot \ {InitPid} => task[p].parent = InitPid
             /\ p \notin Boot \ {InitPid} => task[p].parent = 0
  BY DEF KernelInit
<1>3. InitPid \in Pid /\ InitPid \in Boot
  BY KernelConstants
<1>4. TaskInv
  BY <1>2, <1>3 DEF TaskInv, Running
<1>5. QueueInv
  BY <1>1 DEF QueueInv, Told, ExitIsLast, ForkIsFirst, ForksInOrder, ForkNamesParent, AttrsTold
<1> QED BY <1>4, <1>5

(* The processes and the events in the queue together: when no event is lost *)
(* and no pid is used again, the queue tells of every difference there is    *)
(* between what was told and what is, in an order that a fork comes before   *)
(* and an exit after everything else there is to tell of a process.          *)
THEOREM KernelAgrees ==
  ASSUME ~Recycle, MaxClock <= QMax, KernelTypeOK, KernelTypeOK', EventsOrdered, TaskInv, QueueInv,
         NEW age \in [Pid -> Nat], TaskAged(age), KernelNext
  PROVE  TaskInv' /\ QueueInv' /\ Lasting
<1>1. /\ task \in [Pid -> Task]
      /\ \A p \in Pid : /\ task[p] \in Task /\ task[p].tgid \in Pid
                        /\ task[p].parent \in Pid \cup {0}
  BY TaskFields
<1>2. ASSUME NEW p \in Pid, NEW c \in Pid, KFork(p, c)
      PROVE  TaskInv' /\ QueueInv' /\ Lasting
  <2> DEFINE t == [st |-> "run", tgid |-> c, parent |-> p,
                   creator |-> task[p].tgid, attr |-> task[p].attr]
  <2>1. /\ task[c].st = "new" /\ task' = [task EXCEPT ![c] = t] /\ Emit("fork", c, t.parent)
        /\ Running(t.parent)
    BY <1>2 DEF KFork, Unused
  <2>2. t \in Task /\ t.st = "run" /\ t.tgid = c
    BY <1>1 DEF Task
  <2> HIDE DEF t
  <2> QED BY <2>1, <2>2, Spawned
<1>3. ASSUME NEW p \in Pid, NEW c \in Pid, KClone(p, c)
      PROVE  TaskInv' /\ QueueInv' /\ Lasting
  <2> DEFINE t == [task[p] EXCEPT !.creator = task[p].tgid]
  <2>1. /\ task[c].st = "new" /\ task' = [task EXCEPT ![c] = t] /\ Running(p)
        /\ Emit("fork", c, task[p].parent)
    BY <1>3 DEF KClone, Unused
  <2>2. t \in Task /\ t.st = "run" /\ t.tgid = task[p].tgid /\ t.parent = task[p].parent
    BY <2>1, <1>1 DEF Task, Running
  <2>3. task[p].parent # 0 => Running(task[p].parent)
    BY DEF TaskInv
  <2> HIDE DEF t
  <2> QED BY <2>1, <2>2, <2>3, Spawned
<1>4. ASSUME NEW p \in Pid, KExec(p)
      PROVE  TaskInv' /\ QueueInv' /\ Lasting
  <2>1. /\ Running(p) /\ Emit("exec", p, 0)
        /\ \E v \in Val : task' = [task EXCEPT ![p].attr["comm"] = v]
    BY <1>4 DEF KExec
  <2>2. PICK v \in Val : task' = [task EXCEPT ![p].attr["comm"] = v]
    BY <2>1
  <2> DEFINE t == [task[p] EXCEPT !.attr["comm"] = v]
  <2>3. task' = [task EXCEPT ![p] = t] /\ t \in Task /\ "comm" \in Attr
    BY <2>2, <1>1, TaskUpdates, KernelConstants
  <2>4. /\ t.st = task[p].st /\ t.tgid = task[p].tgid /\ t.parent = task[p].parent
        /\ \A b \in Attr : b # "comm" => t.attr[b] = task[p].attr[b]
    BY <1>1 DEF Task
  <2> HIDE DEF t
  <2> QED BY <2>1, <2>3, <2>4, Changed
<1>5. ASSUME NEW p \in Pid, NEW a \in Attr, KAttr(p, a)
      PROVE  TaskInv' /\ QueueInv' /\ Lasting
  <2>1. PICK v \in Val : task' = [task EXCEPT ![p].attr[a] = v] /\ Emit(a, p, v)
    BY <1>5 DEF KAttr
  <2> DEFINE t == [task[p] EXCEPT !.attr[a] = v]
  <2>2. task' = [task EXCEPT ![p] = t] /\ t \in Task /\ Running(p)
    BY <2>1, <1>1, <1>5, TaskUpdates DEF KAttr
  <2>3. /\ t.st = task[p].st /\ t.tgid = task[p].tgid /\ t.parent = task[p].parent
        /\ t.attr[a] = v /\ \A b \in Attr : b # a => t.attr[b] = task[p].attr[b]
    BY <1>1 DEF Task
  <2> HIDE DEF t
  <2> QED BY <2>1, <2>2, <2>3, Changed
<1>6. ASSUME NEW p \in Pid, KExit(p)
      PROVE  TaskInv' /\ QueueInv' /\ Lasting
  BY <1>6, Exited
<1>7. ASSUME NEW p \in Pid, KReap(p)
      PROVE  TaskInv' /\ QueueInv' /\ Lasting
  BY <1>7, Reaped
<1> QED BY <1>2, <1>3, <1>4, <1>5, <1>6, <1>7 DEF KernelNext

\* The oldest event leaves the queue, and what the others tell stays true.
LEMMA Popped ==
  ASSUME KernelTypeOK, EventsOrdered, TaskInv, QueueInv,
         evq # <<>>, evq' = Tail(evq), UNCHANGED <<task, clock>>
  PROVE  /\ Head(evq) \in Pending /\ Pending' = Pending \ {Head(evq)}
         /\ \A x \in Pending' : Head(evq).ts < x.ts
         /\ TaskInv' /\ QueueInv'
<1> DEFINE e == Head(evq)
<1>1. /\ evq \in Seq(Event) /\ Len(evq) \in Nat /\ Len(evq) # 0 /\ clock \in Nat
  BY EmptySeq, LenProperties, KernelConstants DEF KernelTypeOK
<1>2. /\ Len(evq') = Len(evq) - 1 /\ \A i \in 1..Len(evq') : evq'[i] = evq[i+1]
      /\ e = evq[1] /\ 1 \in 1..Len(evq)
  BY <1>1, HeadTailProperties
<1>3. \A i \in 1..Len(evq') : i + 1 \in 1..Len(evq) /\ 1 < i + 1
  BY <1>1, <1>2
<1>4. \A i \in 1..Len(evq) : i = 1 \/ (i - 1 \in 1..Len(evq') /\ evq'[i - 1] = evq[i])
  BY <1>1, <1>2
<1> HIDE DEF e
<1>5. e \in Pending
  BY <1>2 DEF Pending
<1>6. \A x \in Pending' : x \in Pending /\ e.ts < x.ts
  <2>1. ASSUME NEW i \in 1..Len(evq') PROVE evq'[i] \in Pending /\ e.ts < evq'[i].ts
    BY <1>2, <1>3 DEF Pending, EventsOrdered
  <2> QED BY <2>1 DEF Pending
<1>7. /\ \A x \in Pending : e.ts <= x.ts /\ x.ts \in Nat /\ e.ts \in Nat
      /\ Pending' = Pending \ {e}
  <2>1. \A x \in Pending : x.ts \in Nat
    BY PendingFacts
  <2>2. \A x \in Pending : x = e \/ x \in Pending'
    BY <1>2, <1>4 DEF Pending
  <2>3. e \notin Pending'
    BY <1>5, <1>6, <2>1
  <2>4. Pending' = Pending \ {e}
    BY <1>6, <2>2, <2>3
  <2>5. \A x \in Pending : e.ts <= x.ts
    BY <1>5, <1>6, <2>1, <2>2
  <2> QED BY <1>5, <2>1, <2>4, <2>5
<1>8. Len(evq') <= clock'
  BY <1>1, <1>2 DEF QueueInv
<1>9. Told'
  <2>1. ASSUME NEW y \in Pending', NEW p \in Pid, Mentions(y, p)
        PROVE  /\ task[p].st # "new"
               /\ Running(p) \/ \E x \in Pending' : x.what = "exit" /\ x.pid = p /\ y.ts <= x.ts
    <3>1. y \in Pending /\ e.ts < y.ts
      BY <2>1, <1>6
    <3>2. SUFFICES ASSUME ~Running(p)
                   PROVE  \E x \in Pending' : x.what = "exit" /\ x.pid = p /\ y.ts <= x.ts
      BY <2>1, <3>1 DEF QueueInv, Told
    <3>3. PICK x \in Pending : x.what = "exit" /\ x.pid = p /\ y.ts <= x.ts
      BY <2>1, <3>1, <3>2 DEF QueueInv, Told
    <3>4. x # e
      BY <3>1, <3>3, <1>7
    <3> QED BY <3>3, <3>4, <1>7
  <2> QED BY <2>1 DEF Told, Mentions, Running
<1>10. ExitIsLast'
  BY <1>6 DEF QueueInv, ExitIsLast, Mentions, Running
<1>11. ForkIsFirst'
  BY <1>6 DEF QueueInv, ForkIsFirst, Mentions
<1>12. ForksInOrder'
  <2>1. ASSUME NEW f \in Pending', NEW c \in Pid,
               f.what = "fork", task[c].parent # 0, f.pid = Ppid(c)
        PROVE  \E g \in Pending' : g.what = "fork" /\ g.pid = c /\ f.ts < g.ts
    <3>1. PICK g \in Pending : g.what = "fork" /\ g.pid = c /\ f.ts < g.ts
      BY <2>1, <1>6 DEF QueueInv, ForksInOrder
    <3>2. g # e
      BY <2>1, <3>1, <1>6, <1>7
    <3> QED BY <3>1, <3>2, <1>7
  <2> QED BY <2>1 DEF ForksInOrder, Ppid
<1>13. ForkNamesParent'
  BY <1>6 DEF QueueInv, ForkNamesParent, Related, Running, Ppid
<1>14. AttrsTold'
  <2>1. ASSUME NEW y \in Pending', y.what \in Attr
        PROVE  \/ y.arg = task[y.pid].attr[y.what]
               \/ \E x \in Pending' : Settles(x, y.pid, y.what) /\ y.ts < x.ts
    <3>1. SUFFICES ASSUME ~(y.arg = task[y.pid].attr[y.what])
                   PROVE  \E x \in Pending' : Settles(x, y.pid, y.what) /\ y.ts < x.ts
      OBVIOUS
    <3>2. PICK x \in Pending : Settles(x, y.pid, y.what) /\ y.ts < x.ts
      BY <2>1, <3>1, <1>6 DEF QueueInv, AttrsTold
    <3>3. x # e
      BY <2>1, <3>2, <1>6, <1>7
    <3> QED BY <3>2, <3>3, <1>7
  <2> QED BY <2>1 DEF AttrsTold, Settles
<1>15. TaskInv'
  BY DEF TaskInv, Running
<1> QED BY <1>5, <1>6, <1>7, <1>8, <1>9, <1>10, <1>11, <1>12, <1>13, <1>14, <1>15 DEF QueueInv, e
===============================================================================

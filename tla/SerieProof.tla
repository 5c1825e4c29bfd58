------------------------------- MODULE SerieProof -------------------------------
(***************************************************************************)
(* What the tracker keeps whatever the kernel does, whatever events are    *)
(* lost and wherever memory runs out, for all values of the constants.     *)
(***************************************************************************)
EXTENDS Serie, ProcProof, KernelProof

\* A record is allocated while a node or the handler owns it, and never both do.
Owners ==
  \A r \in Rec : /\ heap[r] # Free <=> InTable(r) \/ Loading(r)
                 /\ ~(InTable(r) /\ Loading(r))

Reading == fr.pc \in {"stat", "status", "fd", "link"}

\* What the handler's locals hold where it stands
FrameOK ==
  /\ fr.pc = "recv" => fr = Idle
  /\ fr.pc = "load" => fr.tgt = NULL /\ fr.pare \in Rec /\ fr.pid \in Pid
  /\ fr.pc = "loop" => fr.tgt = NULL /\ fr.dead \in Rec
  /\ fr.pc = "repare" => fr.ret = "orphan"
  /\ Reading => fr.tgt \in Rec /\ heap[fr.tgt] # Free /\ fr.ret # ""
  /\ fr.pc = "link" => fr.ret \in {"pare", "chil", "reaper"}
  /\ fr.ret = "chil" => fr.pare \in Rec /\ fr.pid \in Pid /\ heap[fr.tgt].pid = fr.pid
  /\ fr.ret = "pare" => fr.pid \in Pid
  /\ fr.ret = "exec" => InTable(fr.tgt)
  /\ fr.ret = "orphan" => fr.tgt = fr.chil
  /\ fr.ret \in {"orphan", "reaper"} =>
       fr.chil \in Rec /\ fr.dead \in Rec /\ pare[fr.chil] = NULL /\ ~Dead(fr.chil)
  /\ \A r \in Rec : Loading(r) => heap[r].death_time = 0

\* The inductive invariant
IInv ==
  /\ TypeOK /\ EventsOrdered
  /\ Consistent
  /\ NodesOwnRecords /\ Owners
  /\ NoDangling
  /\ DeadIsRoot
  /\ FrameOK

LEMMA OwnersOwnership == TypeOK /\ Owners /\ NodesOwnRecords => Ownership
  BY DEF Ownership, Owners, Allocated

LEMMA TypeParts == TypeOK <=> /\ heap \in [Rec -> Proc \cup {Free}]
                              /\ BucketsTypeOK /\ ForestTypeOK
                              /\ fr \in Frame /\ KernelTypeOK
  BY DEF TypeOK, BucketsTypeOK, ForestTypeOK, Ptr

\* The fields of a record and of the frame
LEMMA ProcFields ==
  ASSUME NEW x \in Proc
  PROVE  /\ x.pid \in Pid \cup {0} /\ x.ppid \in Pid \cup {0}
         /\ x.birth_time \in 0..MaxClock /\ x.death_time \in 0..MaxClock
         /\ x.pid \in Nat /\ x.ppid \in Nat
         /\ x # Free
<1>1. Pid \cup {0} \subseteq Nat
  BY KernelConstants
<1> QED BY <1>1, FreeIsNoProc DEF Proc

LEMMA FrameFields ==
  ASSUME NEW f \in Frame
  PROVE  /\ f.pc \in {"recv", "stat", "status", "fd", "load", "link", "loop", "repare"}
         /\ f.ret \in {"", "pare", "chil", "exec", "orphan", "reaper"}
         /\ f.tgt \in Ptr /\ f.pare \in Ptr /\ f.chil \in Ptr /\ f.dead \in Ptr
         /\ f.pid \in Pid \cup {0} /\ f.ts \in 0..MaxClock
  BY DEF Frame

LEMMA IdleFields ==
  /\ Idle.pc = "recv" /\ Idle.ret = "" /\ Idle.tgt = NULL /\ Idle.pare = NULL
  /\ Idle.chil = NULL /\ Idle.dead = NULL /\ Idle.pid = 0 /\ Idle.ts = 0
  BY DEF Idle

LEMMA IdleFrame == Idle \in Frame
  BY KernelConstants DEF Idle, Frame, Ptr

\* Every assignment to the frame in Serie is one of these.
LEMMA FrameUpdates ==
  ASSUME NEW f \in Frame, NEW t \in Ptr, NEW c \in Ptr,
         NEW s \in {"", "pare", "chil", "exec", "orphan", "reaper"},
         NEW pc \in {"recv", "stat", "status", "fd", "load", "link", "loop", "repare"}
  PROVE  /\ [f EXCEPT !.pc = pc] \in Frame
         /\ [f EXCEPT !.pc = pc, !.tgt = t, !.ret = s] \in Frame
         /\ [f EXCEPT !.pc = pc, !.tgt = t, !.chil = c, !.ret = s] \in Frame
         /\ [f EXCEPT !.pc = pc, !.pare = t, !.tgt = c] \in Frame
         /\ [f EXCEPT !.pc = pc, !.pare = t] \in Frame
         /\ [f EXCEPT !.pc = pc, !.dead = t] \in Frame
<1>1. [f EXCEPT !.pc = pc] \in Frame
  BY DEF Frame
<1>2. [f EXCEPT !.pc = pc, !.tgt = t, !.ret = s] \in Frame
  BY DEF Frame
<1>3. [f EXCEPT !.pc = pc, !.tgt = t, !.chil = c, !.ret = s] \in Frame
  BY DEF Frame
<1>4. [f EXCEPT !.pc = pc, !.pare = t, !.tgt = c] \in Frame
  BY DEF Frame
<1>5. [f EXCEPT !.pc = pc, !.pare = t] \in Frame
  BY DEF Frame
<1>6. [f EXCEPT !.pc = pc, !.dead = t] \in Frame
  BY DEF Frame
<1> QED BY <1>1, <1>2, <1>3, <1>4, <1>5, <1>6

LEMMA ForkFrame ==
  ASSUME NEW pid \in Pid, NEW ts \in 0..MaxClock
  PROVE  [Idle EXCEPT !.pid = pid, !.ts = ts] \in Frame
  BY IdleFrame DEF Frame

LEMMA BlankRecord == \A pid \in Pid \cup {0} : Blank(pid) \in Proc
  BY KernelConstants DEF Blank, Proc

LEMMA InitHolds == Init => IInv
<1> SUFFICES ASSUME Init PROVE IInv
  OBVIOUS
<1> USE DEF Init
<1>1. KernelTypeOK /\ EventsOrdered
  BY KernelInitTypes
<1>2. heap = [r \in Rec |-> Free] /\ buckets = [h \in Bucket |-> <<>>] /\ fr = Idle
  BY DEF TableInit, proc_tabl_init
<1>3. kids = [p \in Rec |-> <<>>] /\ pare = [c \in Rec |-> NULL]
  BY DEF ForestInit
<1>4. TypeOK
  BY <1>1, <1>2, <1>3, IdleFrame DEF TypeOK, Ptr
<1>5. \A r : ~InTable(r)
  <2>1. \A h \in Bucket : DOMAIN buckets[h] = {}
    BY <1>2
  <2> QED BY <2>1 DEF InTable, InBucket
<1>6. NodesOwnRecords
  BY <1>2 DEF NodesOwnRecords
<1>7. Consistent
  BY <1>3, NullNotRec DEF Consistent, IsKid
<1>8. /\ fr.pc = "recv" /\ fr.ret = "" /\ fr.tgt = NULL
      /\ fr.pare = NULL /\ fr.chil = NULL /\ fr.dead = NULL
  BY <1>2, IdleFields
<1>9. Owners /\ NoDangling /\ DeadIsRoot
  <2>1. ASSUME NEW r \in Rec PROVE heap[r] = Free /\ ~InTable(r) /\ ~Loading(r)
    BY <1>2, <1>5, <1>8 DEF Loading
  <2>2. NoDangling
    BY <1>3, <1>8 DEF NoDangling
  <2>3. DeadIsRoot
    BY <1>3 DEF DeadIsRoot
  <2> QED BY <2>1, <2>2, <2>3 DEF Owners
<1>10. FrameOK
  BY <1>2, <1>8, NullNotRec DEF FrameOK, Reading, Loading
<1> QED BY <1>1, <1>4, <1>6, <1>7, <1>9, <1>10 DEF IInv

-------------------------------------------------------------------------------
\* The parts of the invariant in the next state
LEMMA Assemble ==
  ASSUME heap' \in [Rec -> Proc \cup {Free}], BucketsTypeOK', ForestTypeOK',
         fr' \in Frame, KernelTypeOK', EventsOrdered', Consistent',
         NodesOwnRecords', Owners', NoDangling', DeadIsRoot', FrameOK'
  PROVE  IInv'
  BY DEF IInv, TypeOK, BucketsTypeOK, ForestTypeOK, Ptr

\* A step of the kernel leaves the tracker alone.
LEMMA KernelStep ==
  ASSUME IInv, KernelNext, UNCHANGED tracker
  PROVE  IInv'
<1>1. KernelTypeOK' /\ EventsOrdered'
  BY KernelKeepsTypes, TypeParts DEF IInv
<1>2. UNCHANGED <<heap, buckets, kids, pare, fr>>
  BY DEF tracker
<1>3. /\ TypeOK' /\ Consistent' /\ NodesOwnRecords' /\ Owners' /\ NoDangling'
      /\ DeadIsRoot' /\ FrameOK'
  <2>1. TypeOK'
    BY <1>1, <1>2 DEF IInv, TypeOK
  <2>2. Consistent' /\ NodesOwnRecords'
    BY <1>2 DEF IInv, Consistent, IsKid, NodesOwnRecords, proc_hash
  <2>3. Owners' /\ NoDangling' /\ DeadIsRoot'
    BY <1>2 DEF IInv, Owners, NoDangling, DeadIsRoot, Dead, InTable, InBucket, Loading
  <2>4. FrameOK'
    BY <1>2 DEF IInv, FrameOK, Reading, Dead, InTable, InBucket, Loading
  <2> QED BY <2>1, <2>2, <2>3, <2>4
<1> QED BY <1>1, <1>3 DEF IInv

\* Receiving the oldest event keeps the queue in order.
LEMMA Received ==
  ASSUME KernelTypeOK, EventsOrdered, evq # <<>>, evq' = Tail(evq), UNCHANGED <<task, clock>>
  PROVE  /\ Head(evq) \in Event /\ KernelTypeOK' /\ EventsOrdered'
         /\ Len(evq') = Len(evq) - 1
         /\ \A i \in 1..Len(evq') : i+1 \in 1..Len(evq) /\ evq'[i] = evq[i+1]
<1>1. evq \in Seq(Event) /\ Len(evq) \in Nat /\ Len(evq) # 0
  BY LenProperties, EmptySeq DEF KernelTypeOK
<1>2. /\ evq' \in Seq(Event) /\ Len(evq') = Len(evq) - 1
      /\ \A i \in 1..Len(evq') : evq'[i] = evq[i+1]
  BY <1>1, HeadTailProperties
<1>3. Head(evq) \in Event
  BY <1>1, HeadTailProperties
<1>4. \A i \in 1..Len(evq') : i+1 \in 1..Len(evq)
  BY <1>1, <1>2
<1>5. KernelTypeOK'
  BY <1>2 DEF KernelTypeOK
<1>6. EventsOrdered'
  BY <1>1, <1>2, <1>4 DEF EventsOrdered
<1> QED BY <1>2, <1>3, <1>4, <1>5, <1>6

\* What a lookup answers, as the handlers use it
LEMMA Looking ==
  ASSUME IInv, NEW pid \in Pid \cup {0}
  PROVE  proc_look(pid) = NULL \/ (proc_look(pid) \in Rec /\ InTable(proc_look(pid)))
<1>1. pid \in Nat
  BY KernelConstants
<1> QED BY <1>1, LookupAnswers, TypeParts DEF IInv

\* A step that frees no record of the table, changes no pid and no death in it, and
\* leaves the tree alone
LEMMA HeapStep ==
  ASSUME IInv, KernelTypeOK', EventsOrdered', UNCHANGED <<buckets, kids, pare>>,
         heap' \in [Rec -> Proc \cup {Free}],
         \A r \in Rec : InTable(r) => /\ heap'[r] # Free /\ heap'[r].pid = heap[r].pid
                                      /\ heap'[r].death_time = heap[r].death_time,
         fr' \in Frame,
         \A r \in {fr'.pare, fr'.chil, fr'.dead} \ {NULL} : InTable(r),
         \A r \in Rec : heap'[r] # Free <=> InTable(r) \/ Loading(r)',
         \A r \in Rec : ~(InTable(r) /\ Loading(r)'),
         (\A r \in Rec : InTable(r)' <=> InTable(r)) => FrameOK'
  PROVE  IInv'
<1>1. BucketsTypeOK' /\ NodesOwnRecords' /\ \A r \in Rec : InTable(r)' <=> InTable(r)
  BY HeapStepKeepsNodes, TypeParts DEF IInv
<1>2. ForestTypeOK' /\ Consistent'
  BY TypeParts DEF IInv, ForestTypeOK, Consistent, IsKid
<1>3. Owners'
  BY <1>1 DEF Owners
<1>4. ForestTypeOK /\ DeadIsRoot
  BY TypeParts DEF IInv
<1>5. NoDangling'
  <2>1. ASSUME NEW r \in Rec, pare'[r] # NULL
        PROVE  InTable(r)' /\ InTable(pare[r])'
    <3>1. pare[r] \in Rec /\ InTable(r) /\ InTable(pare[r])
      BY <2>1, <1>4 DEF IInv, NoDangling, ForestTypeOK
    <3>2. pare'[r] = pare[r]
      OBVIOUS
    <3> QED BY <3>1, <3>2, <1>1
  <2>2. \A r \in {fr'.pare, fr'.chil, fr'.dead} \ {NULL} : InTable(r)'
    BY <1>1, FrameFields DEF Ptr
  <2> QED BY <2>1, <2>2 DEF NoDangling
<1>6. DeadIsRoot'
  <2>1. ASSUME NEW r \in Rec, Dead(r)' PROVE pare'[r] = NULL
    <3>1. CASE InTable(r)
      <4>1. Dead(r)
        BY <2>1, <3>1 DEF Dead, IInv, Owners
      <4> QED BY <4>1, <1>4 DEF DeadIsRoot
    <3>2. CASE ~InTable(r)
      BY <3>2 DEF IInv, NoDangling
    <3> QED BY <3>1, <3>2
  <2> QED BY <2>1 DEF DeadIsRoot
<1> QED BY <1>1, <1>2, <1>3, <1>5, <1>6, Assemble

\* The handler gives up: the record it was loading is freed, if any.
LEMMA StopStep ==
  ASSUME IInv, KernelTypeOK', EventsOrdered', UNCHANGED <<buckets, kids, pare>>, fr' = Idle,
         heap' = [r \in Rec |-> IF Loading(r) THEN Free ELSE heap[r]]
  PROVE  IInv'
<1>1. heap \in [Rec -> Proc \cup {Free}] /\ Owners
  BY TypeParts DEF IInv
<1>2. heap' \in [Rec -> Proc \cup {Free}]
  BY <1>1
<1>3. \A r \in Rec : InTable(r) => heap'[r] = heap[r] /\ heap'[r] # Free
  BY <1>1 DEF Owners
<1>4. /\ fr'.pc = "recv" /\ fr'.ret = "" /\ fr'.tgt = NULL
      /\ fr'.pare = NULL /\ fr'.chil = NULL /\ fr'.dead = NULL
  BY IdleFields
<1>5. \A r \in Rec : ~Loading(r)'
  BY <1>4 DEF Loading
<1>6. \A r \in Rec : heap'[r] # Free <=> InTable(r)
  BY <1>1 DEF Owners
<1>7. FrameOK'
  BY <1>4, <1>5 DEF FrameOK, Reading, Idle
<1>8. fr' \in Frame
  BY IdleFrame
<1> QED BY <1>2, <1>3, <1>4, <1>5, <1>6, <1>7, <1>8, HeapStep

LEMMA StopUnloaded ==
  ASSUME IInv, KernelTypeOK', EventsOrdered', UNCHANGED <<heap, buckets, kids, pare>>,
         fr' = Idle, \A r \in Rec : ~Loading(r)
  PROVE  IInv'
<1>1. heap' = [r \in Rec |-> IF Loading(r) THEN Free ELSE heap[r]]
  BY TypeParts DEF IInv
<1> QED BY <1>1, StopStep

LEMMA StopLoading ==
  ASSUME IInv, KernelTypeOK', EventsOrdered', UNCHANGED <<buckets, kids, pare>>,
         fr' = Idle, Loading(fr.tgt), heap' = [heap EXCEPT ![fr.tgt] = Free]
  PROVE  IInv'
<1>1. heap' = [r \in Rec |-> IF Loading(r) THEN Free ELSE heap[r]]
  BY TypeParts DEF IInv, Loading
<1> QED BY <1>1, StopStep

\* proc_load, called while no record is being loaded
LEMMA LoadStep ==
  ASSUME IInv, KernelTypeOK', EventsOrdered', UNCHANGED <<buckets, kids, pare>>,
         \A r \in Rec : ~Loading(r),
         NEW pid \in Pid \cup {0}, NEW f \in Frame, NEW s \in {"pare", "chil", "reaper"},
         \A r \in {f.pare, f.chil, f.dead} \ {NULL} : InTable(r),
         s = "chil" => f.pare \in Rec /\ pid \in Pid /\ f.pid = pid,
         s = "pare" => f.pid \in Pid,
         s = "reaper" => f.chil \in Rec /\ f.dead \in Rec /\ pare[f.chil] = NULL /\ ~Dead(f.chil),
         proc_load(pid, f, s)
  PROVE  IInv'
<1>1. heap \in [Rec -> Proc \cup {Free}] /\ Owners
  BY TypeParts DEF IInv
<1>2. CASE fr' = Idle /\ UNCHANGED heap
  BY <1>2, StopUnloaded
<1>3. ASSUME NEW r \in Rec \ Allocated, heap' = [heap EXCEPT ![r] = Blank(pid)],
             fr' = [f EXCEPT !.pc = "stat", !.tgt = r, !.ret = s]
      PROVE  IInv'
  <2>1. heap[r] = Free /\ ~InTable(r)
    BY <1>1, <1>3 DEF Allocated, Owners
  <2>2. Blank(pid) \in Proc /\ Blank(pid) # Free
    BY BlankRecord, FreeIsNoProc
  <2>3. /\ heap' \in [Rec -> Proc \cup {Free}] /\ heap'[r] = Blank(pid)
        /\ \A q \in Rec : q # r => heap'[q] = heap[q]
    BY <1>1, <1>3, <2>2
  <2>4. Blank(pid).death_time = 0 /\ Blank(pid).pid = pid
    BY DEF Blank
  <2>5. fr' \in Frame
    BY <1>3, FrameUpdates DEF Ptr
  <2>6. /\ fr'.pc = "stat" /\ fr'.tgt = r /\ fr'.ret = s /\ fr'.pid = f.pid
        /\ fr'.pare = f.pare /\ fr'.chil = f.chil /\ fr'.dead = f.dead
    BY <1>3 DEF Frame
  <2>7. \A q \in Rec : Loading(q)' <=> q = r
    BY <2>6 DEF Loading
  <2>8. \A q \in Rec : InTable(q) => heap'[q] = heap[q] /\ heap'[q] # Free
    BY <1>1, <2>1, <2>3 DEF Owners
  <2>9. \A q \in Rec : heap'[q] # Free <=> InTable(q) \/ q = r
    BY <1>1, <2>1, <2>2, <2>3 DEF Owners
  <2>10. ASSUME s = "reaper"
         PROVE  fr'.chil \in Rec /\ fr'.dead \in Rec /\ pare'[fr'.chil] = NULL /\ ~Dead(fr.chil)'
    <3>1. f.chil \in Rec /\ InTable(f.chil) /\ pare[f.chil] = NULL /\ ~Dead(f.chil)
      BY <2>10, NullNotRec
    <3>2. heap'[f.chil] = heap[f.chil]
      BY <3>1, <2>8
    <3> QED BY <3>1, <3>2, <2>6, <2>10 DEF Dead
  <2>11. FrameOK'
    BY <2>2, <2>3, <2>4, <2>6, <2>7, <2>10 DEF FrameOK, Reading
  <2>12. \A q \in {fr'.pare, fr'.chil, fr'.dead} \ {NULL} : InTable(q)
    BY <2>6
  <2> QED BY <2>1, <2>3, <2>5, <2>7, <2>8, <2>9, <2>11, <2>12, HeapStep
<1> QED BY <1>2, <1>3 DEF proc_load

-------------------------------------------------------------------------------
\* A read of /proc rewrites the record the handler is filling, and nothing a
\* node, the tree or an owner depends on.
LEMMA RefreshStep ==
  ASSUME IInv, KernelTypeOK', EventsOrdered', UNCHANGED <<buckets, kids, pare>>,
         fr.pc \in {"stat", "status", "fd"}, NEW x \in Proc,
         heap' = [heap EXCEPT ![fr.tgt] = x],
         x.pid = heap[fr.tgt].pid, x.death_time = heap[fr.tgt].death_time,
         \/ fr' = Looked
         \/ \E pc \in {"status", "fd"} : fr' = [fr EXCEPT !.pc = pc]
  PROVE  IInv'
<1>1. heap \in [Rec -> Proc \cup {Free}] /\ Owners /\ FrameOK /\ fr \in Frame /\ NoDangling
  BY TypeParts DEF IInv
<1>2. fr.tgt \in Rec /\ heap[fr.tgt] # Free /\ fr.ret # "" /\ fr.pc # "load" /\ fr.pc # "loop"
  BY <1>1 DEF FrameOK, Reading
<1>3. x # Free
  BY FreeIsNoProc
<1>4. /\ heap' \in [Rec -> Proc \cup {Free}]
      /\ \A r \in Rec : heap[r] # Free =>
           heap'[r] # Free /\ heap'[r].pid = heap[r].pid /\ heap'[r].death_time = heap[r].death_time
      /\ \A r \in Rec : heap'[r] # Free <=> heap[r] # Free
  BY <1>1, <1>2, <1>3
<1>5. \A r \in Rec : InTable(r) => heap[r] # Free
  BY <1>1 DEF Owners
<1>6. CASE fr' = Idle /\ fr.ret = "exec"
  <2>1. /\ fr'.pc = "recv" /\ fr'.ret = "" /\ fr'.tgt = NULL
        /\ fr'.pare = NULL /\ fr'.chil = NULL /\ fr'.dead = NULL /\ fr' \in Frame
    BY <1>6, IdleFields, IdleFrame
  <2>2. \A r \in Rec : ~Loading(r)' /\ ~Loading(r)
    BY <2>1, <1>6 DEF Loading
  <2>3. \A r \in Rec : heap'[r] # Free <=> InTable(r) \/ Loading(r)'
    BY <2>2, <1>1, <1>4 DEF Owners
  <2>4. FrameOK'
    BY <1>6, <2>1, <2>2 DEF FrameOK, Reading
  <2> QED BY <1>4, <1>5, <2>1, <2>2, <2>3, <2>4, HeapStep
<1>7. ASSUME NEW pc \in {"status", "fd", "link", "repare"}, fr' = [fr EXCEPT !.pc = pc],
             pc = "link" => fr.ret \in {"pare", "chil", "reaper"},
             pc = "repare" => fr.ret = "orphan"
      PROVE  IInv'
  <2>1. /\ fr' \in Frame /\ fr'.pc = pc /\ fr'.tgt = fr.tgt /\ fr'.ret = fr.ret
        /\ fr'.pid = fr.pid /\ fr'.pare = fr.pare /\ fr'.chil = fr.chil /\ fr'.dead = fr.dead
    BY <1>1, <1>7 DEF Frame
  <2>2. \A r \in Rec : Loading(r)' <=> Loading(r)
    BY <2>1 DEF Loading
  <2>3. /\ \A r \in Rec : heap'[r] # Free <=> InTable(r) \/ Loading(r)'
        /\ \A r \in Rec : ~(InTable(r) /\ Loading(r)')
    BY <2>2, <1>1, <1>4 DEF Owners
  <2>4. \A r \in {fr'.pare, fr'.chil, fr'.dead} \ {NULL} : InTable(r)
    BY <1>1, <2>1 DEF NoDangling
  <2>5. ASSUME fr.ret \in {"orphan", "reaper"}
        PROVE  fr.chil \in Rec /\ fr.dead \in Rec /\ pare'[fr'.chil] = NULL /\ ~Dead(fr.chil)'
    <3>1. fr.chil \in Rec /\ fr.dead \in Rec /\ pare[fr.chil] = NULL /\ ~Dead(fr.chil)
      BY <2>5, <1>1 DEF FrameOK
    <3>2. InTable(fr.chil) /\ heap[fr.chil] # Free
      BY <3>1, <1>1, <1>5, NullNotRec DEF NoDangling
    <3>3. heap[fr.chil].death_time = 0
      BY <3>1, <3>2 DEF Dead
    <3> QED BY <3>1, <3>2, <3>3, <2>1, <1>4 DEF Dead
  <2>6. ASSUME NEW r \in Rec, Loading(r)' PROVE heap'[r].death_time = 0
    BY <2>6, <2>2, <1>1, <1>4 DEF FrameOK, Owners
  <2>7. fr.ret = "chil" => heap'[fr'.tgt].pid = fr'.pid
    BY <2>1, <1>1, <1>2, <1>4 DEF FrameOK
  <2>8. ASSUME \A r \in Rec : InTable(r)' <=> InTable(r) PROVE FrameOK'
    <3>1. fr'.ret = "exec" => InTable(fr.tgt)'
      BY <2>1, <2>8, <1>1, <1>2 DEF FrameOK
    <3>2. /\ fr'.ret = "chil" => fr'.pare \in Rec /\ fr'.pid \in Pid
          /\ fr'.ret = "pare" => fr'.pid \in Pid
          /\ fr'.ret = "orphan" => fr'.tgt = fr'.chil
      BY <2>1, <1>1 DEF FrameOK
    <3> QED BY <3>1, <3>2, <1>2, <1>4, <1>7, <2>1, <2>5, <2>6, <2>7 DEF FrameOK, Reading
  <2> QED BY <1>4, <1>5, <2>1, <2>3, <2>4, <2>8, HeapStep
<1>8. CASE fr' = Looked
  <2>1. fr.ret \in {"pare", "chil", "exec", "orphan", "reaper"}
    BY <1>1, <1>2, FrameFields
  <2>2. CASE fr.ret = "exec"
    BY <1>6, <1>8, <2>2 DEF Looked
  <2>3. CASE fr.ret = "orphan"
    BY <1>7, <1>8, <2>3 DEF Looked
  <2>4. CASE fr.ret \in {"pare", "chil", "reaper"}
    <3>1. fr' = [fr EXCEPT !.pc = "link"]
      BY <1>8, <2>4 DEF Looked
    <3> QED BY <3>1, <2>4, <1>7
  <2> QED BY <2>1, <2>2, <2>3, <2>4
<1> QED BY <1>7, <1>8

\* What the reads of /proc answer
LEMMA ProcFiles ==
  ASSUME KernelTypeOK, NEW p, InProc(p)
  PROVE  p \in Pid /\ Ppid(p) \in Pid \cup {0} /\ task[p].attr \in [Attr -> Val]
<1>1. p \in Pid /\ task[p] \in Task
  BY DEF KernelTypeOK, InProc
<1>2. task[p].parent \in Pid \cup {0} /\ task[p].attr \in [Attr -> Val]
  BY <1>1 DEF Task
<1>3. Ppid(p) \in Pid \cup {0}
  BY <1>2 DEF Ppid, KernelTypeOK, Task
<1> QED BY <1>1, <1>2, <1>3

LEMMA FailedRead ==
  ASSUME IInv, KernelTypeOK', EventsOrdered', UNCHANGED <<buckets, kids, pare>>,
         fr.pc \in {"stat", "status", "fd"}, prfs_fail
  PROVE  IInv'
<1>1. fr' = Idle
  BY DEF prfs_fail
<1>2. CASE fr.ret \in {"pare", "chil", "reaper"}
  BY <1>1, <1>2, StopLoading DEF prfs_fail, Loading
<1>3. CASE fr.ret \notin {"pare", "chil", "reaper"}
  BY <1>1, <1>3, StopUnloaded DEF prfs_fail, Loading
<1> QED BY <1>2, <1>3

LEMMA ReadSteps ==
  ASSUME IInv, prfs_stat \/ prfs_status \/ prfs_fd
  PROVE  IInv'
<1> DEFINE old == heap[fr.tgt]
           p == old.pid
<1>1. UNCHANGED <<buckets, kids, pare, task, clock, evq>>
  BY DEF prfs_stat, prfs_status, prfs_fd
<1>2. KernelTypeOK /\ EventsOrdered /\ heap \in [Rec -> Proc \cup {Free}]
  BY TypeParts DEF IInv
<1>3. KernelTypeOK' /\ EventsOrdered'
  BY <1>1, <1>2 DEF KernelTypeOK, EventsOrdered
<1>4. fr.pc \in {"stat", "status", "fd"}
  BY DEF prfs_stat, prfs_status, prfs_fd
<1>5. old \in Proc /\ fr.tgt \in Rec
  BY <1>2, <1>4 DEF IInv, FrameOK, Reading
<1>6. ASSUME prfs_fail PROVE IInv'
  BY <1>1, <1>3, <1>4, <1>6, FailedRead
<1>7. CASE prfs_stat
  <2>1. CASE prfs_fail
    BY <2>1, <1>6
  <2>2. CASE InProc(p) /\ ~prfs_fail
    <3> DEFINE x == [old EXCEPT !.ppid = Ppid(p),
                                !.birth_ppid = IF @ = -1 THEN Ppid(p) ELSE @,
                                !.attr["comm"] = task[p].attr["comm"],
                                !.alive = TRUE]
    <3>1. heap' = [heap EXCEPT ![fr.tgt] = x] /\ fr' = [fr EXCEPT !.pc = "status"]
      BY <1>7, <2>2 DEF prfs_stat
    <3>2. Ppid(p) \in Pid \cup {0} /\ task[p].attr["comm"] \in Val
      BY <1>2, <2>2, ProcFiles, KernelConstants
    <3>3. x \in Proc /\ x.pid = old.pid /\ x.death_time = old.death_time
      BY <3>2, <1>5 DEF Proc
    <3> HIDE DEF x
    <3> QED BY <3>1, <3>3, <1>1, <1>3, <1>4, RefreshStep
  <2> QED BY <1>7, <2>1, <2>2 DEF prfs_stat
<1>8. CASE prfs_status
  <2>1. CASE prfs_fail
    BY <2>1, <1>6
  <2>2. CASE InProc(p) /\ ~prfs_fail
    <3> DEFINE t == [a \in Attr |-> IF a = "comm" THEN old.attr[a] ELSE task[p].attr[a]]
               x == [old EXCEPT !.attr = t]
    <3>1. heap' = [heap EXCEPT ![fr.tgt] = x]
      BY <1>8, <2>2 DEF prfs_status
    <3>2. fr' = [fr EXCEPT !.pc = "fd"] \/ fr' = Looked
      BY <1>8, <2>2 DEF prfs_status
    <3>3. t \in [Attr -> Val \cup {0}]
      BY <1>2, <1>5, <2>2, ProcFiles DEF Proc
    <3> HIDE DEF t
    <3>4. x \in Proc /\ x.pid = old.pid /\ x.death_time = old.death_time
      BY <3>3, <1>5 DEF Proc
    <3> HIDE DEF x
    <3> QED BY <3>1, <3>2, <3>4, <1>1, <1>3, <1>4, RefreshStep
  <2> QED BY <1>8, <2>1, <2>2 DEF prfs_status
<1>9. CASE prfs_fd
  <2>1. CASE prfs_fail
    BY <2>1, <1>6
  <2>2. CASE fr' = Looked /\ UNCHANGED heap
    <3>1. heap' = [heap EXCEPT ![fr.tgt] = old]
      BY <2>2, <1>2
    <3> HIDE DEF old
    <3> QED BY <3>1, <2>2, <1>1, <1>3, <1>4, <1>5, RefreshStep DEF old
  <2> QED BY <1>9, <2>1, <2>2 DEF prfs_fd
<1> QED BY <1>7, <1>8, <1>9

-------------------------------------------------------------------------------
\* Between two events no record is being loaded.
LEMMA NobodyLoads ==
  ASSUME IInv, fr.tgt = NULL \/ fr.ret \in {"exec", "orphan", ""} \/ fr = Idle
  PROVE  \A r \in Rec : ~Loading(r)
  BY NullNotRec, IdleFields DEF Loading

LEMMA ExecStep ==
  ASSUME IInv, KernelTypeOK', EventsOrdered', fr = Idle, NEW e \in Event, even_exec(e)
  PROVE  IInv'
<1>1. UNCHANGED <<heap, buckets, kids, pare>>
  BY DEF even_exec
<1>2. \A q \in Rec : ~Loading(q)
  BY NobodyLoads
<1>3. CASE proc_look(e.pid) = NULL
  BY <1>1, <1>2, <1>3, StopUnloaded DEF even_exec
<1>4. CASE proc_look(e.pid) # NULL
  <2>1. PICK r \in Rec : r = proc_look(e.pid) /\ InTable(r)
    BY <1>4, Looking, EventFields
  <2>2. fr' = [Idle EXCEPT !.pc = "stat", !.tgt = r, !.ret = "exec"]
    BY <1>4, <2>1 DEF even_exec
  <2>3. /\ fr' \in Frame /\ fr'.pc = "stat" /\ fr'.tgt = r /\ fr'.ret = "exec"
        /\ fr'.pare = NULL /\ fr'.chil = NULL /\ fr'.dead = NULL
    <3>1. fr' \in Frame
      BY <2>1, <2>2, IdleFrame, FrameUpdates DEF Ptr
    <3> QED BY <3>1, <2>2, IdleFields, IdleFrame DEF Frame
  <2>4. \A q \in Rec : ~Loading(q)'
    BY <2>3 DEF Loading
  <2>5. heap \in [Rec -> Proc \cup {Free}] /\ Owners
    BY TypeParts DEF IInv
  <2>6. \A q \in Rec : heap'[q] # Free <=> InTable(q) \/ Loading(q)'
    BY <1>1, <1>2, <2>4, <2>5 DEF Owners
  <2>7. ASSUME \A q \in Rec : InTable(q)' <=> InTable(q) PROVE FrameOK'
    <3>1. InTable(r)' /\ heap'[r] # Free
      BY <2>7, <2>1, <2>6
    <3>2. InTable(fr.tgt)'
      BY <3>1, <2>3
    <3> QED BY <3>1, <3>2, <2>1, <2>3, <2>4 DEF FrameOK, Reading
  <2> QED BY <1>1, <2>3, <2>4, <2>5, <2>6, <2>7, HeapStep
<1> QED BY <1>3, <1>4

LEMMA AttrStep ==
  ASSUME IInv, KernelTypeOK', EventsOrdered', fr = Idle, NEW e \in Event, even_attr(e)
  PROVE  IInv'
<1> DEFINE r == proc_look(e.pid)
<1>1. UNCHANGED <<buckets, kids, pare>> /\ fr' = Idle /\ e.what \in Attr
  BY DEF even_attr
<1>2. \A q \in Rec : ~Loading(q)
  BY NobodyLoads
<1>3. CASE r = NULL
  BY <1>1, <1>2, <1>3, StopUnloaded DEF even_attr
<1>4. CASE r # NULL
  <2>1. r \in Rec /\ InTable(r)
    BY <1>4, Looking, EventFields
  <2>2. heap \in [Rec -> Proc \cup {Free}] /\ Owners
    BY TypeParts DEF IInv
  <2>3. heap[r] \in Proc
    BY <2>1, <2>2 DEF Owners
  <2> DEFINE x == [heap[r] EXCEPT !.attr[e.what] = e.arg]
  <2>4. heap' = [heap EXCEPT ![r] = x]
    BY <1>4 DEF even_attr
  <2>5. e.arg \in Val
    BY <1>1, EventFields
  <2> HIDE DEF r
  <2>6. x \in Proc /\ x.pid = heap[r].pid /\ x.death_time = heap[r].death_time
    BY <2>3, <2>5, <1>1 DEF Proc
  <2> HIDE DEF x
  <2>7. /\ heap' \in [Rec -> Proc \cup {Free}]
        /\ \A q \in Rec : q # r => heap'[q] = heap[q]
        /\ heap'[r] = x /\ x # Free
    BY <2>1, <2>2, <2>4, <2>6, FreeIsNoProc
  <2>8. \A q \in Rec : InTable(q) =>
          heap'[q] # Free /\ heap'[q].pid = heap[q].pid /\ heap'[q].death_time = heap[q].death_time
    BY <2>2, <2>6, <2>7 DEF Owners
  <2>9. /\ fr'.pc = "recv" /\ fr'.ret = "" /\ fr'.tgt = NULL
        /\ fr'.pare = NULL /\ fr'.chil = NULL /\ fr'.dead = NULL /\ fr' \in Frame
    BY <1>1, IdleFields, IdleFrame
  <2>10. \A q \in Rec : ~Loading(q)'
    BY <2>9 DEF Loading
  <2>11. \A q \in Rec : heap'[q] # Free <=> InTable(q) \/ Loading(q)'
    BY <1>2, <2>1, <2>2, <2>7, <2>10 DEF Owners
  <2>12. FrameOK'
    BY <1>1, <2>9, <2>10 DEF FrameOK, Reading
  <2> QED BY <1>1, <2>7, <2>8, <2>9, <2>10, <2>11, <2>12, HeapStep
<1> QED BY <1>3, <1>4

LEMMA ForkStep ==
  ASSUME IInv, KernelTypeOK', EventsOrdered', fr = Idle, NEW e \in Event, even_fork(e)
  PROVE  IInv'
<1> DEFINE r == proc_look(e.arg)
           f == [Idle EXCEPT !.pid = e.pid, !.ts = e.ts]
<1>1. UNCHANGED <<buckets, kids, pare>> /\ e.what = "fork"
  BY DEF even_fork
<1>2. e.pid \in Pid /\ e.ts \in 0..MaxClock /\ e.arg \in Pid \cup {0}
  BY <1>1, EventFields
<1>3. \A q \in Rec : ~Loading(q)
  BY NobodyLoads
<1>4. f \in Frame
  BY <1>2, ForkFrame
<1>5. f.pid = e.pid /\ f.pare = NULL /\ f.chil = NULL /\ f.dead = NULL /\ f.tgt = NULL /\ f.ret = ""
  BY IdleFields, IdleFrame DEF Frame
<1>6. CASE r = NULL
  <2>1. proc_load(e.arg, f, "pare")
    BY <1>6 DEF even_fork
  <2> HIDE DEF f
  <2>2. \A q \in {f.pare, f.chil, f.dead} \ {NULL} : InTable(q)
    BY <1>5
  <2> QED BY <1>1, <1>2, <1>3, <1>4, <1>5, <2>1, <2>2, LoadStep
<1>7. CASE r # NULL
  <2>1. r \in Rec /\ InTable(r)
    BY <1>2, <1>7, Looking
  <2>2. fr' = [f EXCEPT !.pc = "load", !.pare = r] /\ UNCHANGED heap
    BY <1>7 DEF even_fork
  <2> HIDE DEF r, f
  <2>3. /\ fr' \in Frame /\ fr'.pc = "load" /\ fr'.tgt = NULL /\ fr'.ret = ""
        /\ fr'.pare = r /\ fr'.chil = NULL /\ fr'.dead = NULL /\ fr'.pid = e.pid
    <3>1. fr' \in Frame
      BY <1>4, <2>1, <2>2, FrameUpdates DEF Ptr
    <3> QED BY <3>1, <1>4, <1>5, <2>2 DEF Frame
  <2>4. \A q \in Rec : ~Loading(q)'
    BY <2>3 DEF Loading
  <2>5. heap \in [Rec -> Proc \cup {Free}] /\ Owners
    BY TypeParts DEF IInv
  <2>6. \A q \in Rec : heap'[q] # Free <=> InTable(q) \/ Loading(q)'
    BY <1>3, <2>2, <2>4, <2>5 DEF Owners
  <2>7. FrameOK'
    BY <1>2, <2>1, <2>3, <2>4 DEF FrameOK, Reading
  <2>8. \A q \in {fr'.pare, fr'.chil, fr'.dead} \ {NULL} : InTable(q)
    BY <2>1, <2>3
  <2> QED BY <1>1, <2>2, <2>3, <2>4, <2>5, <2>6, <2>7, <2>8, HeapStep
<1> QED BY <1>6, <1>7

LEMMA ForkLoadStep ==
  ASSUME IInv, fork_load
  PROVE  IInv'
<1>1. UNCHANGED <<buckets, kids, pare, task, clock, evq>> /\ fr.pc = "load"
  BY DEF fork_load
<1>2. KernelTypeOK' /\ EventsOrdered'
  BY <1>1, TypeParts DEF IInv, KernelTypeOK, EventsOrdered
<1>3. fr \in Frame /\ fr.tgt = NULL /\ fr.pare \in Rec /\ fr.pid \in Pid
  BY <1>1, TypeParts DEF IInv, FrameOK
<1>4. \A q \in Rec : ~Loading(q)
  BY <1>3, NobodyLoads
<1>5. \A q \in {fr.pare, fr.chil, fr.dead} \ {NULL} : InTable(q)
  BY DEF IInv, NoDangling
<1>6. proc_load(fr.pid, fr, "chil")
  BY DEF fork_load
<1> QED BY <1>1, <1>2, <1>3, <1>4, <1>5, <1>6, LoadStep

-------------------------------------------------------------------------------
\* The invariant in the next state, where T are the records of the table
LEMMA TreeStep ==
  ASSUME heap' \in [Rec -> Proc \cup {Free}], BucketsTypeOK', ForestTypeOK', fr' \in Frame,
         KernelTypeOK', EventsOrdered', Consistent', NodesOwnRecords', FrameOK',
         NEW T \in SUBSET Rec, \A r \in Rec : InTable(r)' <=> r \in T,
         \A r \in Rec : heap'[r] # Free <=> r \in T \/ Loading(r)',
         \A r \in Rec : ~(r \in T /\ Loading(r)'),
         \A r \in Rec : pare'[r] # NULL => /\ r \in T /\ pare'[r] \in T
                                           /\ heap'[r].death_time = 0,
         \A r \in {fr'.pare, fr'.chil, fr'.dead} \ {NULL} : r \in T
  PROVE  IInv'
<1>1. Owners'
  BY DEF Owners
<1>2. NoDangling'
  <2>1. ASSUME NEW r \in Rec, pare'[r] # NULL
        PROVE  InTable(r)' /\ InTable(pare[r])'
    <3>1. pare'[r] \in Rec /\ r \in T /\ pare'[r] \in T
      BY <2>1
    <3> QED BY <3>1
  <2>2. \A r \in {fr'.pare, fr'.chil, fr'.dead} \ {NULL} : InTable(r)'
    OBVIOUS
  <2> QED BY <2>1, <2>2 DEF NoDangling
<1>3. DeadIsRoot'
  BY DEF DeadIsRoot, Dead
<1> QED BY <1>1, <1>2, <1>3, Assemble

\* What the invariant says of the tree and the table
LEMMA TreeFacts ==
  ASSUME IInv
  PROVE  /\ heap \in [Rec -> Proc \cup {Free}] /\ BucketsTypeOK /\ ForestTypeOK /\ fr \in Frame
         /\ \A r \in Rec : InTable(r) => heap[r] # Free /\ heap[r] \in Proc
         /\ \A r \in Rec : pare[r] # NULL => /\ pare[r] \in Rec
                                             /\ InTable(r) /\ InTable(pare[r])
                                             /\ heap[r].death_time = 0
<1>1. heap \in [Rec -> Proc \cup {Free}] /\ BucketsTypeOK /\ ForestTypeOK /\ fr \in Frame
  BY TypeParts DEF IInv
<1>2. \A r \in Rec : InTable(r) => heap[r] # Free /\ heap[r] \in Proc
  BY <1>1 DEF IInv, Owners
<1>3. ASSUME NEW r \in Rec, pare[r] # NULL
      PROVE  pare[r] \in Rec /\ InTable(r) /\ InTable(pare[r]) /\ heap[r].death_time = 0
  <2>1. pare[r] \in Rec /\ InTable(r) /\ InTable(pare[r])
    BY <1>1, <1>3 DEF IInv, NoDangling, ForestTypeOK
  <2> QED BY <2>1, <1>2, <1>3 DEF IInv, DeadIsRoot, Dead
<1> QED BY <1>1, <1>2, <1>3

LEMMA ExitStep ==
  ASSUME IInv, KernelTypeOK', EventsOrdered', fr = Idle, NEW e \in Event, even_exit(e)
  PROVE  IInv'
<1>1. buckets' = buckets
  BY DEF even_exit
<1>2. \A q \in Rec : ~Loading(q)
  BY NobodyLoads
<1>3. CASE proc_look(e.pid) = NULL
  <2>1. UNCHANGED <<heap, kids, pare>> /\ fr' = Idle
    BY <1>3 DEF even_exit
  <2> QED BY <1>1, <1>2, <2>1, StopUnloaded
<1>4. CASE proc_look(e.pid) # NULL
  <2>1. PICK d \in Rec : d = proc_look(e.pid) /\ InTable(d)
    BY <1>4, Looking, EventFields
  <2> DEFINE x == [heap[d] EXCEPT !.alive = FALSE, !.death_time = e.ts]
             T == {q \in Rec : InTable(q)}
  <2>2. heap' = [heap EXCEPT ![d] = x]
    BY <1>4, <2>1 DEF even_exit
  <2>3. heap[d] \in Proc
    BY <2>1, TreeFacts
  <2>4. x \in Proc /\ x.pid = heap[d].pid /\ x # Free
    BY <2>3, EventFields, FreeIsNoProc DEF Proc
  <2> HIDE DEF x
  <2>5. /\ heap' \in [Rec -> Proc \cup {Free}] /\ heap'[d] = x
        /\ \A q \in Rec : q # d => heap'[q] = heap[q]
    BY <2>2, <2>4, TreeFacts
  <2>6. BucketsTypeOK' /\ NodesOwnRecords' /\ \A q \in Rec : InTable(q)' <=> InTable(q)
    <3>1. \A q \in Rec : InTable(q) => heap'[q] # Free /\ heap'[q].pid = heap[q].pid
      BY <2>4, <2>5, TreeFacts
    <3> QED BY <3>1, <1>1, HeapStepKeepsNodes, TreeFacts DEF IInv
  <2>7. \A q \in Rec : heap'[q] # Free <=> q \in T
    BY <1>2, <2>1, <2>4, <2>5 DEF IInv, Owners
  <2>8. \A q \in Rec : InTable(q)' <=> q \in T
    BY <2>6
  <2> HIDE DEF T
  <2>9. CASE pare[d] = NULL
    <3>1. UNCHANGED <<kids, pare>> /\ fr' = Idle
      BY <2>1, <2>9, <1>4 DEF even_exit
    <3>2. ForestTypeOK' /\ Consistent'
      BY <3>1, TreeFacts DEF IInv, ForestTypeOK, Consistent, IsKid
    <3>3. /\ fr'.pc = "recv" /\ fr'.ret = "" /\ fr'.tgt = NULL
          /\ fr'.pare = NULL /\ fr'.chil = NULL /\ fr'.dead = NULL /\ fr' \in Frame
      BY <3>1, IdleFields, IdleFrame
    <3>4. \A q \in Rec : ~Loading(q)'
      BY <3>3 DEF Loading
    <3>5. FrameOK'
      BY <3>1, <3>3, <3>4 DEF FrameOK, Reading
    <3>6. \A q \in Rec : pare'[q] # NULL => q \in T /\ pare'[q] \in T /\ heap'[q].death_time = 0
      BY <2>5, <2>9, <3>1, TreeFacts DEF T
    <3> QED BY <2>5, <2>6, <2>7, <2>8, <3>2, <3>3, <3>4, <3>5, <3>6, TreeStep DEF T
  <2>10. CASE pare[d] # NULL
    <3>1. deta_chil(pare[d], d) /\ fr' = [Idle EXCEPT !.pc = "loop", !.dead = d]
      BY <2>1, <2>10, <1>4 DEF even_exit
    <3>2. ForestTypeOK' /\ Consistent' /\ pare' = [pare EXCEPT ![d] = NULL]
      BY <2>10, <3>1, TreeFacts, DetachConsistent DEF IInv
    <3>3. /\ fr' \in Frame /\ fr'.pc = "loop" /\ fr'.ret = "" /\ fr'.tgt = NULL
          /\ fr'.pare = NULL /\ fr'.chil = NULL /\ fr'.dead = d
      <4>1. fr' \in Frame
        BY <3>1, IdleFrame, FrameUpdates DEF Ptr
      <4> QED BY <4>1, <3>1, IdleFields, IdleFrame DEF Frame
    <3>4. \A q \in Rec : ~Loading(q)'
      BY <3>3 DEF Loading
    <3>5. FrameOK'
      BY <3>3, <3>4 DEF FrameOK, Reading
    <3>6. \A q \in Rec : pare'[q] # NULL => q \in T /\ pare'[q] \in T /\ heap'[q].death_time = 0
      BY <2>5, <3>2, TreeFacts DEF T, ForestTypeOK
    <3>7. d \in T
      BY <2>1 DEF T
    <3>8. \A q \in {fr'.pare, fr'.chil, fr'.dead} \ {NULL} : q \in T
      BY <3>3, <3>7
    <3> QED BY <2>5, <2>6, <2>7, <2>8, <3>2, <3>3, <3>4, <3>5, <3>6, <3>8, TreeStep DEF T
  <2> QED BY <2>9, <2>10
<1> QED BY <1>3, <1>4

LEMMA ExitLoopStep ==
  ASSUME IInv, exit_loop
  PROVE  IInv'
<1>1. UNCHANGED <<heap, buckets, task, clock, evq>> /\ fr.pc = "loop"
  BY DEF exit_loop
<1>2. KernelTypeOK' /\ EventsOrdered'
  BY <1>1, TypeParts DEF IInv, KernelTypeOK, EventsOrdered
<1>3. fr.tgt = NULL /\ fr.dead \in Rec
  BY <1>1 DEF IInv, FrameOK
<1>4. \A q \in Rec : ~Loading(q)
  BY <1>3, NobodyLoads
<1>5. kids[fr.dead] \in Seq(Rec) /\ kids \in [Rec -> Seq(Rec)]
  BY <1>3, TreeFacts DEF ForestTypeOK
<1>6. CASE FirstKid(fr.dead) = NULL
  <2>1. UNCHANGED <<kids, pare>> /\ fr' = Idle
    BY <1>6 DEF exit_loop
  <2> QED BY <1>1, <1>2, <1>4, <2>1, StopUnloaded
<1>7. CASE FirstKid(fr.dead) # NULL
  <2>1. PICK c : c = FirstKid(fr.dead)
    OBVIOUS
  <2>2. /\ deta_chil(fr.dead, c)
        /\ fr' = [fr EXCEPT !.pc = "stat", !.tgt = c, !.chil = c, !.ret = "orphan"]
    BY <1>7, <2>1 DEF exit_loop
  <2>3. c \in Rec /\ pare[c] = fr.dead
    <3>1. c = kids[fr.dead][1] /\ kids[fr.dead] # <<>>
      BY <1>7, <2>1 DEF FirstKid
    <3>2. 1 \in DOMAIN kids[fr.dead] /\ kids[fr.dead][1] \in Rec
      BY <1>5, <3>1, EmptySeq, LenProperties, ElementOfSeq
    <3>3. c \in Rec /\ IsKid(fr.dead, c)
      BY <3>1, <3>2 DEF IsKid
    <3> QED BY <3>3, <1>3 DEF IInv, Consistent
  <2>4. InTable(c) /\ heap[c].death_time = 0 /\ heap[c] # Free
    BY <2>3, <1>3, NullNotRec, TreeFacts
  <2>5. ForestTypeOK' /\ Consistent' /\ pare' = [pare EXCEPT ![c] = NULL]
    BY <1>3, <2>2, <2>3, TreeFacts, DetachConsistent DEF IInv
  <2>6. BucketsTypeOK' /\ NodesOwnRecords' /\ \A q \in Rec : InTable(q)' <=> InTable(q)
    BY <1>1, HeapStepKeepsNodes, TreeFacts DEF IInv
  <2>7. /\ fr' \in Frame /\ fr'.pc = "stat" /\ fr'.ret = "orphan" /\ fr'.tgt = c
        /\ fr'.chil = c /\ fr'.dead = fr.dead /\ fr'.pare = fr.pare
    <3>1. fr' \in Frame
      BY <2>2, <2>3, TreeFacts, FrameUpdates DEF Ptr
    <3> QED BY <3>1, <2>2, TreeFacts DEF Frame
  <2>8. \A q \in Rec : ~Loading(q)'
    BY <2>7 DEF Loading
  <2>9. pare'[fr'.chil] = NULL /\ ~Dead(fr.chil)'
    BY <1>1, <2>3, <2>4, <2>5, <2>7, TreeFacts DEF ForestTypeOK, Dead
  <2>10. FrameOK'
    BY <1>1, <1>3, <2>3, <2>4, <2>7, <2>8, <2>9 DEF FrameOK, Reading
  <2> DEFINE T == {q \in Rec : InTable(q)}
  <2>11. \A q \in Rec : heap'[q] # Free <=> q \in T \/ Loading(q)'
    BY <1>1, <1>4, <2>8 DEF IInv, Owners
  <2>12. \A q \in Rec : pare'[q] # NULL => q \in T /\ pare'[q] \in T /\ heap'[q].death_time = 0
    BY <1>1, <2>3, <2>5, TreeFacts DEF ForestTypeOK
  <2>13. \A q \in {fr'.pare, fr'.chil, fr'.dead} \ {NULL} : q \in T
    <3>1. \A q \in {fr.pare, fr.dead} \ {NULL} : q \in Rec /\ InTable(q)
      BY TreeFacts, FrameFields DEF IInv, NoDangling, Ptr
    <3> QED BY <3>1, <2>3, <2>4, <2>7
  <2>14. T \in SUBSET Rec /\ \A q \in Rec : InTable(q)' <=> q \in T
    BY <2>6
  <2>15. heap' \in [Rec -> Proc \cup {Free}]
    BY <1>1, TreeFacts
  <2> HIDE DEF T
  <2> QED BY <1>2, <2>5, <2>6, <2>7, <2>8, <2>10, <2>11, <2>12, <2>13, <2>14, <2>15, TreeStep
<1> QED BY <1>6, <1>7

\* The frame after a parent was found for an orphan
LEMMA LoopFrame ==
  ASSUME fr \in Frame, fr' = Looping
  PROVE  /\ fr' \in Frame /\ fr'.pc = "loop" /\ fr'.ret = "" /\ fr'.tgt = NULL
         /\ fr'.chil = NULL /\ fr'.dead = fr.dead /\ fr'.pare = fr.pare
<1>1. fr' \in Frame
  BY FrameUpdates DEF Looping, Ptr
<1> QED BY <1>1 DEF Looping, Frame

LEMMA RePareStep ==
  ASSUME IInv, re_pare
  PROVE  IInv'
<1>1. UNCHANGED <<buckets, task, clock, evq>> /\ fr.pc = "repare"
  BY DEF re_pare
<1>2. KernelTypeOK' /\ EventsOrdered'
  BY <1>1, TypeParts DEF IInv, KernelTypeOK, EventsOrdered
<1>3. fr.ret = "orphan"
  BY <1>1 DEF IInv, FrameOK
<1>4. /\ fr.tgt = fr.chil /\ fr.chil \in Rec /\ fr.dead \in Rec
      /\ pare[fr.chil] = NULL /\ ~Dead(fr.chil)
  BY <1>3 DEF IInv, FrameOK
<1>5. \A q \in Rec : ~Loading(q)
  BY <1>3, NobodyLoads
<1>6. \A q \in {fr.pare, fr.chil, fr.dead} \ {NULL} : q \in Rec /\ InTable(q)
  BY TreeFacts, FrameFields DEF IInv, NoDangling, Ptr
<1>7. /\ InTable(fr.chil) /\ heap[fr.chil] # Free /\ heap[fr.chil] \in Proc
      /\ heap[fr.chil].death_time = 0
  BY <1>4, <1>6, NullNotRec, TreeFacts DEF Dead
<1>8. heap[fr.chil].ppid \in Pid \cup {0}
  BY <1>7, ProcFields
<1> DEFINE ppid == heap[fr.chil].ppid
<1>9. CASE proc_look(ppid) = NULL
  <2>1. proc_load(ppid, fr, "reaper") /\ UNCHANGED <<kids, pare>>
    BY <1>9 DEF re_pare
  <2> HIDE DEF ppid
  <2> QED BY <1>1, <1>2, <1>4, <1>5, <1>6, <1>8, <2>1, TreeFacts, LoadStep DEF ppid
<1>10. CASE proc_look(ppid) # NULL
  <2>1. PICK p \in Rec : p = proc_look(ppid) /\ InTable(p)
    BY <1>8, <1>10, Looking
  <2>2. UNCHANGED heap
    BY <1>10 DEF re_pare
  <2>3. CASE ~CanAttach(p, fr.chil)
    <3>1. fr' = Idle /\ UNCHANGED <<kids, pare>>
      BY <1>10, <2>1, <2>3 DEF re_pare
    <3> QED BY <1>1, <1>2, <1>5, <2>2, <3>1, StopUnloaded
  <2>4. CASE CanAttach(p, fr.chil)
    <3>1. atta_chil(p, fr.chil) /\ fr' = Looping
      BY <1>10, <2>1, <2>4 DEF re_pare
    <3>2. ForestTypeOK' /\ Consistent' /\ pare' = [pare EXCEPT ![fr.chil] = p]
      BY <1>4, <3>1, TreeFacts, AttachConsistent DEF IInv, atta_chil
    <3>3. BucketsTypeOK' /\ NodesOwnRecords' /\ \A q \in Rec : InTable(q)' <=> InTable(q)
      BY <1>1, <2>2, HeapStepKeepsNodes, TreeFacts DEF IInv
    <3>4. /\ fr' \in Frame /\ fr'.pc = "loop" /\ fr'.ret = "" /\ fr'.tgt = NULL
          /\ fr'.chil = NULL /\ fr'.dead = fr.dead /\ fr'.pare = fr.pare
      BY <3>1, TreeFacts, LoopFrame
    <3>5. \A q \in Rec : ~Loading(q)'
      BY <3>4 DEF Loading
    <3>6. FrameOK'
      BY <1>4, <3>4, <3>5 DEF FrameOK, Reading
    <3> DEFINE T == {q \in Rec : InTable(q)}
    <3>7. \A q \in Rec : heap'[q] # Free <=> q \in T \/ Loading(q)'
      BY <1>5, <2>2, <3>5 DEF IInv, Owners
    <3>8. \A q \in Rec : pare'[q] # NULL => q \in T /\ pare'[q] \in T /\ heap'[q].death_time = 0
      BY <1>4, <1>7, <2>1, <2>2, <3>2, TreeFacts DEF ForestTypeOK
    <3>9. \A q \in {fr'.pare, fr'.chil, fr'.dead} \ {NULL} : q \in T
      BY <1>6, <3>4
    <3>10. T \in SUBSET Rec /\ \A q \in Rec : InTable(q)' <=> q \in T
      BY <3>3
    <3>11. heap' \in [Rec -> Proc \cup {Free}]
      BY <2>2, TreeFacts
    <3> HIDE DEF T
    <3> QED BY <1>2, <3>2, <3>3, <3>4, <3>5, <3>6, <3>7, <3>8, <3>9, <3>10, <3>11, TreeStep
  <2> QED BY <2>3, <2>4
<1> QED BY <1>9, <1>10

-------------------------------------------------------------------------------
\* A loaded record gets its node.
LEMMA InsertStep ==
  ASSUME IInv, NEW t \in Rec, Loading(t), NEW x \in Proc, x.pid = heap[t].pid,
         heap' = [heap EXCEPT ![t] = x], proc_inse(t, heap[t].pid)
  PROVE  /\ heap' \in [Rec -> Proc \cup {Free}] /\ heap'[t] = x
         /\ \A q \in Rec : q # t => heap'[q] = heap[q]
         /\ BucketsTypeOK' /\ NodesOwnRecords'
         /\ \A q \in Rec : InTable(q)' <=> q \in {s \in Rec : InTable(s)} \cup {t}
         /\ \A q \in Rec : heap'[q] # Free <=> q \in {s \in Rec : InTable(s)} \cup {t}
         /\ ~InTable(t) /\ pare[t] = NULL
<1>1. ~InTable(t) /\ heap[t] # Free
  BY DEF IInv, Owners
<1>2. heap[t] \in Proc /\ x # Free
  BY <1>1, TreeFacts, FreeIsNoProc
<1>3. heap[t].pid \in Nat
  BY <1>2, ProcFields
<1>4. /\ heap' \in [Rec -> Proc \cup {Free}] /\ heap'[t] = x
      /\ \A q \in Rec : q # t => heap'[q] = heap[q]
  BY TreeFacts
<1>5. \A q \in Rec : InTable(q) => heap'[q] # Free /\ heap'[q].pid = heap[q].pid
  BY <1>1, <1>4, TreeFacts
<1>6. BucketsTypeOK' /\ NodesOwnRecords' /\ \A q \in Rec : InTable(q)' <=> InTable(q) \/ q = t
  BY <1>1, <1>2, <1>3, <1>4, <1>5, InsertionAdds, TreeFacts DEF IInv
<1>7. \A q \in Rec : q # t => ~Loading(q)
  BY DEF Loading
<1>8. \A q \in Rec : heap'[q] # Free <=> InTable(q) \/ q = t
  BY <1>2, <1>4, <1>7 DEF IInv, Owners
<1>9. pare[t] = NULL
  BY <1>1, TreeFacts
<1> QED BY <1>1, <1>4, <1>6, <1>8, <1>9

\* A handler whose record gets no node
LEMMA FailedInsert ==
  ASSUME IInv, KernelTypeOK', EventsOrdered', fr.pc = "link",
         fr.ret \in {"pare", "chil", "reaper"}, inse_fail
  PROVE  IInv'
<1>1. Loading(fr.tgt)
  BY DEF Loading
<1> QED BY <1>1, StopLoading DEF inse_fail

LEMMA ForkPareStep ==
  ASSUME IInv, fork_pare
  PROVE  IInv'
<1>1. UNCHANGED <<task, clock, evq>> /\ fr.pc = "link" /\ fr.ret = "pare"
  BY DEF fork_pare
<1>2. KernelTypeOK' /\ EventsOrdered'
  BY <1>1, TypeParts DEF IInv, KernelTypeOK, EventsOrdered
<1>3. CASE inse_fail
  BY <1>1, <1>2, <1>3, FailedInsert
<1>4. CASE ~inse_fail
  <2>1. PICK t \in Rec : t = fr.tgt /\ Loading(t)
    BY <1>1 DEF IInv, FrameOK, Reading, Loading
  <2>2. /\ heap' = Loaded /\ proc_inse(t, heap[t].pid)
        /\ fr' = [fr EXCEPT !.pc = "load", !.pare = t, !.tgt = NULL]
        /\ UNCHANGED <<kids, pare>>
    BY <1>4, <2>1 DEF fork_pare
  <2>3. heap[t] \in Proc /\ fr.pid \in Pid
    BY <1>1, <2>1, TreeFacts DEF IInv, Owners, FrameOK
  <2> DEFINE x == [heap[t] EXCEPT !.birth_ppid = -1]
             T == {q \in Rec : InTable(q)} \cup {t}
  <2>4. x \in Proc /\ x.pid = heap[t].pid
    BY <2>3 DEF Proc
  <2>5. heap' = [heap EXCEPT ![t] = x]
    BY <2>1, <2>2 DEF Loaded
  <2> HIDE DEF x
  <2>6. /\ heap' \in [Rec -> Proc \cup {Free}] /\ heap'[t] = x
        /\ \A q \in Rec : q # t => heap'[q] = heap[q]
        /\ BucketsTypeOK' /\ NodesOwnRecords'
        /\ \A q \in Rec : InTable(q)' <=> q \in T
        /\ \A q \in Rec : heap'[q] # Free <=> q \in T
        /\ ~InTable(t) /\ pare[t] = NULL
    BY <2>1, <2>2, <2>4, <2>5, InsertStep
  <2>7. ForestTypeOK' /\ Consistent'
    BY <2>2, TreeFacts DEF IInv, ForestTypeOK, Consistent, IsKid
  <2>8. /\ fr' \in Frame /\ fr'.pc = "load" /\ fr'.ret = "pare" /\ fr'.tgt = NULL
        /\ fr'.pare = t /\ fr'.chil = fr.chil /\ fr'.dead = fr.dead /\ fr'.pid = fr.pid
    <3>1. fr' \in Frame
      BY <2>2, TreeFacts, FrameUpdates DEF Ptr
    <3> QED BY <1>1, <3>1, <2>2, TreeFacts DEF Frame
  <2>9. \A q \in Rec : ~Loading(q)'
    BY <2>8, NullNotRec DEF Loading
  <2>10. FrameOK'
    BY <2>3, <2>8, <2>9 DEF FrameOK, Reading
  <2>11. \A q \in Rec : pare'[q] # NULL => q \in T /\ pare'[q] \in T /\ heap'[q].death_time = 0
    BY <2>2, <2>6, TreeFacts
  <2>12. \A q \in {fr'.pare, fr'.chil, fr'.dead} \ {NULL} : q \in T
    BY <2>8, TreeFacts, FrameFields DEF IInv, NoDangling, Ptr
  <2>13. T \in SUBSET Rec
    OBVIOUS
  <2> HIDE DEF T
  <2> QED BY <1>2, <2>6, <2>7, <2>8, <2>9, <2>10, <2>11, <2>12, <2>13, TreeStep
<1> QED BY <1>3, <1>4

\* A loaded record gets its node and, at once, a parent or an orphan.
LEMMA LinkStep ==
  ASSUME IInv, KernelTypeOK', EventsOrdered',
         NEW t \in Rec, Loading(t), NEW x \in Proc, x.pid = heap[t].pid, x.death_time = 0,
         heap' = [heap EXCEPT ![t] = x], proc_inse(t, heap[t].pid),
         NEW p \in Rec, NEW c \in Rec, pare[c] = NULL, atta_chil(p, c),
         p = t \/ InTable(p), c = t \/ (InTable(c) /\ ~Dead(c)),
         fr' \in Frame, fr' = Idle \/ (fr'.pc = "loop" /\ fr'.dead \in Rec),
         fr'.ret = "", fr'.tgt = NULL,
         \A q \in {fr'.pare, fr'.chil, fr'.dead} \ {NULL} : q \in Rec /\ InTable(q)
  PROVE  IInv'
<1> DEFINE T == {q \in Rec : InTable(q)} \cup {t}
<1>1. /\ heap' \in [Rec -> Proc \cup {Free}] /\ heap'[t] = x
      /\ \A q \in Rec : q # t => heap'[q] = heap[q]
      /\ BucketsTypeOK' /\ NodesOwnRecords'
      /\ \A q \in Rec : InTable(q)' <=> q \in T
      /\ \A q \in Rec : heap'[q] # Free <=> q \in T
      /\ ~InTable(t) /\ pare[t] = NULL
  BY InsertStep
<1>2. ForestTypeOK' /\ Consistent'
  BY TreeFacts, AttachConsistent DEF IInv
<1>3. \A q \in Rec : ~Loading(q)'
  BY NullNotRec DEF Loading
<1>4. FrameOK'
  BY <1>3, IdleFields DEF FrameOK, Reading
<1>5. heap'[c].death_time = 0
  <2>1. CASE c = t
    BY <1>1, <2>1
  <2>2. CASE c # t
    BY <1>1, <2>2, TreeFacts DEF Dead
  <2> QED BY <2>1, <2>2
<1>6. \A q \in Rec : pare'[q] # NULL => q \in T /\ pare'[q] \in T /\ heap'[q].death_time = 0
  <2>1. pare' = [pare EXCEPT ![c] = p] /\ p \in T /\ c \in T
    BY DEF atta_chil
  <2>2. pare'[c] = p /\ \A q \in Rec : q # c => pare'[q] = pare[q]
    BY <2>1, TreeFacts DEF ForestTypeOK
  <2>3. ASSUME NEW q \in Rec, q # c, pare'[q] # NULL
        PROVE  q \in T /\ pare'[q] \in T /\ heap'[q].death_time = 0
    <3>0. pare'[q] = pare[q]
      BY <2>2, <2>3
    <3>a. pare[t] = NULL /\ \A r \in Rec : r # t => heap'[r] = heap[r]
      BY <1>1
    <3>1. pare[q] # NULL /\ q # t /\ pare'[q] = pare[q]
      BY <3>0, <3>a, <2>3
    <3>2. heap'[q] = heap[q]
      BY <3>a, <3>1
    <3>3. InTable(q) /\ InTable(pare[q]) /\ heap[q].death_time = 0 /\ pare[q] \in Rec
      BY <3>1, TreeFacts
    <3> QED BY <3>1, <3>2, <3>3
  <2> QED BY <1>5, <2>1, <2>2, <2>3
<1>7. \A q \in {fr'.pare, fr'.chil, fr'.dead} \ {NULL} : q \in T
  OBVIOUS
<1>8. T \in SUBSET Rec
  OBVIOUS
<1> HIDE DEF T
<1> QED BY <1>1, <1>2, <1>3, <1>4, <1>6, <1>7, <1>8, TreeStep

LEMMA ForkChilStep ==
  ASSUME IInv, fork_chil
  PROVE  IInv'
<1>1. UNCHANGED <<task, clock, evq>> /\ fr.pc = "link" /\ fr.ret = "chil"
  BY DEF fork_chil
<1>2. KernelTypeOK' /\ EventsOrdered'
  BY <1>1, TypeParts DEF IInv, KernelTypeOK, EventsOrdered
<1>3. CASE inse_fail
  BY <1>1, <1>2, <1>3, FailedInsert
<1>4. CASE ~inse_fail
  <2>1. PICK t \in Rec : t = fr.tgt /\ Loading(t)
    BY <1>1 DEF IInv, FrameOK, Reading, Loading
  <2>2. /\ heap' = [Loaded EXCEPT ![t].birth_time = fr.ts]
        /\ atta_chil(fr.pare, t) /\ proc_inse(t, fr.pid) /\ fr' = Idle
    BY <1>4, <2>1 DEF fork_chil
  <2>3. /\ heap[t] \in Proc /\ heap[t].death_time = 0 /\ heap[t].pid = fr.pid
        /\ fr.pare \in Rec /\ fr.ts \in 0..MaxClock
    BY <1>1, <2>1, TreeFacts, FrameFields DEF IInv, Owners, FrameOK
  <2> DEFINE y == [heap[t] EXCEPT !.birth_ppid = -1]
             x == [y EXCEPT !.birth_time = fr.ts]
  <2>4. x \in Proc /\ x.pid = heap[t].pid /\ x.death_time = 0
    BY <2>3 DEF Proc
  <2>5. heap' = [heap EXCEPT ![t] = x]
    <3>1. Loaded = [heap EXCEPT ![t] = y] /\ Loaded[t] = y
      BY <2>1, TreeFacts DEF Loaded
    <3> HIDE DEF y
    <3> QED BY <2>2, <3>1, TreeFacts
  <2> HIDE DEF x
  <2>6. InTable(fr.pare) /\ ~InTable(t) /\ pare[t] = NULL
    <3>1. ~InTable(t)
      BY <2>1 DEF IInv, Owners
    <3> QED BY <3>1, <2>3, NullNotRec, TreeFacts DEF IInv, NoDangling
  <2>7. /\ fr' \in Frame /\ fr'.pc = "recv" /\ fr'.ret = "" /\ fr'.tgt = NULL
        /\ fr'.pare = NULL /\ fr'.chil = NULL /\ fr'.dead = NULL
    BY <2>2, IdleFields, IdleFrame
  <2>9. \A q \in {fr'.pare, fr'.chil, fr'.dead} \ {NULL} : q \in Rec /\ InTable(q)
    BY <2>7
  <2> QED BY <1>2, <2>1, <2>2, <2>3, <2>4, <2>5, <2>6, <2>7, <2>9, LinkStep
<1> QED BY <1>3, <1>4

LEMMA RePareLoadStep ==
  ASSUME IInv, re_pare_load
  PROVE  IInv'
<1>1. UNCHANGED <<task, clock, evq>> /\ fr.pc = "link" /\ fr.ret = "reaper"
  BY DEF re_pare_load
<1>2. KernelTypeOK' /\ EventsOrdered'
  BY <1>1, TypeParts DEF IInv, KernelTypeOK, EventsOrdered
<1>3. CASE inse_fail
  BY <1>1, <1>2, <1>3, FailedInsert
<1>4. CASE ~inse_fail
  <2>1. PICK t \in Rec : t = fr.tgt /\ Loading(t)
    BY <1>1 DEF IInv, FrameOK, Reading, Loading
  <2>2. /\ heap' = Loaded /\ proc_inse(t, heap[t].pid)
        /\ atta_chil(t, fr.chil) /\ fr' = Looping
    BY <1>4, <2>1 DEF re_pare_load
  <2>3. /\ heap[t] \in Proc /\ heap[t].death_time = 0
        /\ fr.chil \in Rec /\ fr.dead \in Rec /\ pare[fr.chil] = NULL /\ ~Dead(fr.chil)
    BY <1>1, <2>1, TreeFacts DEF IInv, Owners, FrameOK
  <2> DEFINE x == [heap[t] EXCEPT !.birth_ppid = -1]
  <2>4. x \in Proc /\ x.pid = heap[t].pid /\ x.death_time = 0
    BY <2>3 DEF Proc
  <2>5. heap' = [heap EXCEPT ![t] = x]
    BY <2>1, <2>2 DEF Loaded
  <2> HIDE DEF x
  <2>6. \A q \in {fr.pare, fr.chil, fr.dead} \ {NULL} : q \in Rec /\ InTable(q)
    BY TreeFacts, FrameFields DEF IInv, NoDangling, Ptr
  <2>7. InTable(fr.chil)
    BY <2>3, <2>6, NullNotRec
  <2>8. /\ fr' \in Frame /\ fr'.pc = "loop" /\ fr'.ret = "" /\ fr'.tgt = NULL
        /\ fr'.chil = NULL /\ fr'.dead = fr.dead /\ fr'.pare = fr.pare
    BY <2>2, TreeFacts, LoopFrame
  <2>9. \A q \in {fr'.pare, fr'.chil, fr'.dead} \ {NULL} : q \in Rec /\ InTable(q)
    BY <2>6, <2>8
  <2> QED BY <1>2, <2>1, <2>2, <2>3, <2>4, <2>5, <2>7, <2>8, <2>9, LinkStep
<1> QED BY <1>3, <1>4

-------------------------------------------------------------------------------
LEMMA ReceiveStep ==
  ASSUME IInv, sock_reci
  PROVE  IInv'
<1>1. fr = Idle /\ evq # <<>> /\ evq' = Tail(evq) /\ UNCHANGED <<task, clock>>
  BY DEF sock_reci
<1>2. KernelTypeOK /\ EventsOrdered
  BY TypeParts DEF IInv
<1>3. Head(evq) \in Event /\ KernelTypeOK' /\ EventsOrdered'
  BY <1>1, <1>2, Received
<1>4. PICK e \in Event : even_fork(e) \/ even_exec(e) \/ even_exit(e) \/ even_attr(e)
  BY <1>3 DEF sock_reci
<1> QED BY <1>1, <1>3, <1>4, ForkStep, ExecStep, ExitStep, AttrStep

LEMMA StepKeeps ==
  ASSUME IInv, [Next]_vars
  PROVE  IInv'
<1>1. CASE Step
  BY <1>1, ReceiveStep, ReadSteps, ForkPareStep, ForkLoadStep, ForkChilStep, ExitLoopStep,
     RePareStep, RePareLoadStep DEF Step
<1>2. CASE KernelNext /\ UNCHANGED tracker
  BY <1>2, KernelStep
<1>3. CASE UNCHANGED vars
  <2>1. UNCHANGED <<heap, buckets, kids, pare, fr, task, clock, evq>>
    BY <1>3 DEF vars
  <2>2. TypeOK' /\ EventsOrdered' /\ Consistent' /\ NodesOwnRecords'
    BY <2>1 DEF IInv, TypeOK, KernelTypeOK, EventsOrdered, Consistent, IsKid,
                NodesOwnRecords, proc_hash
  <2>3. Owners' /\ NoDangling' /\ DeadIsRoot'
    BY <2>1 DEF IInv, Owners, NoDangling, DeadIsRoot, Dead, InTable, InBucket, Loading
  <2>4. FrameOK'
    BY <2>1 DEF IInv, FrameOK, Reading, Dead, InTable, InBucket, Loading
  <2> QED BY <2>2, <2>3, <2>4 DEF IInv
<1>4. CASE sock_empty
  BY <1>3, <1>4 DEF sock_empty
<1> QED BY <1>1, <1>2, <1>3, <1>4 DEF Next

(* Every reachable state of the tracker satisfies the inductive invariant:   *)
(* it relates the table, the tree and the locals of the handler that runs.   *)
THEOREM Invariance == Spec => []IInv
<1>1. Init => IInv
  BY InitHolds
<1>2. IInv /\ [Next]_vars => IInv'
  BY StepKeeps
<1> QED BY <1>1, <1>2, PTL DEF Spec

(* Records, nodes, tree, handler and events keep their types.                *)
THEOREM TrackerTypes == Spec => []TypeOK
<1>1. IInv => TypeOK
  BY DEF IInv
<1> QED BY <1>1, Invariance, PTL

(* Every allocated record has exactly one owner, a node of the table or the  *)
(* handler loading it: no leak and no double free, also on every error path  *)
(* of the handlers (ser_proc_conn.c:170-190, 217-220).                       *)
THEOREM OneOwner == Spec => []Ownership
<1>1. IInv => Ownership
  BY OwnersOwnership DEF IInv
<1> QED BY <1>1, Invariance, PTL

(* Tree and handlers never hold a record that is not in the table.           *)
THEOREM NothingDangles == Spec => []NoDangling
<1>1. IInv => NoDangling
  BY DEF IInv
<1> QED BY <1>1, Invariance, PTL

(* The child lists and the parent pointers of the tracker's tree agree.      *)
THEOREM TreeConsistent == Spec => []Consistent
<1>1. IInv => Consistent
  BY DEF IInv
<1> QED BY <1>1, Invariance, PTL

(* A record whose death was recorded is in nobody's list (even_exit,         *)
(* re_pare), whatever events are lost and whatever pids are used again.      *)
THEOREM DeadAreRoots == Spec => []DeadIsRoot
<1>1. IInv => DeadIsRoot
  BY DEF IInv
<1> QED BY <1>1, Invariance, PTL

-------------------------------------------------------------------------------
\* Every step attaches a detached record, detaches a child, or leaves the tree alone.
LEMMA TreeMoves ==
  ASSUME IInv, [Next]_vars
  PROVE  [ForestNext]_forestVars
<1> USE DEF forestVars
<1>1. ForestTypeOK /\ Consistent /\ FrameOK /\ NoDangling
  BY TreeFacts DEF IInv
<1>2. ASSUME NEW p \in Rec, NEW c \in Rec, deta_chil(p, c)
      PROVE  ForestNext
  BY <1>2 DEF ForestNext
<1>3. ASSUME NEW p \in Rec, NEW c \in Rec, p # c, pare[c] = NULL, atta_chil(p, c)
      PROVE  ForestNext
  BY <1>3 DEF ForestNext, CanAttach
<1>4. ASSUME NEW e \in Event, fr = Idle, even_exit(e)
      PROVE  [ForestNext]_forestVars
  <2>1. CASE proc_look(e.pid) = NULL
    BY <1>4, <2>1 DEF even_exit
  <2>2. CASE proc_look(e.pid) # NULL
    <3>1. PICK d \in Rec : d = proc_look(e.pid)
      BY <2>2, Looking, EventFields
    <3>2. CASE pare[d] = NULL
      BY <1>4, <2>2, <3>1, <3>2 DEF even_exit
    <3>3. CASE pare[d] # NULL
      BY <1>2, <1>4, <2>2, <3>1, <3>3, TreeFacts DEF even_exit
    <3> QED BY <3>2, <3>3
  <2> QED BY <2>1, <2>2
<1>5. CASE sock_reci
  <2>1. Head(evq) \in Event /\ fr = Idle
    BY <1>5, Received, TypeParts DEF IInv, sock_reci
  <2>2. PICK e \in Event : even_fork(e) \/ even_exec(e) \/ even_exit(e) \/ even_attr(e)
    BY <1>5, <2>1 DEF sock_reci
  <2> QED BY <1>4, <2>1, <2>2 DEF even_fork, even_exec, even_attr
<1>6. CASE fork_chil
  <2>1. CASE inse_fail
    BY <2>1 DEF inse_fail
  <2>2. CASE ~inse_fail
    <3>1. atta_chil(fr.pare, fr.tgt) /\ fr.pc = "link" /\ fr.ret = "chil"
      BY <1>6, <2>2 DEF fork_chil
    <3>2. fr.tgt \in Rec /\ fr.pare \in Rec /\ Loading(fr.tgt)
      BY <1>1, <3>1 DEF FrameOK, Reading, Loading
    <3>3. ~InTable(fr.tgt) /\ InTable(fr.pare)
      BY <1>1, <3>2, NullNotRec DEF IInv, Owners, NoDangling
    <3> QED BY <1>3, <3>1, <3>2, <3>3, TreeFacts
  <2> QED BY <2>1, <2>2
<1>7. CASE re_pare_load
  <2>1. CASE inse_fail
    BY <2>1 DEF inse_fail
  <2>2. CASE ~inse_fail
    <3>1. atta_chil(fr.tgt, fr.chil) /\ fr.pc = "link" /\ fr.ret = "reaper"
      BY <1>7, <2>2 DEF re_pare_load
    <3>2. fr.tgt \in Rec /\ fr.chil \in Rec /\ Loading(fr.tgt) /\ pare[fr.chil] = NULL
      BY <1>1, <3>1 DEF FrameOK, Reading, Loading
    <3>3. ~InTable(fr.tgt) /\ InTable(fr.chil)
      BY <1>1, <3>2, NullNotRec DEF IInv, Owners, NoDangling
    <3> QED BY <1>3, <3>1, <3>2, <3>3
  <2> QED BY <2>1, <2>2
<1>8. CASE exit_loop
  <2>1. fr.dead \in Rec
    BY <1>1, <1>8 DEF exit_loop, FrameOK
  <2>2. CASE FirstKid(fr.dead) = NULL
    BY <1>8, <2>2 DEF exit_loop
  <2>3. CASE FirstKid(fr.dead) # NULL
    <3>1. deta_chil(fr.dead, FirstKid(fr.dead))
      BY <1>8, <2>3 DEF exit_loop
    <3>2. kids[fr.dead] \in Seq(Rec) /\ kids[fr.dead] # <<>>
      BY <1>1, <2>1, <2>3 DEF ForestTypeOK, FirstKid
    <3>3. FirstKid(fr.dead) \in Rec
      BY <3>2, EmptySeq, LenProperties, ElementOfSeq DEF FirstKid
    <3> QED BY <1>2, <2>1, <3>1, <3>3
  <2> QED BY <2>2, <2>3
<1>9. CASE re_pare
  <2>1. fr.chil \in Rec /\ pare[fr.chil] = NULL
    BY <1>1, <1>9 DEF re_pare, FrameOK
  <2>2. UNCHANGED <<kids, pare>>
          \/ \E p : CanAttach(p, fr.chil) /\ atta_chil(p, fr.chil)
    BY <1>9 DEF re_pare
  <2> QED BY <1>3, <2>1, <2>2 DEF CanAttach
<1>10. CASE prfs_stat \/ prfs_status \/ prfs_fd
  BY <1>10 DEF prfs_stat, prfs_status, prfs_fd
<1>11. CASE fork_pare \/ fork_load
  BY <1>11 DEF fork_pare, fork_load, inse_fail
<1>12. CASE sock_empty \/ UNCHANGED vars \/ (KernelNext /\ UNCHANGED tracker)
  BY <1>12 DEF sock_empty, vars, tracker
<1> QED BY <1>5, <1>6, <1>7, <1>8, <1>9, <1>10, <1>11, <1>12 DEF Next, Step

(* The handlers use the tree as it asks to be used: they attach only records *)
(* without a parent, never a record to itself, and detach only children. The *)
(* tracker's tree is therefore an instance of the abstract forest.           *)
THEOREM ForestImplemented == Spec => ForestSpec
<1>1. Init => ForestInit
  BY DEF Init
<1>2. IInv /\ [Next]_vars => [ForestNext]_forestVars
  BY TreeMoves
<1> QED BY <1>1, <1>2, Invariance, PTL DEF Spec, ForestSpec

-------------------------------------------------------------------------------
(* Pid and birth time as a key. That a new record's pair is new is a fact    *)
(* about times: the events still queued, and the fork event that is handled, *)
(* are later than every birth recorded, and a record that is loaded without  *)
(* a birth time has a pid the table does not have.                           *)
BirthsPast ==
  \A r \in Rec : InTable(r) =>
    /\ heap[r].birth_time <= clock
    /\ \A i \in 1..Len(evq) : heap[r].birth_time < evq[i].ts

Forking == fr.pc = "load" \/ fr.ret \in {"pare", "chil"}

ForkTime ==
  Forking =>
    /\ fr.ts # 0 /\ fr.ts <= clock
    /\ \A i \in 1..Len(evq) : fr.ts < evq[i].ts
    /\ \A r \in Rec : InTable(r) => heap[r].birth_time < fr.ts

LoadedIsNew ==
  \A t \in Rec : Loading(t) =>
    /\ heap[t].birth_time = 0
    /\ fr.ret \in {"pare", "reaper"} =>
         \A r \in Rec : InTable(r) => heap[r].pid # heap[t].pid

KeyInv == KeyUnique /\ BirthsPast /\ ForkTime /\ LoadedIsNew

\* Time goes on, and an event is either an old one or later than all the old ones.
QueueMoves ==
  /\ clock <= clock'
  /\ \A i \in 1..Len(evq') :
       clock < evq'[i].ts \/ \E j \in 1..Len(evq) : evq'[i] = evq[j]

LEMMA QueueTimes ==
  ASSUME KernelTypeOK
  PROVE  /\ clock \in Nat /\ Len(evq) \in Nat
         /\ \A i \in 1..Len(evq) : evq[i] \in Event /\ evq[i].ts \in Nat
<1>1. clock \in Nat /\ evq \in Seq(Event) /\ Len(evq) \in Nat
  BY KernelConstants, LenProperties DEF KernelTypeOK
<1>2. \A e \in Event : e.ts \in Nat
  BY EventFields, KernelConstants
<1> QED BY <1>1, <1>2, ElementOfSeq

LEMMA EmitMovesQueue ==
  ASSUME KernelTypeOK, NEW what, NEW pid, NEW arg, Emit(what, pid, arg)
  PROVE  QueueMoves
<1> DEFINE e == [what |-> what, pid |-> pid, arg |-> arg, ts |-> clock + 1]
<1>1. clock \in Nat /\ Len(evq) \in Nat /\ clock' = clock + 1 /\ e.ts = clock + 1
  BY QueueTimes DEF Emit
<1>2. CASE evq' = evq
  BY <1>1, <1>2 DEF QueueMoves
<1>3. CASE evq' = Append(evq, e)
  <2>1. evq \in Seq(Event \cup {e})
    BY QueueTimes DEF KernelTypeOK
  <2> HIDE DEF e
  <2>2. /\ Len(evq') = Len(evq) + 1 /\ evq'[Len(evq) + 1] = e
        /\ \A i \in 1..Len(evq) : evq'[i] = evq[i]
    BY <1>3, <2>1, AppendProperties
  <2>3. \A i \in 1..Len(evq') : i \in 1..Len(evq) \/ i = Len(evq) + 1
    BY <1>1, <2>2
  <2>4. \A i \in 1..Len(evq') :
          clock < evq'[i].ts \/ \E j \in 1..Len(evq) : evq'[i] = evq[j]
    BY <1>1, <2>2, <2>3
  <2> QED BY <1>1, <2>4 DEF QueueMoves
<1> QED BY <1>2, <1>3 DEF Emit

LEMMA KernelMovesQueue ==
  ASSUME KernelTypeOK, KernelNext
  PROVE  QueueMoves
<1>1. ASSUME UNCHANGED <<clock, evq>> PROVE QueueMoves
  BY <1>1, QueueTimes DEF QueueMoves
<1>2. ASSUME NEW p \in Pid, NEW c \in Pid, KFork(p, c) \/ KClone(p, c) PROVE QueueMoves
  BY <1>2, EmitMovesQueue DEF KFork, KClone
<1>3. ASSUME NEW p \in Pid, NEW a \in Attr, KAttr(p, a) PROVE QueueMoves
  BY <1>3, EmitMovesQueue DEF KAttr
<1>4. ASSUME NEW p \in Pid, KExec(p) \/ KExit(p) PROVE QueueMoves
  BY <1>4, EmitMovesQueue DEF KExec, KExit
<1>5. ASSUME NEW p \in Pid, KReap(p) PROVE QueueMoves
  BY <1>1, <1>5 DEF KReap
<1> QED BY <1>2, <1>3, <1>4, <1>5 DEF KernelNext

\* What lies before all events stays before them.
LEMMA PastStays ==
  ASSUME KernelTypeOK, KernelTypeOK', QueueMoves, NEW t \in Nat, t <= clock,
         \A i \in 1..Len(evq) : t < evq[i].ts
  PROVE  t <= clock' /\ \A i \in 1..Len(evq') : t < evq'[i].ts
<1>1. clock \in Nat /\ clock' \in Nat /\ \A i \in 1..Len(evq) : evq[i].ts \in Nat
  BY QueueTimes, KernelConstants DEF KernelTypeOK
<1>2. evq' \in Seq(Event) /\ \A e \in Event : e.ts \in Nat
  BY EventFields, KernelConstants DEF KernelTypeOK
<1>3. \A i \in 1..Len(evq') : evq'[i].ts \in Nat
  BY <1>2, ElementOfSeq
<1> QED BY <1>1, <1>3 DEF QueueMoves

\* A step that makes no node and changes no key of the table
LEMMA NoNewKey ==
  ASSUME IInv, KeyInv, KernelTypeOK', QueueMoves, UNCHANGED buckets,
         \A r \in Rec : InTable(r) => /\ heap'[r].pid = heap[r].pid
                                      /\ heap'[r].birth_time = heap[r].birth_time,
         Forking' => /\ fr'.ts \in Nat /\ fr'.ts # 0 /\ fr'.ts <= clock'
                     /\ \A i \in 1..Len(evq') : fr'.ts < evq'[i].ts
                     /\ \A r \in Rec : InTable(r) => heap[r].birth_time < fr'.ts,
         \A t \in Rec : Loading(t)' =>
           /\ heap'[t].birth_time = 0
           /\ fr'.ret \in {"pare", "reaper"} =>
                \A r \in Rec : InTable(r) => heap[r].pid # heap'[t].pid
  PROVE  KeyInv'
<1>1. \A r \in Rec : InTable(r)' <=> InTable(r)
  BY DEF InTable, InBucket
<1>2. \A r \in Rec : InTable(r) => heap[r].birth_time \in Nat
  BY TreeFacts, ProcFields, KernelConstants
<1>3. KeyUnique'
  BY <1>1 DEF KeyInv, KeyUnique
<1>4. BirthsPast'
  BY <1>1, <1>2, PastStays, TypeParts DEF IInv, KeyInv, BirthsPast
<1>5. ForkTime'
  BY <1>1 DEF ForkTime
<1>6. LoadedIsNew'
  BY <1>1 DEF LoadedIsNew
<1> QED BY <1>3, <1>4, <1>5, <1>6 DEF KeyInv

LEMMA ReceiveMovesQueue ==
  ASSUME KernelTypeOK, EventsOrdered, evq # <<>>, evq' = Tail(evq), UNCHANGED <<task, clock>>
  PROVE  QueueMoves
<1>1. clock \in Nat /\ \A i \in 1..Len(evq') : i+1 \in 1..Len(evq) /\ evq'[i] = evq[i+1]
  BY Received, QueueTimes
<1> QED BY <1>1 DEF QueueMoves

LEMMA QueueStays ==
  ASSUME KernelTypeOK, UNCHANGED <<task, clock, evq>>
  PROVE  KernelTypeOK' /\ QueueMoves
  BY QueueTimes DEF KernelTypeOK, QueueMoves

\* After the step no record is being loaded, and no child is waited for.
LEMMA NothingLoads ==
  ASSUME IInv, KeyInv, KernelTypeOK', QueueMoves, UNCHANGED buckets,
         \A r \in Rec : InTable(r) => /\ heap'[r].pid = heap[r].pid
                                      /\ heap'[r].birth_time = heap[r].birth_time,
         fr' = Idle \/ (fr'.pc # "load" /\ fr'.ret \in {"", "exec", "orphan"})
  PROVE  KeyInv'
<1>1. fr'.pc # "load" /\ fr'.ret \in {"", "exec", "orphan"}
  BY IdleFields
<1>2. ~Forking' /\ \A t \in Rec : ~Loading(t)'
  BY <1>1 DEF Forking, Loading
<1> QED BY <1>2, NoNewKey

\* proc_load: a child's record is loaded for its fork event, any other one
\* because the table has none of the pid.
LEMMA LoadKeys ==
  ASSUME IInv, KeyInv, KernelTypeOK', QueueMoves, UNCHANGED buckets,
         NEW pid \in Pid \cup {0}, NEW f \in Frame, NEW s \in {"pare", "chil", "reaper"},
         f.pc # "load" \/ s = "chil",
         s # "reaper" => /\ f.ts # 0 /\ f.ts <= clock'
                         /\ \A i \in 1..Len(evq') : f.ts < evq'[i].ts
                         /\ \A r \in Rec : InTable(r) => heap[r].birth_time < f.ts,
         s # "chil" => proc_look(pid) = NULL,
         proc_load(pid, f, s)
  PROVE  KeyInv'
<1>1. CASE fr' = Idle /\ UNCHANGED heap
  BY <1>1, NothingLoads
<1>2. ASSUME NEW r \in Rec \ Allocated, heap' = [heap EXCEPT ![r] = Blank(pid)],
             fr' = [f EXCEPT !.pc = "stat", !.tgt = r, !.ret = s]
      PROVE  KeyInv'
  <2>1. ~InTable(r) /\ heap[r] = Free
    BY <1>2 DEF Allocated, IInv, Owners
  <2>2. heap'[r] = Blank(pid) /\ \A q \in Rec : q # r => heap'[q] = heap[q]
    BY <1>2, TreeFacts
  <2>3. Blank(pid).pid = pid /\ Blank(pid).birth_time = 0
    BY DEF Blank
  <2>4. fr'.pc = "stat" /\ fr'.tgt = r /\ fr'.ret = s /\ fr'.ts = f.ts
    BY <1>2 DEF Frame
  <2>5. \A q \in Rec : InTable(q) => heap'[q] = heap[q]
    BY <2>1, <2>2
  <2>6. Forking' => s # "reaper"
    BY <2>4 DEF Forking
  <2>7. f.ts \in Nat
    <3>1. f.ts \in 0..MaxClock
      BY FrameFields
    <3> QED BY <3>1
  <2>8. ASSUME NEW t \in Rec, Loading(t)'
        PROVE  /\ heap'[t].birth_time = 0
               /\ fr'.ret \in {"pare", "reaper"} =>
                    \A q \in Rec : InTable(q) => heap[q].pid # heap'[t].pid
    <3>1. t = r
      BY <2>4, <2>8 DEF Loading
    <3>2. ASSUME s # "chil", NEW q \in Rec, InTable(q) PROVE heap[q].pid # pid
      BY <3>2, LookupAnswers, TreeFacts, NullNotRec, KernelConstants DEF IInv
    <3> QED BY <3>1, <3>2, <2>2, <2>3, <2>4
  <2> QED BY <2>4, <2>5, <2>6, <2>7, <2>8, NoNewKey
<1> QED BY <1>1, <1>2 DEF proc_load

LEMMA ReceiveKeys ==
  ASSUME IInv, KeyInv, sock_reci
  PROVE  KeyInv'
<1>1. fr = Idle /\ evq # <<>> /\ evq' = Tail(evq) /\ UNCHANGED <<task, clock>>
  BY DEF sock_reci
<1>2. KernelTypeOK /\ EventsOrdered
  BY TypeParts DEF IInv
<1>3. /\ Head(evq) \in Event /\ KernelTypeOK'
      /\ \A i \in 1..Len(evq') : i+1 \in 1..Len(evq) /\ evq'[i] = evq[i+1]
  BY <1>1, <1>2, Received
<1>4. QueueMoves
  BY <1>1, <1>2, ReceiveMovesQueue
<1>5. PICK e \in Event : /\ even_fork(e) \/ even_exec(e) \/ even_exit(e) \/ even_attr(e)
                         /\ e = Head(evq)
  BY <1>3 DEF sock_reci
<1>6. UNCHANGED buckets
  BY <1>5 DEF even_fork, even_exec, even_exit, even_attr
<1>7. 1 \in 1..Len(evq) /\ e = evq[1]
  <2>1. evq \in Seq(Event) /\ Len(evq) \in Nat /\ Len(evq) # 0
    BY <1>1, <1>2, EmptySeq, LenProperties DEF KernelTypeOK
  <2> QED BY <2>1, <1>5, HeadTailProperties
<1>8. /\ e.ts \in Nat /\ e.ts # 0 /\ e.ts <= clock'
      /\ \A i \in 1..Len(evq') : e.ts < evq'[i].ts
      /\ \A r \in Rec : InTable(r) => heap[r].birth_time < e.ts
  <2>1. e.ts \in Nat /\ e.ts # 0
    BY EventFields, KernelConstants
  <2>2. e.ts <= clock'
    BY <1>1, <1>2, <1>7 DEF EventsOrdered
  <2>3. ASSUME NEW i \in 1..Len(evq') PROVE e.ts < evq'[i].ts
    <3>1. i+1 \in 1..Len(evq) /\ evq'[i] = evq[i+1] /\ 1 < i+1
      BY <1>3
    <3> QED BY <3>1, <1>2, <1>7 DEF EventsOrdered
  <2>4. \A r \in Rec : InTable(r) => heap[r].birth_time < e.ts
    BY <1>7 DEF KeyInv, BirthsPast
  <2> QED BY <2>1, <2>2, <2>3, <2>4
<1>9. CASE even_fork(e)
  <2> DEFINE f == [Idle EXCEPT !.pid = e.pid, !.ts = e.ts]
  <2>1. /\ f \in Frame /\ f.ts = e.ts /\ f.pc = "recv" /\ f.ret = "" /\ f.tgt = NULL
        /\ e.arg \in Pid \cup {0}
    BY <1>9, EventFields, ForkFrame, IdleFields, IdleFrame DEF even_fork, Frame
  <2>2. CASE proc_look(e.arg) = NULL
    <3>1. proc_load(e.arg, f, "pare")
      BY <1>9, <2>2 DEF even_fork
    <3> HIDE DEF f
    <3> QED BY <1>3, <1>4, <1>6, <1>8, <2>1, <2>2, <3>1, LoadKeys
  <2>3. CASE proc_look(e.arg) # NULL
    <3>1. fr' = [f EXCEPT !.pc = "load", !.pare = proc_look(e.arg)] /\ UNCHANGED heap
      BY <1>9, <2>3 DEF even_fork
    <3> HIDE DEF f
    <3>2. fr'.ts = e.ts /\ fr'.ret = ""
      BY <2>1, <3>1 DEF Frame
    <3>3. \A t \in Rec : ~Loading(t)'
      BY <3>2 DEF Loading
    <3> QED BY <1>3, <1>4, <1>6, <1>8, <3>1, <3>2, <3>3, NoNewKey
  <2> QED BY <2>2, <2>3
<1>10. CASE even_exec(e)
  <2>1. UNCHANGED heap
    BY <1>10 DEF even_exec
  <2>2. fr' = Idle \/ fr' = [Idle EXCEPT !.pc = "stat", !.tgt = proc_look(e.pid), !.ret = "exec"]
    BY <1>10 DEF even_exec
  <2>3. fr' = Idle \/ (fr'.pc = "stat" /\ fr'.ret = "exec")
    BY <2>2, IdleFrame DEF Frame
  <2> QED BY <1>3, <1>4, <1>6, <2>1, <2>3, NothingLoads
<1>11. ASSUME NEW d \in Rec, InTable(d), NEW x, heap' = [heap EXCEPT ![d] = x],
              x.pid = heap[d].pid, x.birth_time = heap[d].birth_time
       PROVE  \A r \in Rec : InTable(r) => /\ heap'[r].pid = heap[r].pid
                                           /\ heap'[r].birth_time = heap[r].birth_time
  BY <1>11, TreeFacts
<1>12. CASE even_exit(e)
  <2>1. CASE proc_look(e.pid) = NULL
    <3>1. fr' = Idle /\ UNCHANGED heap
      BY <1>12, <2>1 DEF even_exit
    <3> QED BY <1>3, <1>4, <1>6, <3>1, NothingLoads
  <2>2. CASE proc_look(e.pid) # NULL
    <3>1. PICK d \in Rec : d = proc_look(e.pid) /\ InTable(d)
      BY <2>2, Looking, EventFields
    <3> DEFINE x == [heap[d] EXCEPT !.alive = FALSE, !.death_time = e.ts]
    <3>2. /\ heap' = [heap EXCEPT ![d] = x]
          /\ fr' = Idle \/ fr' = [Idle EXCEPT !.pc = "loop", !.dead = d]
      BY <1>12, <2>2, <3>1 DEF even_exit
    <3>3. x.pid = heap[d].pid /\ x.birth_time = heap[d].birth_time
      BY <3>1, TreeFacts DEF Proc
    <3>4. fr' = Idle \/ (fr'.pc = "loop" /\ fr'.ret = "")
      BY <3>2, IdleFields, IdleFrame DEF Frame
    <3> HIDE DEF x
    <3> QED BY <1>3, <1>4, <1>6, <1>11, <3>1, <3>2, <3>3, <3>4, NothingLoads
  <2> QED BY <2>1, <2>2
<1>13. CASE even_attr(e)
  <2>1. fr' = Idle
    BY <1>13 DEF even_attr
  <2>2. CASE proc_look(e.pid) = NULL
    BY <1>3, <1>4, <1>6, <1>13, <2>1, <2>2, NothingLoads DEF even_attr
  <2>3. CASE proc_look(e.pid) # NULL
    <3>1. PICK d \in Rec : d = proc_look(e.pid) /\ InTable(d)
      BY <2>3, Looking, EventFields
    <3> DEFINE x == [heap[d] EXCEPT !.attr[e.what] = e.arg]
    <3>2. heap' = [heap EXCEPT ![d] = x]
      BY <1>13, <2>3, <3>1 DEF even_attr
    <3>3. x.pid = heap[d].pid /\ x.birth_time = heap[d].birth_time
      BY <3>1, TreeFacts DEF Proc
    <3> HIDE DEF x
    <3> QED BY <1>3, <1>4, <1>6, <1>11, <2>1, <3>1, <3>2, <3>3, NothingLoads
  <2> QED BY <2>2, <2>3
<1> QED BY <1>5, <1>9, <1>10, <1>12, <1>13

\* The fork event that is handled stays in the past, and so do all births.
LEMMA ForkStays ==
  ASSUME IInv, KeyInv, KernelTypeOK', QueueMoves, Forking
  PROVE  /\ fr.ts \in Nat /\ fr.ts # 0 /\ fr.ts <= clock'
         /\ \A i \in 1..Len(evq') : fr.ts < evq'[i].ts
         /\ \A r \in Rec : InTable(r) => heap[r].birth_time < fr.ts
<1>1. fr.ts \in Nat
  <2>1. fr.ts \in 0..MaxClock
    BY FrameFields, TreeFacts
  <2> QED BY <2>1
<1>2. /\ fr.ts # 0 /\ fr.ts <= clock /\ \A i \in 1..Len(evq) : fr.ts < evq[i].ts
      /\ \A r \in Rec : InTable(r) => heap[r].birth_time < fr.ts
  BY DEF KeyInv, ForkTime
<1> QED BY <1>1, <1>2, PastStays, TypeParts DEF IInv

\* A read of /proc changes no key.
LEMMA RefreshKeys ==
  ASSUME IInv, KeyInv, KernelTypeOK', QueueMoves, UNCHANGED buckets,
         fr.pc \in {"stat", "status", "fd"}, NEW x \in Proc,
         heap' = [heap EXCEPT ![fr.tgt] = x],
         x.pid = heap[fr.tgt].pid, x.birth_time = heap[fr.tgt].birth_time,
         \/ fr' = Looked
         \/ \E pc \in {"status", "fd"} : fr' = [fr EXCEPT !.pc = pc]
  PROVE  KeyInv'
<1>1. fr.tgt \in Rec
  BY DEF IInv, FrameOK, Reading
<1>2. /\ heap'[fr.tgt] = x
      /\ \A r \in Rec : heap'[r].pid = heap[r].pid /\ heap'[r].birth_time = heap[r].birth_time
  BY <1>1, TreeFacts
<1>3. CASE fr' = Idle
  BY <1>2, <1>3, NothingLoads
<1>4. ASSUME NEW pc \in {"status", "fd", "link", "repare"}, fr' = [fr EXCEPT !.pc = pc]
      PROVE  KeyInv'
  <2>1. fr'.pc # "load" /\ fr'.ret = fr.ret /\ fr'.ts = fr.ts /\ fr'.tgt = fr.tgt
    BY <1>4, TreeFacts DEF Frame
  <2>2. Forking' => Forking /\ fr'.ts = fr.ts
    BY <2>1 DEF Forking
  <2>3. ASSUME NEW t \in Rec, Loading(t)'
        PROVE  /\ heap'[t].birth_time = 0
               /\ fr'.ret \in {"pare", "reaper"} =>
                    \A r \in Rec : InTable(r) => heap[r].pid # heap'[t].pid
    <3>1. Loading(t)
      BY <2>1, <2>3 DEF Loading
    <3> QED BY <3>1, <2>1, <1>2 DEF KeyInv, LoadedIsNew
  <2> QED BY <1>2, <2>2, <2>3, ForkStays, NoNewKey
<1>5. CASE fr' = Looked
  BY <1>3, <1>4, <1>5 DEF Looked
<1> QED BY <1>4, <1>5

LEMMA ReadKeys ==
  ASSUME IInv, KeyInv, prfs_stat \/ prfs_status \/ prfs_fd
  PROVE  KeyInv'
<1> DEFINE old == heap[fr.tgt]
           p == old.pid
<1>1. UNCHANGED <<buckets, task, clock, evq>> /\ fr.pc \in {"stat", "status", "fd"}
  BY DEF prfs_stat, prfs_status, prfs_fd
<1>2. KernelTypeOK /\ KernelTypeOK' /\ QueueMoves
  BY <1>1, QueueStays, TypeParts DEF IInv
<1>3. old \in Proc /\ fr.tgt \in Rec
  BY <1>1, TreeFacts DEF IInv, FrameOK, Reading
<1>4. ASSUME prfs_fail PROVE KeyInv'
  <2>1. \A r \in Rec : InTable(r) => ~Loading(r)
    BY DEF IInv, Owners
  <2>2. \A r \in Rec : InTable(r) => heap'[r] = heap[r]
    <3>1. CASE fr.ret \in {"pare", "chil", "reaper"}
      BY <1>4, <2>1, <3>1, TreeFacts DEF prfs_fail, Loading
    <3>2. CASE fr.ret \notin {"pare", "chil", "reaper"}
      BY <1>4, <3>2 DEF prfs_fail
    <3> QED BY <3>1, <3>2
  <2> QED BY <1>1, <1>2, <1>4, <2>2, NothingLoads DEF prfs_fail
<1>5. CASE prfs_stat
  <2>1. CASE prfs_fail
    BY <2>1, <1>4
  <2>2. CASE ~prfs_fail
    <3> DEFINE x == [old EXCEPT !.ppid = Ppid(p),
                                !.birth_ppid = IF @ = -1 THEN Ppid(p) ELSE @,
                                !.attr["comm"] = task[p].attr["comm"],
                                !.alive = TRUE]
    <3>1. heap' = [heap EXCEPT ![fr.tgt] = x] /\ fr' = [fr EXCEPT !.pc = "status"] /\ InProc(p)
      BY <1>5, <2>2 DEF prfs_stat
    <3>2. Ppid(p) \in Pid \cup {0} /\ task[p].attr["comm"] \in Val
      BY <1>2, <3>1, ProcFiles, KernelConstants
    <3>3. x \in Proc /\ x.pid = old.pid /\ x.birth_time = old.birth_time
      BY <3>2, <1>3 DEF Proc
    <3> HIDE DEF x
    <3> QED BY <3>1, <3>3, <1>1, <1>2, RefreshKeys
  <2> QED BY <2>1, <2>2
<1>6. CASE prfs_status
  <2>1. CASE prfs_fail
    BY <2>1, <1>4
  <2>2. CASE ~prfs_fail
    <3> DEFINE t == [a \in Attr |-> IF a = "comm" THEN old.attr[a] ELSE task[p].attr[a]]
               x == [old EXCEPT !.attr = t]
    <3>1. heap' = [heap EXCEPT ![fr.tgt] = x] /\ InProc(p)
      BY <1>6, <2>2 DEF prfs_status
    <3>2. fr' = [fr EXCEPT !.pc = "fd"] \/ fr' = Looked
      BY <1>6, <2>2 DEF prfs_status
    <3>3. t \in [Attr -> Val \cup {0}]
      BY <1>2, <1>3, <3>1, ProcFiles DEF Proc
    <3> HIDE DEF t
    <3>4. x \in Proc /\ x.pid = old.pid /\ x.birth_time = old.birth_time
      BY <3>3, <1>3 DEF Proc
    <3> HIDE DEF x
    <3> QED BY <3>1, <3>2, <3>4, <1>1, <1>2, RefreshKeys
  <2> QED BY <2>1, <2>2
<1>7. CASE prfs_fd
  <2>1. CASE prfs_fail
    BY <2>1, <1>4
  <2>2. CASE ~prfs_fail
    <3>1. heap' = [heap EXCEPT ![fr.tgt] = old] /\ fr' = Looked
      BY <1>7, <2>2, TreeFacts DEF prfs_fd
    <3> HIDE DEF old
    <3> QED BY <3>1, <1>1, <1>2, <1>3, RefreshKeys DEF old
  <2> QED BY <2>1, <2>2
<1> QED BY <1>5, <1>6, <1>7

\* A record that gets no node is freed, and no key changes.
LEMMA FailedInsertKeys ==
  ASSUME IInv, KeyInv, KernelTypeOK', QueueMoves, inse_fail, Loading(fr.tgt)
  PROVE  KeyInv'
<1>1. \A r \in Rec : InTable(r) => heap'[r] = heap[r]
  BY TreeFacts DEF IInv, Owners, inse_fail
<1> QED BY <1>1, NothingLoads DEF inse_fail

\* A record that is loaded because the table had none of its pid gets its node.
LEMMA InsertKeys ==
  ASSUME IInv, KeyInv, KernelTypeOK', QueueMoves, NEW t \in Rec, Loading(t),
         NEW x \in Proc, x.pid = heap[t].pid, heap' = [heap EXCEPT ![t] = x],
         proc_inse(t, heap[t].pid),
         \A r \in Rec : InTable(r) => heap[r].pid # x.pid \/ heap[r].birth_time # x.birth_time,
         x.birth_time <= clock, \A i \in 1..Len(evq) : x.birth_time < evq[i].ts,
         \A r \in Rec : ~Loading(r)',
         Forking' => Forking /\ fr'.ts = fr.ts /\ x.birth_time < fr.ts
  PROVE  KeyInv'
<1>1. /\ heap'[t] = x /\ \A q \in Rec : q # t => heap'[q] = heap[q]
      /\ \A q \in Rec : InTable(q)' <=> InTable(q) \/ q = t
      /\ ~InTable(t)
  BY InsertStep
<1>2. x.birth_time \in Nat
  <2>1. x.birth_time \in 0..MaxClock
    BY ProcFields
  <2> QED BY <2>1
<1>3. \A r \in Rec : InTable(r) => heap[r].birth_time \in Nat
  BY TreeFacts, ProcFields, KernelConstants
<1>4. KeyUnique'
  BY <1>1 DEF KeyInv, KeyUnique
<1>5. BirthsPast'
  <2>1. ASSUME NEW r \in Rec, InTable(r)'
        PROVE  /\ heap'[r].birth_time <= clock'
               /\ \A i \in 1..Len(evq') : heap'[r].birth_time < evq'[i].ts
    <3>1. CASE r = t
      BY <3>1, <1>1, <1>2, PastStays, TypeParts DEF IInv
    <3>2. CASE r # t
      BY <3>2, <2>1, <1>1, <1>3, PastStays, TypeParts DEF IInv, KeyInv, BirthsPast
    <3> QED BY <3>1, <3>2
  <2> QED BY <2>1 DEF BirthsPast
<1>6. ForkTime'
  BY <1>1, ForkStays DEF ForkTime
<1>7. LoadedIsNew'
  BY DEF LoadedIsNew
<1> QED BY <1>4, <1>5, <1>6, <1>7 DEF KeyInv

\* The record the handler links is being loaded, and has no birth time yet.
LEMMA Linking ==
  ASSUME IInv, KeyInv, fr.pc = "link"
  PROVE  /\ fr.tgt \in Rec /\ Loading(fr.tgt) /\ heap[fr.tgt] \in Proc
         /\ heap[fr.tgt].birth_time = 0 /\ fr \in Frame
<1>1. fr.tgt \in Rec /\ Loading(fr.tgt) /\ heap[fr.tgt] # Free
  BY DEF IInv, FrameOK, Reading, Loading
<1> QED BY <1>1, TreeFacts DEF KeyInv, LoadedIsNew

LEMMA LinkKeys ==
  ASSUME IInv, KeyInv, fork_pare \/ fork_chil \/ re_pare_load
  PROVE  KeyInv'
<1>1. UNCHANGED <<task, clock, evq>> /\ fr.pc = "link"
  BY DEF fork_pare, fork_chil, re_pare_load
<1>2. KernelTypeOK /\ KernelTypeOK' /\ QueueMoves
  BY <1>1, QueueStays, TypeParts DEF IInv
<1>3. PICK t \in Rec : /\ t = fr.tgt /\ Loading(t) /\ heap[t] \in Proc
                       /\ heap[t].birth_time = 0 /\ fr \in Frame
  BY <1>1, Linking
<1>4. CASE inse_fail
  BY <1>2, <1>3, <1>4, FailedInsertKeys
<1> DEFINE y == [heap[t] EXCEPT !.birth_ppid = -1]
<1>5. y \in Proc /\ y.pid = heap[t].pid /\ y.birth_time = 0
  BY <1>3 DEF Proc
<1>6. Loaded = [heap EXCEPT ![t] = y] /\ Loaded[t] = y
  BY <1>3, TreeFacts DEF Loaded
<1>7. \A i \in 1..Len(evq) : 0 < evq[i].ts
  <2>1. \A e \in Event : e.ts \in Nat /\ e.ts # 0
    BY EventFields, KernelConstants
  <2> QED BY <2>1, <1>2, QueueTimes
<1>8. 0 <= clock
  BY <1>2, QueueTimes
<1> HIDE DEF y
<1>9. ASSUME fr.ret \in {"pare", "reaper"}
      PROVE  \A r \in Rec : InTable(r) => heap[r].pid # y.pid
  BY <1>3, <1>5, <1>9 DEF KeyInv, LoadedIsNew
<1>10. CASE fork_pare /\ ~inse_fail
  <2>1. /\ heap' = [heap EXCEPT ![t] = y] /\ proc_inse(t, heap[t].pid)
        /\ fr' = [fr EXCEPT !.pc = "load", !.pare = t, !.tgt = NULL] /\ fr.ret = "pare"
    BY <1>3, <1>6, <1>10 DEF fork_pare
  <2>2. fr'.tgt = NULL /\ fr'.ts = fr.ts
    BY <1>3, <2>1 DEF Frame
  <2>3. \A r \in Rec : ~Loading(r)'
    BY <2>2, NullNotRec DEF Loading
  <2>4. Forking /\ 0 < fr.ts
    <3>1. Forking
      BY <2>1 DEF Forking
    <3> QED BY <3>1, <1>2, ForkStays
  <2>5. \A r \in Rec : InTable(r) => heap[r].pid # y.pid \/ heap[r].birth_time # y.birth_time
    BY <1>9, <2>1
  <2>6. y.birth_time <= clock /\ \A i \in 1..Len(evq) : y.birth_time < evq[i].ts
    BY <1>5, <1>7, <1>8
  <2>7. Forking' => Forking /\ fr'.ts = fr.ts /\ y.birth_time < fr.ts
    BY <1>5, <2>2, <2>4
  <2> QED BY <1>2, <1>3, <1>5, <2>1, <2>3, <2>5, <2>6, <2>7, InsertKeys
<1>11. CASE re_pare_load /\ ~inse_fail
  <2>1. /\ heap' = [heap EXCEPT ![t] = y] /\ proc_inse(t, heap[t].pid)
        /\ fr' = Looping /\ fr.ret = "reaper"
    BY <1>3, <1>6, <1>11 DEF re_pare_load
  <2>2. fr'.pc = "loop" /\ fr'.ret = ""
    BY <1>3, <2>1, LoopFrame
  <2>3. ~Forking' /\ \A r \in Rec : ~Loading(r)'
    BY <2>2 DEF Forking, Loading
  <2> QED BY <1>2, <1>3, <1>5, <1>7, <1>8, <1>9, <2>1, <2>3, InsertKeys
<1>12. CASE fork_chil /\ ~inse_fail
  <2> DEFINE x == [y EXCEPT !.birth_time = fr.ts]
  <2>1. /\ heap' = [Loaded EXCEPT ![t].birth_time = fr.ts] /\ proc_inse(t, fr.pid)
        /\ fr' = Idle /\ fr.ret = "chil"
    BY <1>3, <1>12 DEF fork_chil
  <2>2. heap' = [heap EXCEPT ![t] = x]
    BY <1>3, <1>6, <2>1, TreeFacts
  <2>3. x \in Proc /\ x.pid = heap[t].pid /\ x.birth_time = fr.ts /\ heap[t].pid = fr.pid
    BY <1>3, <1>5, <2>1, FrameFields DEF Proc, IInv, FrameOK
  <2>4. /\ fr.ts \in Nat /\ fr.ts <= clock
        /\ \A i \in 1..Len(evq) : fr.ts < evq[i].ts
        /\ \A r \in Rec : InTable(r) => heap[r].birth_time < fr.ts
    <3>1. Forking
      BY <2>1 DEF Forking
    <3> QED BY <3>1, <1>1, <1>2, ForkStays
  <2>5. ~Forking' /\ \A r \in Rec : ~Loading(r)'
    BY <2>1, IdleFields DEF Forking, Loading
  <2>6. \A r \in Rec : InTable(r) => heap[r].birth_time # x.birth_time
    BY <2>3, <2>4, TreeFacts, ProcFields, KernelConstants
  <2>7. proc_inse(t, heap[t].pid)
    BY <2>1, <2>3 DEF proc_inse
  <2> HIDE DEF x
  <2> QED BY <1>2, <1>3, <2>2, <2>3, <2>4, <2>5, <2>6, <2>7, InsertKeys
<1> QED BY <1>4, <1>10, <1>11, <1>12

LEMMA OtherKeys ==
  ASSUME IInv, KeyInv, fork_load \/ exit_loop \/ re_pare
  PROVE  KeyInv'
<1>1. UNCHANGED <<buckets, task, clock, evq>> /\ fr \in Frame
  BY TreeFacts DEF fork_load, exit_loop, re_pare
<1>2. KernelTypeOK' /\ QueueMoves
  BY <1>1, QueueStays, TypeParts DEF IInv
<1>3. CASE fork_load
  <2>1. proc_load(fr.pid, fr, "chil") /\ fr.pid \in Pid /\ Forking
    BY <1>3 DEF fork_load, IInv, FrameOK, Forking
  <2> QED BY <1>1, <1>2, <2>1, ForkStays, LoadKeys
<1>4. CASE exit_loop
  <2>1. UNCHANGED heap
    BY <1>4 DEF exit_loop
  <2>2. fr' = Idle \/ \E c : fr' = [fr EXCEPT !.pc = "stat", !.tgt = c, !.chil = c, !.ret = "orphan"]
    BY <1>4 DEF exit_loop
  <2>3. fr' = Idle \/ (fr'.pc = "stat" /\ fr'.ret = "orphan")
    BY <1>1, <2>2 DEF Frame
  <2> QED BY <1>1, <1>2, <2>1, <2>3, NothingLoads
<1>5. CASE re_pare
  <2>1. fr.pc = "repare" /\ fr.ret = "orphan" /\ fr.chil \in Rec /\ InTable(fr.chil)
    BY <1>5, NullNotRec DEF re_pare, IInv, FrameOK, NoDangling
  <2>2. heap[fr.chil].ppid \in Pid \cup {0}
    BY <2>1, TreeFacts, ProcFields
  <2>3. CASE proc_look(heap[fr.chil].ppid) = NULL
    <3>1. proc_load(heap[fr.chil].ppid, fr, "reaper")
      BY <1>5, <2>3 DEF re_pare
    <3> QED BY <1>1, <1>2, <2>1, <2>2, <2>3, <3>1, LoadKeys
  <2>4. CASE proc_look(heap[fr.chil].ppid) # NULL
    <3>1. UNCHANGED heap /\ (fr' = Idle \/ fr' = Looping)
      BY <1>5, <2>4 DEF re_pare
    <3>2. fr' = Idle \/ (fr'.pc = "loop" /\ fr'.ret = "")
      BY <1>1, <3>1, LoopFrame
    <3> QED BY <1>1, <1>2, <3>1, <3>2, NothingLoads
  <2> QED BY <2>3, <2>4
<1> QED BY <1>3, <1>4, <1>5

LEMMA KeyInvKept ==
  ASSUME IInv, KeyInv, [Next]_vars
  PROVE  KeyInv'
<1>1. ASSUME UNCHANGED tracker, KernelTypeOK', QueueMoves PROVE KeyInv'
  <2>1. UNCHANGED <<heap, buckets, fr>>
    BY <1>1 DEF tracker
  <2>2. Forking' => Forking
    BY <2>1 DEF Forking
  <2>3. \A t \in Rec : Loading(t)' => Loading(t)
    BY <2>1 DEF Loading
  <2> QED BY <1>1, <2>1, <2>2, <2>3, ForkStays, NoNewKey DEF KeyInv, LoadedIsNew
<1>2. CASE Step
  BY <1>2, ReceiveKeys, ReadKeys, LinkKeys, OtherKeys DEF Step
<1>3. CASE KernelNext /\ UNCHANGED tracker
  BY <1>1, <1>3, KernelMovesQueue, KernelKeepsTypes, TypeParts DEF IInv
<1>4. CASE UNCHANGED vars
  BY <1>1, <1>4, QueueStays, TypeParts DEF vars, tracker, IInv
<1>5. CASE sock_empty
  BY <1>4, <1>5 DEF sock_empty
<1> QED BY <1>2, <1>3, <1>4, <1>5 DEF Next

LEMMA KeysAtFirst == Init => KeyInv
<1> SUFFICES ASSUME Init PROVE KeyInv
  OBVIOUS
<1>1. fr = Idle /\ \A h \in Bucket : buckets[h] = <<>>
  BY DEF Init, TableInit, proc_tabl_init
<1>2. \A r : ~InTable(r)
  BY <1>1 DEF InTable, InBucket
<1>3. ~Forking /\ \A r \in Rec : ~Loading(r)
  BY <1>1, IdleFields DEF Forking, Loading
<1> QED BY <1>2, <1>3 DEF KeyInv, KeyUnique, BirthsPast, ForkTime, LoadedIsNew

(* Whatever pids are used again, whatever events are lost and wherever memory *)
(* runs out, no two records of the table have the same pid and birth time:    *)
(* the pair docs/d13.md finds a dead process by never names two records       *)
(* (even_fork, re_pare and proc_inse).                                        *)
THEOREM KeysUnique == Spec => []KeyUnique
<1>1. Init => KeyInv
  BY KeysAtFirst
<1>2. IInv /\ KeyInv /\ [Next]_vars => KeyInv'
  BY KeyInvKept
<1>3. KeyInv => KeyUnique
  BY DEF KeyInv
<1> QED BY <1>1, <1>2, <1>3, Invariance, PTL DEF Spec

-------------------------------------------------------------------------------
(* The tree has no cycle because a parent is always older than its children, *)
(* whatever events are lost: what the handlers hold between two reads of     *)
(* /proc, a record's ppid and the events in the queue name an older process, *)
(* and the age of a process does not change once pids are used only once.    *)
TreeAged(age) ==
  \A r \in Rec :
    /\ heap[r] # Free /\ heap[r].ppid # 0 => Older(age, heap[r].ppid, heap[r].pid)
    /\ InTable(r) => heap[r].pid # 0
    /\ pare[r] # NULL => Older(age, heap[pare[r]].pid, heap[r].pid)

FrameAged(age) ==
  /\ fr.pc \in {"status", "fd", "link"} => heap[fr.tgt].pid # 0
  /\ fr.pc # "load" /\ fr.ret = "pare" /\ heap[fr.tgt].pid # 0 =>
       Older(age, heap[fr.tgt].pid, fr.pid)
  /\ fr.pc = "load" \/ fr.ret = "chil" => Older(age, heap[fr.pare].pid, fr.pid)
  /\ fr.ret = "reaper" => heap[fr.tgt].pid = heap[fr.chil].ppid

Aged(age) == TaskAged(age) /\ QueueAged(age) /\ TreeAged(age) /\ FrameAged(age)

AgeInv == \E age \in [Pid -> Nat] : Aged(age)

\* No age, no cycle: of the records of a cycle one would be the oldest.
LEMMA AgeAcyclic ==
  ASSUME IInv, NEW age \in [Pid -> Nat], TreeAged(age)
  PROVE  Acyclic
<1> SUFFICES ASSUME NEW S \in SUBSET Rec, \A r \in S : pare[r] \in S, S # {}
             PROVE  FALSE
  BY DEF Acyclic
<1> DEFINE ages == {age[heap[r].pid] : r \in S}
<1>1. ASSUME NEW r \in S
      PROVE  Older(age, heap[pare[r]].pid, heap[r].pid)
  BY NullNotRec DEF TreeAged
<1>2. ages \subseteq Nat /\ ages # {}
  BY <1>1 DEF Older
<1>3. PICK m \in ages : \A n \in ages : m <= n
  <2> HIDE DEF ages
  <2> QED BY <1>2, MinExists
<1>4. PICK r \in S : m = age[heap[r].pid]
  BY <1>3
<1>5. age[heap[pare[r]].pid] \in ages
  BY <1>4
<1>6. /\ age[heap[pare[r]].pid] < age[heap[r].pid]
      /\ age[heap[pare[r]].pid] \in Nat /\ age[heap[r].pid] \in Nat
  BY <1>1, <1>4 DEF Older
<1> QED BY <1>3, <1>4, <1>5, <1>6

LEMMA AgeStarts == Init => AgeInv
<1> SUFFICES ASSUME Init PROVE AgeInv
  OBVIOUS
<1> DEFINE age == [p \in Pid |-> IF p = InitPid THEN 1 ELSE IF p \in Boot THEN 2 ELSE 0]
<1>1. age \in [Pid -> Nat] /\ InitPid \in Pid /\ InitPid \in Boot /\ 0 \notin Pid
  BY KernelConstants
<1>2. /\ fr = Idle /\ evq = <<>> /\ \A h \in Bucket : buckets[h] = <<>>
      /\ heap = [r \in Rec |-> Free] /\ pare = [c \in Rec |-> NULL]
  BY DEF Init, TableInit, proc_tabl_init, KernelInit, ForestInit
<1>3. \A p \in Pid : /\ task[p].st = "new" <=> p \notin Boot
                     /\ task[p].tgid = p
                     /\ task[p].parent # 0 => p \in Boot \ {InitPid} /\ task[p].parent = InitPid
  BY DEF Init, KernelInit
<1>4. /\ age[InitPid] = 1
      /\ \A p \in Pid : /\ age[p] = 0 <=> p \notin Boot
                        /\ p \in Boot \ {InitPid} => Older(age, InitPid, p)
  BY <1>1, KernelConstants DEF Older
<1> HIDE DEF age
<1>5. TaskAged(age)
  BY <1>1, <1>3, <1>4 DEF TaskAged
<1>6. QueueAged(age)
  BY <1>2 DEF QueueAged
<1>7. \A r : ~InTable(r)
  <2>1. \A h \in Bucket : DOMAIN buckets[h] = {}
    BY <1>2
  <2> QED BY <2>1 DEF InTable, InBucket
<1>8. TreeAged(age)
  BY <1>2, <1>7 DEF TreeAged
<1>9. FrameAged(age)
  BY <1>2, IdleFields DEF FrameAged
<1> QED BY <1>1, <1>5, <1>6, <1>8, <1>9 DEF AgeInv, Aged

LEMMA LookedUp ==
  ASSUME IInv, NEW pid \in Pid \cup {0}, proc_look(pid) # NULL
  PROVE  /\ proc_look(pid) \in Rec /\ InTable(proc_look(pid))
         /\ heap[proc_look(pid)].pid = pid
<1>1. pid \in Nat
  BY KernelConstants
<1> QED BY <1>1, LookupAnswers, TypeParts DEF IInv

\* A step that leaves the tree alone or takes children out of it
LEMMA TreeAges ==
  ASSUME IInv, NEW age, TreeAged(age),
         \A r \in Rec : heap'[r] # Free /\ heap'[r].ppid # 0 =>
           Older(age, heap'[r].ppid, heap'[r].pid),
         \A r \in Rec : InTable(r) => heap'[r].pid = heap[r].pid,
         \A r \in Rec : InTable(r)' => InTable(r) \/ heap'[r].pid # 0,
         \A r \in Rec : pare'[r] # NULL =>
           pare'[r] = pare[r] \/ Older(age, heap'[pare'[r]].pid, heap'[r].pid)
  PROVE  TreeAged(age)'
<1>1. ASSUME NEW r \in Rec, InTable(r)' PROVE heap'[r].pid # 0
  BY <1>1 DEF TreeAged
<1>2. ASSUME NEW r \in Rec, pare'[r] # NULL
      PROVE  Older(age, heap'[pare'[r]].pid, heap'[r].pid)
  <2>1. CASE pare'[r] = pare[r]
    <3>1. PICK p \in Rec : p = pare[r] /\ InTable(p) /\ InTable(r)
      BY <1>2, <2>1, TreeFacts
    <3>2. Older(age, heap[p].pid, heap[r].pid)
      BY <1>2, <2>1, <3>1 DEF TreeAged
    <3>3. heap'[p].pid = heap[p].pid /\ heap'[r].pid = heap[r].pid
      BY <3>1
    <3> QED BY <2>1, <3>1, <3>2, <3>3
  <2>2. CASE pare'[r] # pare[r]
    BY <1>2, <2>2
  <2> QED BY <2>1, <2>2
<1> QED BY <1>1, <1>2 DEF TreeAged

\* The same, when no record gets another pid or ppid
LEMMA TreeAgesOn ==
  ASSUME IInv, NEW age, TreeAged(age), UNCHANGED buckets,
         \A r \in Rec : heap'[r] # Free =>
           /\ heap[r] # Free
           /\ heap'[r].pid = heap[r].pid /\ heap'[r].ppid = heap[r].ppid,
         \A r \in Rec : InTable(r) => heap'[r] # Free,
         \A r \in Rec : pare'[r] # NULL => pare'[r] = pare[r]
  PROVE  TreeAged(age)'
<1>1. \A r \in Rec : InTable(r)' <=> InTable(r)
  BY DEF InTable, InBucket
<1>2. ASSUME NEW r \in Rec, heap'[r] # Free, heap'[r].ppid # 0
      PROVE  Older(age, heap'[r].ppid, heap'[r].pid)
  BY <1>2 DEF TreeAged
<1> QED BY <1>1, <1>2, TreeAges

\* After the step the handler holds nothing an age matters for.
LEMMA FrameAgesOff ==
  ASSUME NEW age,
         \/ fr' = Idle
         \/ fr'.pc = "loop" /\ fr'.ret = ""
         \/ fr'.pc = "stat" /\ fr'.ret \in {"exec", "orphan"}
  PROVE  FrameAged(age)'
  BY IdleFields DEF FrameAged

LEMMA LoadAges ==
  ASSUME IInv, NEW age, TreeAged(age), UNCHANGED <<buckets, pare>>,
         NEW pid \in Pid \cup {0}, NEW f \in Frame, NEW s \in {"pare", "chil", "reaper"},
         s = "pare" /\ pid # 0 => Older(age, pid, f.pid),
         s = "chil" => f.pare \in Rec /\ InTable(f.pare) /\ Older(age, heap[f.pare].pid, f.pid),
         s = "reaper" => f.chil \in Rec /\ InTable(f.chil) /\ pid = heap[f.chil].ppid,
         proc_load(pid, f, s)
  PROVE  TreeAged(age)' /\ FrameAged(age)'
<1>1. CASE fr' = Idle /\ UNCHANGED heap
  <2>1. TreeAged(age)'
    BY <1>1, TreeAgesOn, TreeFacts
  <2> QED BY <1>1, <2>1, FrameAgesOff
<1>2. ASSUME NEW r \in Rec \ Allocated, heap' = [heap EXCEPT ![r] = Blank(pid)],
             fr' = [f EXCEPT !.pc = "stat", !.tgt = r, !.ret = s]
      PROVE  TreeAged(age)' /\ FrameAged(age)'
  <2>1. ~InTable(r) /\ heap[r] = Free
    BY <1>2 DEF Allocated, IInv, Owners
  <2>2. heap'[r] = Blank(pid) /\ \A q \in Rec : q # r => heap'[q] = heap[q]
    BY <1>2, TreeFacts
  <2>3. Blank(pid).pid = pid /\ Blank(pid).ppid = 0
    BY DEF Blank
  <2>4. /\ fr'.pc = "stat" /\ fr'.tgt = r /\ fr'.ret = s /\ fr'.pid = f.pid
        /\ fr'.pare = f.pare /\ fr'.chil = f.chil
    BY <1>2 DEF Frame
  <2>5. \A q \in Rec : InTable(q) => heap'[q] = heap[q]
    BY <2>1, <2>2
  <2>6. TreeAged(age)'
    <3>1. \A q \in Rec : InTable(q)' <=> InTable(q)
      BY DEF InTable, InBucket
    <3>2. \A q \in Rec : heap'[q] # Free /\ heap'[q].ppid # 0 =>
            Older(age, heap'[q].ppid, heap'[q].pid)
      BY <2>2, <2>3 DEF TreeAged
    <3> QED BY <2>5, <3>1, <3>2, TreeAges
  <2>7. FrameAged(age)'
    <3>1. s = "pare" /\ heap'[r].pid # 0 => Older(age, heap'[r].pid, f.pid)
      BY <2>2, <2>3
    <3>2. s = "chil" => Older(age, heap'[f.pare].pid, f.pid)
      BY <2>5
    <3>3. s = "reaper" => heap'[r].pid = heap'[f.chil].ppid
      BY <2>2, <2>3, <2>5
    <3> QED BY <2>4, <3>1, <3>2, <3>3 DEF FrameAged
  <2> QED BY <2>6, <2>7
<1> QED BY <1>1, <1>2 DEF proc_load

\* An event names an older process as the parent of the new one.
LEMMA ReceiveAges ==
  ASSUME IInv, NEW age, QueueAged(age), TreeAged(age), sock_reci
  PROVE  QueueAged(age)' /\ TreeAged(age)' /\ FrameAged(age)'
<1>1. fr = Idle /\ evq # <<>> /\ evq' = Tail(evq) /\ UNCHANGED <<task, clock>>
  BY DEF sock_reci
<1>2. KernelTypeOK /\ EventsOrdered
  BY TypeParts DEF IInv
<1>3. /\ Head(evq) \in Event
      /\ \A i \in 1..Len(evq') : i+1 \in 1..Len(evq) /\ evq'[i] = evq[i+1]
  BY <1>1, <1>2, Received
<1>4. QueueAged(age)'
  BY <1>3 DEF QueueAged
<1>5. PICK e \in Event : /\ even_fork(e) \/ even_exec(e) \/ even_exit(e) \/ even_attr(e)
                         /\ e = Head(evq)
  BY <1>3 DEF sock_reci
<1>6. UNCHANGED buckets
  BY <1>5 DEF even_fork, even_exec, even_exit, even_attr
<1>7. e.what = "fork" /\ e.arg # 0 => Older(age, e.arg, e.pid)
  <2>1. evq \in Seq(Event) /\ Len(evq) \in Nat /\ Len(evq) # 0
    BY <1>1, <1>2, EmptySeq, LenProperties DEF KernelTypeOK
  <2>2. 1 \in 1..Len(evq) /\ e = evq[1]
    BY <2>1, <1>5, HeadTailProperties
  <2> QED BY <2>2 DEF QueueAged
<1>8. CASE even_fork(e)
  <2> DEFINE f == [Idle EXCEPT !.pid = e.pid, !.ts = e.ts]
  <2>1. /\ f \in Frame /\ f.pid = e.pid /\ f.pc = "recv" /\ f.ret = ""
        /\ e.arg \in Pid \cup {0} /\ e.what = "fork" /\ UNCHANGED pare
    BY <1>8, EventFields, ForkFrame, IdleFields, IdleFrame DEF even_fork, Frame
  <2>2. CASE proc_look(e.arg) = NULL
    <3>1. proc_load(e.arg, f, "pare")
      BY <1>8, <2>2 DEF even_fork
    <3> HIDE DEF f
    <3> QED BY <1>4, <1>6, <1>7, <2>1, <3>1, LoadAges
  <2>3. CASE proc_look(e.arg) # NULL
    <3>1. PICK p \in Rec : p = proc_look(e.arg) /\ InTable(p) /\ heap[p].pid = e.arg
      BY <2>1, <2>3, LookedUp
    <3>2. fr' = [f EXCEPT !.pc = "load", !.pare = p] /\ UNCHANGED heap
      BY <1>8, <2>3, <3>1 DEF even_fork
    <3> HIDE DEF f
    <3>3. fr'.pc = "load" /\ fr'.pare = p /\ fr'.ret = "" /\ fr'.pid = e.pid
      BY <2>1, <3>2 DEF Frame
    <3>4. Older(age, heap'[p].pid, e.pid)
      BY <1>7, <2>1, <3>1, <3>2 DEF TreeAged
    <3>5. FrameAged(age)'
      BY <3>3, <3>4 DEF FrameAged
    <3>6. TreeAged(age)'
      BY <1>6, <2>1, <3>2, TreeAgesOn, TreeFacts
    <3> QED BY <1>4, <3>5, <3>6
  <2> QED BY <2>2, <2>3
<1>9. CASE even_exec(e)
  <2>1. UNCHANGED <<heap, pare>>
    BY <1>9 DEF even_exec
  <2>2. fr' = Idle \/ fr' = [Idle EXCEPT !.pc = "stat", !.tgt = proc_look(e.pid), !.ret = "exec"]
    BY <1>9 DEF even_exec
  <2>3. fr' = Idle \/ (fr'.pc = "stat" /\ fr'.ret = "exec")
    BY <2>2, IdleFrame DEF Frame
  <2>4. TreeAged(age)'
    BY <1>6, <2>1, TreeAgesOn, TreeFacts
  <2> QED BY <1>4, <2>3, <2>4, FrameAgesOff
<1>10. ASSUME NEW d \in Rec, InTable(d), NEW x \in Proc, heap' = [heap EXCEPT ![d] = x],
              x.pid = heap[d].pid, x.ppid = heap[d].ppid,
              \A r \in Rec : pare'[r] # NULL => pare'[r] = pare[r]
       PROVE  TreeAged(age)'
  <2>1. /\ heap'[d] = x /\ x # Free /\ heap[d] # Free
        /\ \A r \in Rec : r # d => heap'[r] = heap[r]
    BY <1>10, TreeFacts, FreeIsNoProc
  <2>2. \A r \in Rec : InTable(r) => heap'[r] # Free
    BY <2>1, TreeFacts
  <2>3. \A r \in Rec : heap'[r] # Free =>
          heap[r] # Free /\ heap'[r].pid = heap[r].pid /\ heap'[r].ppid = heap[r].ppid
    BY <1>10, <2>1
  <2> QED BY <1>6, <1>10, <2>2, <2>3, TreeAgesOn
<1>11. CASE even_exit(e)
  <2>1. CASE proc_look(e.pid) = NULL
    <3>1. fr' = Idle /\ UNCHANGED <<heap, pare>>
      BY <1>11, <2>1 DEF even_exit
    <3> QED BY <1>4, <1>6, <3>1, TreeAgesOn, TreeFacts, FrameAgesOff
  <2>2. CASE proc_look(e.pid) # NULL
    <3>1. PICK d \in Rec : d = proc_look(e.pid) /\ InTable(d)
      BY <2>2, Looking, EventFields
    <3> DEFINE x == [heap[d] EXCEPT !.alive = FALSE, !.death_time = e.ts]
    <3>2. /\ heap' = [heap EXCEPT ![d] = x]
          /\ \/ fr' = Idle /\ UNCHANGED pare
             \/ fr' = [Idle EXCEPT !.pc = "loop", !.dead = d] /\ deta_chil(pare[d], d)
      BY <1>11, <2>2, <3>1 DEF even_exit
    <3>3. x \in Proc /\ x.pid = heap[d].pid /\ x.ppid = heap[d].ppid
      <4>1. heap[d] \in Proc /\ e.ts \in 0..MaxClock
        BY <3>1, TreeFacts, EventFields
      <4>2. x \in Proc
        BY <4>1 DEF Proc
      <4>3. x.pid = heap[d].pid /\ x.ppid = heap[d].ppid
        BY <4>1 DEF Proc
      <4> QED BY <4>2, <4>3
    <3>4. fr' = Idle \/ (fr'.pc = "loop" /\ fr'.ret = "")
      BY <3>2, IdleFields, IdleFrame DEF Frame
    <3>5. \A r \in Rec : pare'[r] # NULL => pare'[r] = pare[r]
      <4>1. UNCHANGED pare \/ pare' = [pare EXCEPT ![d] = NULL]
        BY <3>2 DEF deta_chil
      <4> QED BY <4>1, TreeFacts DEF ForestTypeOK
    <3> HIDE DEF x
    <3>6. TreeAged(age)'
      BY <1>10, <3>1, <3>2, <3>3, <3>5
    <3> QED BY <1>4, <3>4, <3>6, FrameAgesOff
  <2> QED BY <2>1, <2>2
<1>12. CASE even_attr(e)
  <2>1. fr' = Idle /\ UNCHANGED pare
    BY <1>12 DEF even_attr
  <2>2. CASE proc_look(e.pid) = NULL
    BY <1>4, <1>6, <1>12, <2>1, <2>2, TreeAgesOn, TreeFacts, FrameAgesOff DEF even_attr
  <2>3. CASE proc_look(e.pid) # NULL
    <3>1. PICK d \in Rec : d = proc_look(e.pid) /\ InTable(d)
      BY <2>3, Looking, EventFields
    <3> DEFINE x == [heap[d] EXCEPT !.attr[e.what] = e.arg]
    <3>2. heap' = [heap EXCEPT ![d] = x] /\ e.what \in Attr
      BY <1>12, <2>3, <3>1 DEF even_attr
    <3>3. x \in Proc /\ x.pid = heap[d].pid /\ x.ppid = heap[d].ppid
      BY <3>1, <3>2, TreeFacts, EventFields DEF Proc
    <3> HIDE DEF x
    <3>4. TreeAged(age)'
      BY <1>10, <2>1, <3>1, <3>2, <3>3
    <3> QED BY <1>4, <2>1, <3>4, FrameAgesOff
  <2> QED BY <2>2, <2>3
<1> QED BY <1>5, <1>8, <1>9, <1>11, <1>12

\* A read of /proc finds an older parent, or leaves the ppid as it was.
LEMMA RefreshAges ==
  ASSUME IInv, NEW age, TreeAged(age), FrameAged(age), UNCHANGED <<buckets, pare>>,
         fr.pc \in {"stat", "status", "fd"}, NEW x \in Proc,
         heap' = [heap EXCEPT ![fr.tgt] = x],
         x.pid = heap[fr.tgt].pid, x.pid # 0,
         x.ppid # 0 => Older(age, x.ppid, x.pid),
         \/ fr' = Looked
         \/ \E pc \in {"status", "fd"} : fr' = [fr EXCEPT !.pc = pc]
  PROVE  TreeAged(age)' /\ FrameAged(age)'
<1>1. fr.tgt \in Rec
  BY DEF IInv, FrameOK, Reading
<1>2. /\ heap'[fr.tgt] = x
      /\ \A r \in Rec : heap'[r].pid = heap[r].pid /\ (r # fr.tgt => heap'[r] = heap[r])
  BY <1>1, TreeFacts
<1>3. TreeAged(age)'
  <2>1. \A r \in Rec : InTable(r)' <=> InTable(r)
    BY DEF InTable, InBucket
  <2>2. \A r \in Rec : heap'[r] # Free /\ heap'[r].ppid # 0 =>
          Older(age, heap'[r].ppid, heap'[r].pid)
    BY <1>2 DEF TreeAged
  <2> QED BY <1>2, <2>1, <2>2, TreeAges
<1>4. CASE fr' = Idle
  BY <1>3, <1>4, FrameAgesOff
<1>5. ASSUME NEW pc \in {"status", "fd", "link", "repare"}, fr' = [fr EXCEPT !.pc = pc]
      PROVE  FrameAged(age)'
  <2>1. /\ fr'.pc = pc /\ fr'.ret = fr.ret /\ fr'.tgt = fr.tgt /\ fr'.pid = fr.pid
        /\ fr'.pare = fr.pare /\ fr'.chil = fr.chil
    BY <1>5, TreeFacts DEF Frame
  <2>2. fr.ret = "chil" => Older(age, heap'[fr.pare].pid, fr.pid)
    <3>1. fr.ret = "chil" => fr.pare \in Rec /\ Older(age, heap[fr.pare].pid, fr.pid)
      BY DEF IInv, FrameOK, FrameAged
    <3> QED BY <3>1, <1>2
  <2>3. fr.ret = "reaper" => heap'[fr.tgt].pid = heap'[fr.chil].ppid
    <3>1. SUFFICES ASSUME fr.ret = "reaper" PROVE heap'[fr.tgt].pid = heap'[fr.chil].ppid
      OBVIOUS
    <3>2. fr.chil \in Rec /\ InTable(fr.chil) /\ Loading(fr.tgt)
      BY <3>1, NullNotRec DEF IInv, FrameOK, NoDangling, Loading
    <3>3. fr.chil # fr.tgt
      BY <3>2 DEF IInv, Owners
    <3> QED BY <1>1, <1>2, <3>1, <3>2, <3>3 DEF FrameAged
  <2>4. fr.ret = "pare" => Older(age, heap'[fr.tgt].pid, fr.pid)
    BY <1>2 DEF FrameAged
  <2> QED BY <1>2, <2>1, <2>2, <2>3, <2>4 DEF FrameAged
<1>6. CASE fr' = Looked
  BY <1>3, <1>4, <1>5, <1>6 DEF Looked
<1> QED BY <1>3, <1>5, <1>6

LEMMA ReadAges ==
  ASSUME IInv, NEW age, TaskAged(age), TreeAged(age), FrameAged(age),
         prfs_stat \/ prfs_status \/ prfs_fd
  PROVE  TreeAged(age)' /\ FrameAged(age)'
<1> DEFINE old == heap[fr.tgt]
           p == old.pid
<1>1. UNCHANGED <<buckets, pare>> /\ fr.pc \in {"stat", "status", "fd"}
  BY DEF prfs_stat, prfs_status, prfs_fd
<1>2. KernelTypeOK /\ 0 \notin Pid
  BY TypeParts, KernelConstants DEF IInv
<1>3. old \in Proc /\ fr.tgt \in Rec
  BY <1>1, TreeFacts DEF IInv, FrameOK, Reading
<1>4. ASSUME prfs_fail PROVE TreeAged(age)' /\ FrameAged(age)'
  <2>1. \A r \in Rec : InTable(r) => ~Loading(r) /\ heap[r] # Free
    BY DEF IInv, Owners
  <2>2. CASE fr.ret \in {"pare", "chil", "reaper"}
    <3>1. heap' = [heap EXCEPT ![fr.tgt] = Free] /\ fr' = Idle /\ ~InTable(fr.tgt)
      BY <1>3, <1>4, <2>1, <2>2 DEF prfs_fail, Loading
    <3> QED BY <1>1, <1>3, <2>1, <3>1, TreeFacts, TreeAgesOn, FrameAgesOff
  <2>3. CASE fr.ret \notin {"pare", "chil", "reaper"}
    <3>1. heap' = heap /\ fr' = Idle
      BY <1>4, <2>3 DEF prfs_fail
    <3> QED BY <1>1, <2>1, <3>1, TreeAgesOn, FrameAgesOff
  <2> QED BY <2>2, <2>3
<1>5. CASE prfs_stat
  <2>1. CASE prfs_fail
    BY <2>1, <1>4
  <2>2. CASE ~prfs_fail
    <3> DEFINE x == [old EXCEPT !.ppid = Ppid(p),
                                !.birth_ppid = IF @ = -1 THEN Ppid(p) ELSE @,
                                !.attr["comm"] = task[p].attr["comm"],
                                !.alive = TRUE]
    <3>1. heap' = [heap EXCEPT ![fr.tgt] = x] /\ fr' = [fr EXCEPT !.pc = "status"] /\ InProc(p)
      BY <1>5, <2>2 DEF prfs_stat
    <3>2. Ppid(p) \in Pid \cup {0} /\ task[p].attr["comm"] \in Val /\ p \in Pid
      BY <1>2, <3>1, ProcFiles, KernelConstants
    <3>3. x \in Proc /\ x.pid = p /\ x.ppid = Ppid(p) /\ p # 0
      BY <3>2, <1>2, <1>3 DEF Proc
    <3>4. Ppid(p) # 0 => Older(age, Ppid(p), p)
      <4>1. age[p] # 0
        BY <3>1, <3>2 DEF InProc, TaskAged
      <4>2. SUFFICES ASSUME Ppid(p) # 0 PROVE Older(age, Ppid(p), p)
        OBVIOUS
      <4>3. task[p].parent # 0 /\ Ppid(p) = task[task[p].parent].tgid
        BY <4>2 DEF Ppid
      <4>4. Older(age, task[p].parent, p)
        BY <3>2, <4>1, <4>3 DEF TaskAged
      <4>5. task[p].parent \in Pid /\ age[task[p].parent] # 0
        BY <4>4 DEF Older
      <4>6. age[task[task[p].parent].tgid] = age[task[p].parent]
        BY <4>5 DEF TaskAged
      <4>7. Ppid(p) \in Pid /\ age[Ppid(p)] = age[task[p].parent]
        BY <3>2, <4>2, <4>3, <4>6
      <4> QED BY <4>4, <4>7 DEF Older
    <3> HIDE DEF x
    <3> QED BY <3>1, <3>3, <3>4, <1>1, RefreshAges
  <2> QED BY <2>1, <2>2
<1>6. p # 0 /\ old.ppid # 0 => Older(age, old.ppid, p)
  BY <1>3, ProcFields DEF TreeAged
<1>7. CASE prfs_status
  <2>1. CASE prfs_fail
    BY <2>1, <1>4
  <2>2. CASE ~prfs_fail
    <3> DEFINE t == [a \in Attr |-> IF a = "comm" THEN old.attr[a] ELSE task[p].attr[a]]
               x == [old EXCEPT !.attr = t]
    <3>1. heap' = [heap EXCEPT ![fr.tgt] = x] /\ InProc(p)
      BY <1>7, <2>2 DEF prfs_status
    <3>2. fr' = [fr EXCEPT !.pc = "fd"] \/ fr' = Looked
      BY <1>7, <2>2 DEF prfs_status
    <3>3. t \in [Attr -> Val \cup {0}] /\ p # 0
      BY <1>2, <1>3, <3>1, ProcFiles DEF Proc, InProc
    <3> HIDE DEF t
    <3>4. x \in Proc /\ x.pid = p /\ x.ppid = old.ppid
      BY <3>3, <1>3 DEF Proc
    <3> HIDE DEF x
    <3> QED BY <3>1, <3>2, <3>3, <3>4, <1>1, <1>6, RefreshAges
  <2> QED BY <2>1, <2>2
<1>8. CASE prfs_fd
  <2>1. CASE prfs_fail
    BY <2>1, <1>4
  <2>2. CASE ~prfs_fail
    <3>1. heap' = [heap EXCEPT ![fr.tgt] = old] /\ fr' = Looked /\ p # 0
      BY <1>2, <1>8, <2>2, TreeFacts DEF prfs_fd, InProc
    <3> HIDE DEF old
    <3> QED BY <3>1, <1>1, <1>3, <1>6, RefreshAges DEF old
  <2> QED BY <2>1, <2>2
<1> QED BY <1>5, <1>7, <1>8

\* What the handlers link has a pid, and the parent is older than the child.
LEMMA LinkAges ==
  ASSUME IInv, NEW age, TreeAged(age), FrameAged(age), fork_pare \/ fork_chil \/ re_pare_load
  PROVE  TreeAged(age)' /\ FrameAged(age)'
<1>1. fr.pc = "link"
  BY DEF fork_pare, fork_chil, re_pare_load
<1>2. PICK t \in Rec : /\ t = fr.tgt /\ Loading(t) /\ heap[t] \in Proc /\ fr \in Frame
                       /\ ~InTable(t) /\ heap[t].pid # 0
  <2>1. fr.tgt \in Rec /\ Loading(fr.tgt) /\ heap[fr.tgt] # Free
    BY <1>1 DEF IInv, FrameOK, Reading, Loading
  <2>2. ~InTable(fr.tgt) /\ heap[fr.tgt].pid # 0
    BY <1>1, <2>1 DEF IInv, Owners, FrameAged
  <2> QED BY <2>1, <2>2, TreeFacts
<1>3. CASE inse_fail
  <2>1. heap' = [heap EXCEPT ![t] = Free] /\ fr' = Idle /\ UNCHANGED <<buckets, pare>>
    BY <1>2, <1>3 DEF inse_fail
  <2>2. \A r \in Rec : InTable(r) => heap'[r] # Free
    BY <1>2, <2>1, TreeFacts
  <2> QED BY <1>2, <2>1, <2>2, TreeFacts, TreeAgesOn, FrameAgesOff
<1> DEFINE y == [heap[t] EXCEPT !.birth_ppid = -1]
<1>4. y \in Proc /\ y.pid = heap[t].pid /\ y.ppid = heap[t].ppid
  BY <1>2 DEF Proc
<1>5. Loaded = [heap EXCEPT ![t] = y] /\ Loaded[t] = y
  BY <1>2, TreeFacts DEF Loaded
<1> HIDE DEF y
<1>6. ASSUME NEW x \in Proc, x.pid = heap[t].pid, x.ppid = heap[t].ppid,
             heap' = [heap EXCEPT ![t] = x], proc_inse(t, heap[t].pid),
             \A r \in Rec : pare'[r] # NULL =>
               pare'[r] = pare[r] \/ Older(age, heap'[pare'[r]].pid, heap'[r].pid)
      PROVE  TreeAged(age)'
  <2>1. /\ heap'[t] = x /\ \A q \in Rec : q # t => heap'[q] = heap[q]
        /\ \A q \in Rec : InTable(q)' => InTable(q) \/ q = t
    BY <1>2, <1>6, InsertStep
  <2>2. \A r \in Rec : heap'[r] # Free /\ heap'[r].ppid # 0 =>
          Older(age, heap'[r].ppid, heap'[r].pid)
    BY <1>2, <1>6, <2>1, ProcFields DEF TreeAged
  <2>3. \A r \in Rec : InTable(r) => heap'[r].pid = heap[r].pid
    BY <1>2, <2>1
  <2>4. \A r \in Rec : InTable(r)' => InTable(r) \/ heap'[r].pid # 0
    BY <1>2, <1>6, <2>1
  <2> QED BY <1>6, <2>2, <2>3, <2>4, TreeAges
<1>7. CASE fork_pare /\ ~inse_fail
  <2>1. /\ heap' = [heap EXCEPT ![t] = y] /\ proc_inse(t, heap[t].pid) /\ UNCHANGED pare
        /\ fr' = [fr EXCEPT !.pc = "load", !.pare = t, !.tgt = NULL] /\ fr.ret = "pare"
    BY <1>2, <1>5, <1>7 DEF fork_pare
  <2>2. TreeAged(age)'
    BY <1>4, <1>6, <2>1
  <2>3. /\ fr'.pc = "load" /\ fr'.ret = "pare" /\ fr'.pare = t /\ fr'.pid = fr.pid
        /\ heap'[t] = y
    BY <1>2, <2>1, TreeFacts DEF Frame
  <2>4. Older(age, heap'[t].pid, fr.pid)
    BY <1>1, <1>2, <1>4, <2>1, <2>3 DEF FrameAged
  <2> QED BY <2>2, <2>3, <2>4 DEF FrameAged
<1>8. ASSUME NEW p \in Rec, NEW c \in Rec, atta_chil(p, c),
             Older(age, heap'[p].pid, heap'[c].pid)
      PROVE  \A r \in Rec : pare'[r] # NULL =>
               pare'[r] = pare[r] \/ Older(age, heap'[pare'[r]].pid, heap'[r].pid)
  <2>1. pare'[c] = p /\ \A r \in Rec : r # c => pare'[r] = pare[r]
    BY <1>8, TreeFacts DEF atta_chil, ForestTypeOK
  <2> QED BY <1>8, <2>1
<1>9. CASE re_pare_load /\ ~inse_fail
  <2>1. /\ heap' = [heap EXCEPT ![t] = y] /\ proc_inse(t, heap[t].pid)
        /\ atta_chil(t, fr.chil) /\ fr' = Looping /\ fr.ret = "reaper"
    BY <1>2, <1>5, <1>9 DEF re_pare_load
  <2>2. PICK c \in Rec : c = fr.chil /\ InTable(c) /\ c # t
    BY <1>2, <2>1, NullNotRec DEF IInv, FrameOK, NoDangling
  <2>3. heap'[t] = y /\ heap'[c] = heap[c]
    BY <1>2, <2>1, <2>2, TreeFacts
  <2>4. heap[t].pid = heap[c].ppid
    BY <1>2, <2>1, <2>2 DEF FrameAged
  <2>5. Older(age, heap'[t].pid, heap'[c].pid)
    BY <1>2, <1>4, <2>2, <2>3, <2>4, TreeFacts DEF TreeAged
  <2>6. TreeAged(age)'
    BY <1>4, <1>6, <1>8, <2>1, <2>2, <2>5
  <2>7. fr'.pc = "loop" /\ fr'.ret = ""
    BY <1>2, <2>1, LoopFrame
  <2> QED BY <2>6, <2>7, FrameAgesOff
<1>10. CASE fork_chil /\ ~inse_fail
  <2> DEFINE x == [y EXCEPT !.birth_time = fr.ts]
  <2>1. /\ heap' = [Loaded EXCEPT ![t].birth_time = fr.ts] /\ proc_inse(t, fr.pid)
        /\ atta_chil(fr.pare, t) /\ fr' = Idle /\ fr.ret = "chil"
    BY <1>2, <1>10 DEF fork_chil
  <2>2. heap' = [heap EXCEPT ![t] = x]
    BY <1>2, <1>5, <2>1, TreeFacts
  <2>3. x \in Proc /\ x.pid = heap[t].pid /\ x.ppid = heap[t].ppid /\ heap[t].pid = fr.pid
    BY <1>2, <1>4, <2>1, FrameFields DEF Proc, IInv, FrameOK
  <2>4. PICK p \in Rec : p = fr.pare /\ InTable(p) /\ p # t
    BY <1>2, <2>1, NullNotRec DEF IInv, FrameOK, NoDangling
  <2> HIDE DEF x
  <2>5. heap'[t] = x /\ heap'[p] = heap[p]
    BY <1>2, <2>2, <2>4, TreeFacts
  <2>6. Older(age, heap'[p].pid, heap'[t].pid)
    BY <2>1, <2>3, <2>4, <2>5 DEF FrameAged
  <2>7. proc_inse(t, heap[t].pid)
    BY <2>1, <2>3 DEF proc_inse
  <2>8. TreeAged(age)'
    BY <1>6, <1>8, <2>1, <2>2, <2>3, <2>4, <2>6, <2>7
  <2> QED BY <2>1, <2>8, FrameAgesOff
<1> QED BY <1>3, <1>7, <1>9, <1>10

LEMMA OtherAges ==
  ASSUME IInv, NEW age, TreeAged(age), FrameAged(age), fork_load \/ exit_loop \/ re_pare
  PROVE  TreeAged(age)' /\ FrameAged(age)'
<1>1. UNCHANGED buckets /\ fr \in Frame
  BY TreeFacts DEF fork_load, exit_loop, re_pare
<1>2. CASE fork_load
  <2>1. /\ proc_load(fr.pid, fr, "chil") /\ fr.pid \in Pid /\ UNCHANGED pare
        /\ fr.pare \in Rec /\ InTable(fr.pare) /\ Older(age, heap[fr.pare].pid, fr.pid)
    BY <1>2, NullNotRec DEF fork_load, IInv, FrameOK, NoDangling, FrameAged
  <2> QED BY <1>1, <2>1, LoadAges
<1>3. CASE exit_loop
  <2>1. UNCHANGED heap
    BY <1>3 DEF exit_loop
  <2>2. \/ fr' = Idle
        \/ \E c : fr' = [fr EXCEPT !.pc = "stat", !.tgt = c, !.chil = c, !.ret = "orphan"]
    BY <1>3 DEF exit_loop
  <2>3. fr' = Idle \/ (fr'.pc = "stat" /\ fr'.ret = "orphan")
    BY <1>1, <2>2 DEF Frame
  <2>4. \A r \in Rec : pare'[r] # NULL => pare'[r] = pare[r]
    <3>1. UNCHANGED pare \/ \E c : pare' = [pare EXCEPT ![c] = NULL]
      BY <1>3 DEF exit_loop, deta_chil
    <3> QED BY <3>1, TreeFacts DEF ForestTypeOK
  <2>5. TreeAged(age)'
    BY <1>1, <2>1, <2>4, TreeAgesOn, TreeFacts
  <2> QED BY <2>3, <2>5, FrameAgesOff
<1>4. CASE re_pare
  <2>1. PICK c \in Rec : c = fr.chil /\ InTable(c)
    BY <1>4, NullNotRec DEF re_pare, IInv, FrameOK, NoDangling
  <2>2. heap[c] # Free /\ heap[c].ppid \in Pid \cup {0}
    BY <2>1, TreeFacts, ProcFields
  <2>3. CASE proc_look(heap[c].ppid) = NULL
    <3>1. proc_load(heap[c].ppid, fr, "reaper") /\ UNCHANGED pare
      BY <1>4, <2>1, <2>3 DEF re_pare
    <3> QED BY <1>1, <2>1, <2>2, <3>1, LoadAges
  <2>4. CASE proc_look(heap[c].ppid) # NULL
    <3>1. PICK p \in Rec : p = proc_look(heap[c].ppid) /\ InTable(p) /\ heap[p].pid = heap[c].ppid
      BY <2>2, <2>4, LookedUp
    <3>2. /\ UNCHANGED heap
          /\ \/ atta_chil(p, c) /\ fr' = Looping
             \/ fr' = Idle /\ UNCHANGED pare
      BY <1>4, <2>1, <2>4, <3>1 DEF re_pare
    <3>3. fr' = Idle \/ (fr'.pc = "loop" /\ fr'.ret = "")
      BY <1>1, <3>2, LoopFrame
    <3>4. Older(age, heap[p].pid, heap[c].pid)
      BY <2>2, <3>1 DEF TreeAged
    <3>5. \A r \in Rec : pare'[r] # NULL =>
            pare'[r] = pare[r] \/ Older(age, heap'[pare'[r]].pid, heap'[r].pid)
      <4>1. UNCHANGED pare \/ (pare'[c] = p /\ \A r \in Rec : r # c => pare'[r] = pare[r])
        BY <3>2, TreeFacts DEF atta_chil, ForestTypeOK
      <4> QED BY <4>1, <3>2, <3>4
    <3>6. \A r \in Rec : InTable(r)' <=> InTable(r)
      BY <1>1 DEF InTable, InBucket
    <3>7. \A r \in Rec : heap'[r] # Free /\ heap'[r].ppid # 0 =>
            Older(age, heap'[r].ppid, heap'[r].pid)
      BY <3>2 DEF TreeAged
    <3>8. TreeAged(age)'
      BY <3>2, <3>5, <3>6, <3>7, TreeAges
    <3> QED BY <3>3, <3>8, FrameAgesOff
  <2> QED BY <2>3, <2>4
<1> QED BY <1>2, <1>3, <1>4

LEMMA AgeKept ==
  ASSUME ~Recycle, IInv, IInv', AgeInv, [Next]_vars
  PROVE  AgeInv'
<1>1. PICK age \in [Pid -> Nat] : Aged(age)
  BY DEF AgeInv
<1>2. TaskAged(age) /\ QueueAged(age) /\ TreeAged(age) /\ FrameAged(age)
  BY <1>1 DEF Aged
<1>3. ASSUME UNCHANGED task, QueueAged(age)', TreeAged(age)' /\ FrameAged(age)'
      PROVE  AgeInv'
  <2>1. TaskAged(age)'
    BY <1>2, <1>3 DEF TaskAged
  <2> QED BY <1>3, <2>1 DEF AgeInv, Aged
<1>4. ASSUME NEW next, UNCHANGED tracker, \A p, c : Older(age, p, c) => Older(next, p, c)
      PROVE  TreeAged(next)' /\ FrameAged(next)'
  <2>1. UNCHANGED <<heap, buckets, pare, fr>>
    BY <1>4 DEF tracker
  <2>2. \A r \in Rec : InTable(r)' <=> InTable(r)
    BY <2>1 DEF InTable, InBucket
  <2> QED BY <1>2, <1>4, <2>1, <2>2 DEF TreeAged, FrameAged
<1>5. CASE sock_reci
  BY <1>2, <1>3, <1>5, ReceiveAges DEF sock_reci
<1>6. CASE Step /\ ~sock_reci
  <2>1. UNCHANGED <<task, evq>>
    BY <1>6 DEF Step, prfs_stat, prfs_status, prfs_fd, fork_pare, fork_load, fork_chil,
                exit_loop, re_pare, re_pare_load
  <2>2. QueueAged(age)'
    BY <1>2, <2>1 DEF QueueAged
  <2> QED BY <1>2, <1>3, <1>6, <2>1, <2>2, ReadAges, LinkAges, OtherAges DEF Step
<1>7. CASE KernelNext /\ UNCHANGED tracker
  <2>1. KernelTypeOK /\ KernelTypeOK'
    BY DEF IInv, TypeOK
  <2>2. PICK next \in [Pid -> Nat] : /\ TaskAged(next)' /\ QueueAged(next)'
                                     /\ \A p, c : Older(age, p, c) => Older(next, p, c)
    BY <1>2, <1>7, <2>1, ProcessesAge
  <2> QED BY <1>4, <1>7, <2>2 DEF AgeInv, Aged
<1>8. CASE UNCHANGED vars
  <2>1. UNCHANGED tracker /\ UNCHANGED task /\ UNCHANGED evq
    BY <1>8 DEF vars, tracker
  <2>2. QueueAged(age)'
    BY <1>2, <2>1 DEF QueueAged
  <2> QED BY <1>3, <1>4, <2>1, <2>2
<1>9. CASE sock_empty
  BY <1>8, <1>9 DEF sock_empty
<1> QED BY <1>5, <1>6, <1>7, <1>8, <1>9 DEF Next

(* When no pid is used again, the tree has no cycle in any state, also when  *)
(* events are lost, memory runs out or /proc runs ahead of the events: a     *)
(* walk from a record to its root ends (even_fork, re_pare, ser_proc.c:81).  *)
THEOREM TreeAcyclic == ASSUME ~Recycle PROVE Spec => []Acyclic
<1>1. Init => AgeInv
  BY AgeStarts
<1>2. IInv /\ IInv' /\ AgeInv /\ [Next]_vars => AgeInv'
  BY AgeKept
<1>3. IInv /\ AgeInv => Acyclic
  BY AgeAcyclic DEF AgeInv, Aged
<1> QED BY <1>1, <1>2, <1>3, Invariance, PTL DEF Spec

-------------------------------------------------------------------------------
(***************************************************************************)
(* When no event is lost and no pid is used again, the records agree with  *)
(* the processes as soon as all events are handled. Until then what a      *)
(* record has wrong is what an event in the queue, or the handler that     *)
(* runs, will still put right.                                             *)
(***************************************************************************)

\* The handler is about to read the attribute a of the record r.
Unread(r, a) == r = fr.tgt /\ (fr.pc = "stat" \/ (fr.pc = "status" /\ a # "comm"))

\* The attribute is right, or will be made right, or the process's death is told next.
\* Nothing is said where a file of a process that runs may fail to open: an exec is
\* told once, and the name it gave is lost with the read.
AttrOK(r, a) ==
  \/ AllocMayFail
  \/ ExitDue(heap[r].pid) \/ Unread(r, a)
  \/ \E e \in Pending : Settles(e, heap[r].pid, a)
  \/ heap[r].attr[a] = task[heap[r].pid].attr[a]

RecordOK(r) ==
  heap[r] # Free /\ heap[r].pid # 0 =>
    /\ Known(heap[r].pid)
    /\ Dead(r) => ~heap[r].alive /\ ~Going(heap[r].pid)
    /\ ~Dead(r) => /\ Going(heap[r].pid) \/ Threaded(heap[r].pid)
                   /\ \A a \in Attr : AttrOK(r, a)

\* All records are right, or will be.
RecordsOK == \A r \in Rec : RecordOK(r)

\* No two records of the table have the same pid.
PidsUnique ==
  \A r, s \in Rec : InTable(r) /\ InTable(s) /\ heap[r].pid = heap[s].pid => r = s

\* A child in the tree has not exited as far as the events tell.
KinOK ==
  \A r \in Rec : pare[r] # NULL =>
    Going(heap[r].pid) /\ Related(heap[pare[r]].pid, heap[r].pid)

\* b may become the parent of a in the tree.
Bond(b, a) == Known(b) /\ (Going(b) \/ Threaded(b)) /\ Related(b, a)

\* The handler holds the pid of a parent that prfs_stat read.
Named == (fr.ret = "orphan" /\ fr.pc \in {"status", "fd", "repare"}) \/ fr.ret = "reaper"

\* What the handlers of fork, exec and exit know of the pids they hold
HandlerOK ==
  /\ fr.pc = "load" \/ fr.ret \in {"pare", "chil"} =>
       /\ Known(fr.pid) /\ Going(fr.pid)
       /\ \A r \in Rec : InTable(r) => heap[r].pid # fr.pid
  /\ fr.pc # "load" /\ fr.ret = "pare" /\ heap[fr.tgt].pid # 0 =>
       /\ heap[fr.tgt].pid # fr.pid
       /\ Going(heap[fr.tgt].pid) /\ Related(heap[fr.tgt].pid, fr.pid)
  /\ fr.pc = "load" \/ fr.ret = "chil" =>
       Going(heap[fr.pare].pid) /\ Related(heap[fr.pare].pid, fr.pid)
  /\ fr.ret = "exec" => Going(heap[fr.tgt].pid)
  /\ fr.ret \in {"orphan", "reaper"} => Going(heap[fr.chil].pid)
  /\ Named /\ heap[fr.chil].ppid # 0 => Bond(heap[fr.chil].ppid, heap[fr.chil].pid)

\* The inductive invariant of the agreement
Agreeing == TaskInv /\ QueueInv /\ PidsUnique /\ RecordsOK /\ KinOK /\ HandlerOK

-------------------------------------------------------------------------------
\* Nothing happens to the processes and to the queue.
LEMMA Stillness ==
  ASSUME UNCHANGED <<task, evq>>
  PROVE  /\ Pending' = Pending
         /\ \A p : /\ Known(p)' <=> Known(p)
                   /\ Going(p)' <=> Going(p)
                   /\ ExitDue(p)' <=> ExitDue(p)
                   /\ Threaded(p)' <=> Threaded(p)
         /\ \A b, a : (Related(b, a)' <=> Related(b, a)) /\ (Bond(b, a)' <=> Bond(b, a))
<1>1. Pending' = Pending
  BY DEF Pending
<1>2. ASSUME NEW p
      PROVE  /\ Known(p)' <=> Known(p)
             /\ Going(p)' <=> Going(p)
             /\ ExitDue(p)' <=> ExitDue(p)
             /\ Threaded(p)' <=> Threaded(p)
  BY <1>1 DEF Known, Going, ExitDue, ForkDue, Threaded, Running
<1>3. ASSUME NEW b, NEW a PROVE Related(b, a)' <=> Related(b, a)
  BY DEF Related, Running, Ppid
<1> QED BY <1>1, <1>2, <1>3 DEF Bond

\* A record the step frees or leaves as it is, but for its place in the tree
LEMMA RecordKept ==
  ASSUME UNCHANGED <<task, evq>>, NEW r \in Rec, RecordOK(r),
         heap'[r] # Free => /\ heap[r] # Free
                            /\ heap'[r].pid = heap[r].pid /\ heap'[r].alive = heap[r].alive
                            /\ heap'[r].death_time = heap[r].death_time
                            /\ heap'[r].attr = heap[r].attr,
         \A a \in Attr : Unread(r, a) => Unread(r, a)' \/ ExitDue(heap[r].pid) \/ AllocMayFail
  PROVE  RecordOK(r)'
<1>1. SUFFICES ASSUME heap'[r] # Free, heap'[r].pid # 0 PROVE RecordOK(r)'
  BY DEF RecordOK
<1>2. Dead(r)' <=> Dead(r)
  BY <1>1 DEF Dead
<1>3. /\ Known(heap[r].pid)' <=> Known(heap[r].pid)
      /\ Going(heap[r].pid)' <=> Going(heap[r].pid)
      /\ ExitDue(heap[r].pid)' <=> ExitDue(heap[r].pid)
      /\ Threaded(heap[r].pid)' <=> Threaded(heap[r].pid)
  BY <1>1, Stillness
<1>4. ASSUME NEW a \in Attr, AttrOK(r, a) PROVE AttrOK(r, a)'
  <2>1. (\E e \in Pending : Settles(e, heap[r].pid, a)) =>
          \E e \in Pending' : Settles(e, heap'[r].pid, a)
    BY <1>1, Stillness
  <2>2. task' = task
    OBVIOUS
  <2> QED BY <1>1, <1>3, <1>4, <2>1, <2>2 DEF AttrOK, Settles
<1> QED BY <1>1, <1>2, <1>3, <1>4 DEF RecordOK

\* The table holds the same records, with their pids.
LEMMA PidsKept ==
  ASSUME PidsUnique, UNCHANGED buckets,
         \A r \in Rec : InTable(r) => heap'[r].pid = heap[r].pid
  PROVE  PidsUnique'
<1>1. \A r \in Rec : InTable(r)' <=> InTable(r)
  BY DEF InTable, InBucket
<1> QED BY <1>1 DEF PidsUnique

\* The tree's links stay, but for one to the parent of a process that is going on.
LEMMA KinKept ==
  ASSUME IInv, UNCHANGED <<task, evq>>, KinOK,
         \A r \in Rec : InTable(r) => heap'[r].pid = heap[r].pid,
         \A r \in Rec : pare'[r] # NULL =>
           \/ pare'[r] = pare[r]
           \/ Going(heap'[r].pid) /\ Related(heap'[pare'[r]].pid, heap'[r].pid)
  PROVE  KinOK'
<1>1. ASSUME NEW r \in Rec, pare'[r] # NULL
      PROVE  Going(heap[r].pid)' /\ Related(heap[pare[r]].pid, heap[r].pid)'
  <2>1. CASE pare'[r] = pare[r]
    <3>1. PICK p \in Rec : p = pare[r] /\ InTable(p) /\ InTable(r)
      BY <1>1, <2>1, TreeFacts
    <3>2. heap'[p].pid = heap[p].pid /\ heap'[r].pid = heap[r].pid /\ pare'[r] = p
      BY <2>1, <3>1
    <3>3. Going(heap[r].pid) /\ Related(heap[p].pid, heap[r].pid)
      BY <1>1, <2>1, <3>1 DEF KinOK
    <3> QED BY <3>2, <3>3, Stillness
  <2>2. CASE pare'[r] # pare[r]
    BY <1>1, <2>2, Stillness
  <2> QED BY <2>1, <2>2
<1> QED BY <1>1 DEF KinOK

\* Between two events no handler holds a pid.
LEMMA NothingHandled ==
  ASSUME fr' = Idle \/ (fr'.pc = "loop" /\ fr'.ret = "")
  PROVE  HandlerOK'
<1>1. fr'.pc # "load" /\ fr'.ret = ""
  BY IdleFields
<1> QED BY <1>1 DEF HandlerOK, Named

\* The pids the invariant of the ages gives
LEMMA Numbered ==
  ASSUME AgeInv
  PROVE  /\ \A r \in Rec : InTable(r) => heap[r].pid # 0
         /\ fr.pc \in {"status", "fd", "link"} => heap[fr.tgt].pid # 0
         /\ fr.ret = "reaper" => heap[fr.tgt].pid = heap[fr.chil].ppid
  BY DEF AgeInv, Aged, TreeAged, FrameAged

\* What is known of the processes and the queue stays when nothing happens to them.
LEMMA StillQueue ==
  ASSUME TaskInv, QueueInv, UNCHANGED <<task, clock, evq>>
  PROVE  TaskInv' /\ QueueInv'
<1>1. Pending' = Pending
  BY DEF Pending
<1>2. TaskInv'
  BY DEF TaskInv, Running
<1>3. Told' /\ ExitIsLast' /\ ForkIsFirst'
  BY <1>1 DEF QueueInv, Told, ExitIsLast, ForkIsFirst, Mentions, Running
<1>4. ForksInOrder' /\ ForkNamesParent' /\ AttrsTold'
  BY <1>1 DEF QueueInv, ForksInOrder, ForkNamesParent, AttrsTold, Settles, Ppid, Related, Running
<1> QED BY <1>2, <1>3, <1>4 DEF QueueInv

\* Who is told of as running has run.
LEMMA GoingIsOld ==
  ASSUME TaskInv, QueueInv, KernelTypeOK, NEW p, Going(p) \/ Threaded(p)
  PROVE  p \in Pid /\ task[p].st # "new"
<1>1. CASE Going(p)
  BY <1>1 DEF Going, ExitDue, QueueInv, Told, Mentions, Running
<1>2. CASE Threaded(p)
  <2>1. PICK t \in Pid : t # p /\ task[t].tgid = p
    BY <1>2 DEF Threaded
  <2> QED BY <2>1, TaskFields DEF TaskInv
<1> QED BY <1>1, <1>2

\* What was told of the processes stays told when they go on.
LEMMA Onward ==
  ASSUME TaskInv, QueueInv, KernelTypeOK, Lasting
  PROVE  /\ Pending \subseteq Pending'
         /\ \A p : /\ Known(p) => Known(p)' /\ (Going(p)' <=> Going(p))
                   /\ Going(p) => Going(p)'
                   /\ ExitDue(p) => ExitDue(p)'
                   /\ Threaded(p) => Threaded(p)'
         /\ \A b, p : /\ Known(b) \/ Going(b)
                      /\ Known(p) \/ Going(p)
                      /\ Related(b, p)
                      => Related(b, p)'
         /\ \A b, p : Going(p) /\ Bond(b, p) => Bond(b, p)'
<1>1. ASSUME NEW p
      PROVE  /\ Known(p) => Known(p)' /\ (Going(p)' <=> Going(p))
             /\ Going(p) => Going(p)'
             /\ ExitDue(p) => ExitDue(p)'
             /\ Threaded(p) => Threaded(p)'
  <2>1. Known(p) => Known(p)' /\ (Going(p)' <=> Going(p))
    BY DEF Lasting, Known
  <2>2. Going(p) => Going(p)'
    BY GoingIsOld DEF Lasting
  <2>3. ExitDue(p) => ExitDue(p)'
    BY DEF Lasting, ExitDue
  <2>4. ASSUME NEW t \in Pid, t # p, task[t].tgid = p PROVE task'[t].tgid = p
    BY <2>4 DEF TaskInv, Lasting
  <2> QED BY <2>1, <2>2, <2>3, <2>4 DEF Threaded
<1>2. ASSUME NEW b, NEW p, Known(b) \/ Going(b), Known(p) \/ Going(p), Related(b, p)
      PROVE  Related(b, p)'
  <2>1. b \in Pid /\ task[b].st # "new" /\ p \in Pid /\ task[p].st # "new"
    BY <1>2, GoingIsOld DEF Known
  <2> QED BY <1>2, <2>1 DEF Lasting
<1> QED BY <1>1, <1>2 DEF Lasting, Bond

\* The processes go on between two reads of the tracker.
LEMMA ProcessesAgree ==
  ASSUME ~Recycle, MaxClock <= QMax, IInv, IInv', AgeInv, Agreeing, KernelNext, UNCHANGED tracker
  PROVE  Agreeing'
<1>1. /\ KernelTypeOK /\ KernelTypeOK' /\ EventsOrdered /\ TaskInv /\ QueueInv
      /\ UNCHANGED <<heap, buckets, kids, pare, fr>>
  BY TypeParts DEF IInv, TypeOK, Agreeing, tracker
<1>2. PICK age \in [Pid -> Nat] : TaskAged(age)
  BY DEF AgeInv, Aged
<1>3. TaskInv' /\ QueueInv' /\ Lasting
  BY <1>1, <1>2, KernelAgrees
<1>4. PidsUnique'
  BY <1>1, PidsKept DEF Agreeing
<1>5. ASSUME NEW r \in Rec, heap[r] # Free, heap[r].pid # 0
      PROVE  /\ Known(heap[r].pid)'
             /\ Dead(r)' => ~heap'[r].alive /\ ~Going(heap[r].pid)'
             /\ ~Dead(r)' => /\ Going(heap[r].pid)' \/ Threaded(heap[r].pid)'
                             /\ \A a \in Attr : AttrOK(r, a)'
  <2>1. PICK p : p = heap[r].pid
    OBVIOUS
  <2>2. heap'[r] = heap[r] /\ (Dead(r)' <=> Dead(r)) /\ RecordOK(r)
    BY <1>1, <1>5 DEF Dead, Agreeing, RecordsOK
  <2>3. /\ Known(p) /\ Known(p)' /\ p \in Pid /\ task[p].st # "new"
        /\ Going(p)' <=> Going(p)
        /\ Threaded(p) => Threaded(p)'
        /\ ExitDue(p) => ExitDue(p)'
    <3>1. Known(p)
      BY <1>5, <2>1, <2>2 DEF RecordOK
    <3> QED BY <3>1, <1>1, <1>3, Onward DEF Known
  <2>4. ASSUME NEW a \in Attr, AttrOK(r, a) PROVE AttrOK(r, a)'
    <3>1. CASE ExitDue(p)
      BY <3>1, <2>1, <2>2, <2>3 DEF AttrOK
    <3>2. CASE Unread(r, a)
      BY <3>2, <1>1 DEF AttrOK, Unread
    <3>3. CASE \E e \in Pending : Settles(e, p, a)
      BY <3>3, <1>1, <1>3, <2>1, <2>2, Onward DEF AttrOK, Settles
    <3>4. CASE heap[r].attr[a] = task[p].attr[a]
      <4>1. task'[p].attr[a] = task[p].attr[a] \/ \E e \in Pending' : Settles(e, p, a)
        BY <1>3, <2>3 DEF Lasting
      <4> QED BY <4>1, <3>4, <2>1, <2>2 DEF AttrOK, Settles
    <3> QED BY <2>1, <2>4, <3>1, <3>2, <3>3, <3>4 DEF AttrOK
  <2> QED BY <1>5, <2>1, <2>2, <2>3, <2>4 DEF RecordOK
<1>6. RecordsOK'
  BY <1>1, <1>5 DEF RecordsOK, RecordOK
<1>7. \A r \in Rec : InTable(r) => heap[r].pid # 0 /\ Known(heap[r].pid)
  BY Numbered, TreeFacts DEF Agreeing, RecordsOK, RecordOK
<1>8. ASSUME NEW r \in Rec, pare'[r] # NULL
      PROVE  Going(heap[r].pid)' /\ Related(heap[pare[r]].pid, heap[r].pid)'
  <2>1. Going(heap[r].pid) /\ Related(heap[pare[r]].pid, heap[r].pid)
    BY <1>1, <1>8 DEF Agreeing, KinOK
  <2>2. Known(heap[pare[r]].pid)
    BY <1>1, <1>7, <1>8, TreeFacts
  <2> QED BY <1>1, <1>3, <2>1, <2>2, Onward
<1>9. KinOK'
  BY <1>8 DEF KinOK
<1>10. HandlerOK'
  <2>1. \A r \in Rec : InTable(r)' <=> InTable(r)
    BY <1>1 DEF InTable, InBucket
  <2>2. HandlerOK
    BY DEF Agreeing
  <2>3. \A p : /\ Known(p) => Known(p)' /\ (Going(p)' <=> Going(p))
               /\ Going(p) => Going(p)'
    BY <1>1, <1>3, Onward
  <2>4. \A b, p : Going(b) /\ Going(p) /\ Related(b, p) => Related(b, p)'
    BY <1>1, <1>3, Onward
  <2>5. \A b, p : Going(p) /\ Bond(b, p) => Bond(b, p)'
    BY <1>1, <1>3, Onward
  <2>6. Named => fr.ret \in {"orphan", "reaper"}
    BY DEF Named
  <2>7. Named' <=> Named
    BY <1>1 DEF Named
  <2> QED BY <1>1, <2>1, <2>2, <2>3, <2>4, <2>5, <2>6, <2>7 DEF HandlerOK
<1> QED BY <1>3, <1>4, <1>6, <1>9, <1>10 DEF Agreeing

-------------------------------------------------------------------------------
\* The parent /proc names is known, for the child is.
LEMMA ParentBond ==
  ASSUME KernelTypeOK, TaskInv, QueueInv, NEW p, Known(p), InProc(p), Ppid(p) # 0
  PROVE  Bond(Ppid(p), p)
<1>1. /\ p \in Pid /\ task[p].parent \in Pid /\ Running(task[p].parent)
      /\ Ppid(p) = task[task[p].parent].tgid /\ Ppid(p) \in Pid
  BY TaskFields DEF Known, Ppid, TaskInv
<1>2. task[Ppid(p)].st # "new" /\ task[Ppid(p)].tgid = Ppid(p)
  BY <1>1 DEF TaskInv, Running
<1>3. ~ForkDue(Ppid(p))
  BY <1>1, TaskFields DEF QueueInv, ForksInOrder, ForkDue, Known
<1>4. Going(Ppid(p)) \/ Threaded(Ppid(p))
  BY <1>1 DEF Going, Threaded
<1> QED BY <1>1, <1>2, <1>3, <1>4 DEF Bond, Known, Related

\* A record that is being read is not of a dead process.
LEMMA ReadLives ==
  ASSUME IInv, AgeInv, Agreeing, Reading
  PROVE  /\ fr.tgt \in Rec /\ heap[fr.tgt] \in Proc /\ fr \in Frame /\ ~Dead(fr.tgt)
         /\ fr.ret \in {"pare", "chil", "reaper"} => Loading(fr.tgt) /\ ~InTable(fr.tgt)
<1>1. /\ fr.tgt \in Rec /\ heap[fr.tgt] # Free /\ heap[fr.tgt] \in Proc /\ fr \in Frame
      /\ fr.ret # ""
  BY TreeFacts DEF IInv, FrameOK
<1>2. CASE Loading(fr.tgt)
  BY <1>1, <1>2 DEF IInv, FrameOK, Dead, Owners
<1>3. CASE fr.ret = "orphan"
  BY <1>1, <1>3 DEF IInv, FrameOK
<1>4. CASE fr.ret = "exec"
  <2>1. heap[fr.tgt].pid # 0 /\ Going(heap[fr.tgt].pid)
    BY <1>1, <1>4, Numbered DEF Agreeing, HandlerOK, IInv, FrameOK
  <2> QED BY <1>1, <1>4, <2>1 DEF Agreeing, RecordsOK, RecordOK
<1>5. Loading(fr.tgt) \/ fr.ret \in {"orphan", "exec"}
  BY <1>1, FrameFields DEF Loading
<1>6. fr.ret \in {"pare", "chil", "reaper"} => Loading(fr.tgt)
  BY DEF Loading
<1> QED BY <1>1, <1>2, <1>3, <1>4, <1>5, <1>6

\* A read that succeeds
LEMMA RefreshAgrees ==
  ASSUME IInv, AgeInv, Agreeing, UNCHANGED <<buckets, kids, pare, task, clock, evq>>,
         fr.pc \in {"stat", "status", "fd"}, NEW x \in Proc,
         heap' = [heap EXCEPT ![fr.tgt] = x],
         x.pid = heap[fr.tgt].pid, x.death_time = heap[fr.tgt].death_time,
         \/ x.ppid = heap[fr.tgt].ppid /\ fr.pc # "stat"
         \/ x.ppid # 0 => Bond(x.ppid, x.pid),
         \A a \in Attr : \/ x.attr[a] = task[x.pid].attr[a]
                         \/ /\ x.attr[a] = heap[fr.tgt].attr[a]
                            /\ \/ ~Unread(fr.tgt, a)
                               \/ a # "comm" /\ fr' = [fr EXCEPT !.pc = "status"],
         \/ fr' = Looked
         \/ \E pc \in {"status", "fd"} : fr' = [fr EXCEPT !.pc = pc]
  PROVE  Agreeing'
<1>1. PICK t \in Rec : t = fr.tgt /\ heap[t] \in Proc /\ fr \in Frame /\ ~Dead(t)
                       /\ (fr.ret = "reaper" => ~InTable(t))
  BY ReadLives DEF Reading
<1>2. /\ heap'[t] = x /\ \A r \in Rec : r # t => heap'[r] = heap[r]
      /\ \A r \in Rec : heap'[r].pid = heap[r].pid
  BY <1>1, TreeFacts
<1>3. TaskInv' /\ QueueInv'
  BY StillQueue DEF Agreeing
<1>4. PidsUnique' /\ KinOK'
  <2>1. pare' = pare
    OBVIOUS
  <2> QED BY <2>1, <1>2, PidsKept, KinKept DEF Agreeing
<1>5. heap[t] # Free /\ x # Free
  BY <1>1, FreeIsNoProc
<1>6. ASSUME NEW r \in Rec, r # t PROVE RecordOK(r)'
  <2>1. \A a \in Attr : ~Unread(r, a)
    BY <1>1, <1>6 DEF Unread
  <2> QED BY <1>2, <1>6, <2>1, RecordKept DEF Agreeing, RecordsOK
<1>7. RecordOK(t)'
  <2>1. SUFFICES ASSUME x.pid # 0 PROVE RecordOK(t)'
    BY <1>2 DEF RecordOK
  <2>2. PICK p : p = x.pid /\ p = heap[t].pid
    BY <1>1
  <2>3. /\ Known(p) /\ (Going(p) \/ Threaded(p)) /\ \A a \in Attr : AttrOK(t, a)
    BY <1>1, <1>5, <2>1, <2>2 DEF Agreeing, RecordsOK, RecordOK
  <2>4. ~Dead(t)'
    BY <1>1, <1>2, <1>5 DEF Dead
  <2>5. /\ Known(p)' /\ (Going(p)' \/ Threaded(p)') /\ (ExitDue(p)' <=> ExitDue(p))
    BY <2>3, Stillness
  <2>6. ASSUME NEW a \in Attr PROVE AttrOK(t, a)'
    <3>1. CASE x.attr[a] = task[p].attr[a]
      BY <3>1, <1>2, <2>2 DEF AttrOK
    <3>2. CASE x.attr[a] # task[p].attr[a]
      <4>1. /\ x.attr[a] = heap[t].attr[a]
            /\ ~Unread(t, a) \/ (a # "comm" /\ fr' = [fr EXCEPT !.pc = "status"])
        BY <3>2, <1>1, <2>2
      <4>2. Unread(t, a) => Unread(t, a)'
        BY <4>1, <1>1 DEF Unread, Frame
      <4>3. Pending' = Pending
        BY Stillness
      <4>4. \/ AllocMayFail \/ ExitDue(p)' \/ Unread(t, a)'
            \/ \E e \in Pending' : Settles(e, p, a)
        BY <3>2, <4>1, <4>2, <4>3, <2>2, <2>3, <2>5 DEF AttrOK
      <4> QED BY <4>4, <1>2, <2>2 DEF AttrOK, Settles
    <3> QED BY <3>1, <3>2
  <2> QED BY <1>2, <2>2, <2>4, <2>5, <2>6 DEF RecordOK
<1>8. RecordsOK'
  BY <1>6, <1>7 DEF RecordsOK
<1>9. ASSUME NEW pc \in {"status", "fd", "link", "repare"}, fr' = [fr EXCEPT !.pc = pc]
      PROVE  HandlerOK'
  <2>1. /\ fr'.pc = pc /\ fr'.ret = fr.ret /\ fr'.tgt = fr.tgt /\ fr'.pare = fr.pare
        /\ fr'.chil = fr.chil /\ fr'.pid = fr.pid
    BY <1>1, <1>9 DEF Frame
  <2>2. \A r \in Rec : InTable(r)' <=> InTable(r)
    BY DEF InTable, InBucket
  <2>3. HandlerOK
    BY DEF Agreeing
  <2>4. \A p : (Known(p)' <=> Known(p)) /\ (Going(p)' <=> Going(p))
    BY Stillness
  <2>5. \A b, p : (Related(b, p)' <=> Related(b, p)) /\ (Bond(b, p)' <=> Bond(b, p))
    BY Stillness
  <2>6. /\ fr.ret = "chil" => fr.pare \in Rec
        /\ fr.ret \in {"orphan", "reaper"} => fr.chil \in Rec
        /\ fr.ret = "orphan" => fr.chil = t
        /\ fr.ret = "reaper" => fr.chil # t
    BY <1>1, NullNotRec DEF IInv, FrameOK, NoDangling
  <2>7. ASSUME Named', heap'[fr.chil].ppid # 0
        PROVE  Bond(heap'[fr.chil].ppid, heap[fr.chil].pid)
    <3>1. CASE fr.ret = "reaper"
      <4>1. heap'[fr.chil] = heap[fr.chil]
        BY <3>1, <1>2, <2>6
      <4> QED BY <3>1, <4>1, <2>3, <2>7 DEF HandlerOK, Named
    <3>2. CASE fr.ret = "orphan"
      <4>1. CASE x.ppid = heap[t].ppid /\ fr.pc # "stat"
        <5>1. Named
          BY <3>2, <4>1 DEF Named
        <5> QED BY <3>2, <4>1, <5>1, <1>2, <2>3, <2>6, <2>7 DEF HandlerOK
      <4>2. CASE x.ppid # 0 => Bond(x.ppid, x.pid)
        BY <3>2, <4>2, <1>1, <1>2, <2>6, <2>7
      <4> QED BY <4>1, <4>2, <1>1
    <3> QED BY <3>1, <3>2, <2>1, <2>7 DEF Named
  <2>8. /\ fr'.pc = "load" \/ fr'.ret \in {"pare", "chil"} =>
             /\ Known(fr.pid)' /\ Going(fr.pid)'
             /\ \A r \in Rec : InTable(r)' => heap'[r].pid # fr'.pid
        /\ fr'.pc # "load" /\ fr'.ret = "pare" /\ heap'[fr'.tgt].pid # 0 =>
             /\ heap'[fr'.tgt].pid # fr'.pid
             /\ Going(heap[fr.tgt].pid)' /\ Related(heap[fr.tgt].pid, fr.pid)'
    BY <1>1, <1>2, <1>9, <2>1, <2>2, <2>3, <2>4, <2>5 DEF HandlerOK
  <2>9. /\ fr'.pc = "load" \/ fr'.ret = "chil" =>
             Going(heap[fr.pare].pid)' /\ Related(heap[fr.pare].pid, fr.pid)'
        /\ fr'.ret = "exec" => Going(heap[fr.tgt].pid)'
        /\ fr'.ret \in {"orphan", "reaper"} => Going(heap[fr.chil].pid)'
    BY <1>1, <1>2, <1>9, <2>1, <2>3, <2>4, <2>5, <2>6 DEF HandlerOK
  <2>10. Named' /\ heap'[fr'.chil].ppid # 0 => Bond(heap[fr.chil].ppid, heap[fr.chil].pid)'
    <3>1. Named' => fr.ret \in {"orphan", "reaper"}
      BY <2>1 DEF Named
    <3> QED BY <1>2, <2>1, <2>5, <2>6, <2>7, <3>1
  <2> QED BY <2>8, <2>9, <2>10 DEF HandlerOK
<1>10. HandlerOK'
  <2>1. fr' = Looked => fr' = Idle \/ \E pc \in {"link", "repare"} : fr' = [fr EXCEPT !.pc = pc]
    BY DEF Looked
  <2> QED BY <1>9, <2>1, NothingHandled
<1> QED BY <1>3, <1>4, <1>8, <1>10 DEF Agreeing

\* A read that fails: the record that was loaded is freed; any other one is of a
\* process whose exit is told later, or nothing could be opened.
LEMMA FailedReadAgrees ==
  ASSUME IInv, AgeInv, Agreeing, UNCHANGED <<buckets, kids, pare, task, clock, evq>>,
         Reading, prfs_fail, CannotOpen(heap[fr.tgt].pid)
  PROVE  Agreeing'
<1>1. PICK t \in Rec : t = fr.tgt /\ heap[t] \in Proc /\ fr \in Frame /\ ~Dead(t)
                       /\ (fr.ret \in {"pare", "chil", "reaper"} => ~InTable(t))
  BY ReadLives
<1>2. fr' = Idle
  BY DEF prfs_fail
<1>3. TaskInv' /\ QueueInv'
  BY StillQueue DEF Agreeing
<1>4. /\ \A r \in Rec : r # t => heap'[r] = heap[r]
      /\ heap'[t] = heap[t] \/ (heap'[t] = Free /\ ~InTable(t))
      /\ fr.ret \in {"pare", "chil", "reaper"} => heap'[t] = Free
  <2>1. CASE fr.ret \in {"pare", "chil", "reaper"}
    BY <2>1, <1>1, TreeFacts DEF prfs_fail
  <2>2. CASE fr.ret \notin {"pare", "chil", "reaper"}
    BY <2>2 DEF prfs_fail
  <2> QED BY <2>1, <2>2
<1>5. \A r \in Rec : InTable(r) => heap'[r] = heap[r]
  BY <1>4
<1>6. PidsUnique' /\ KinOK'
  BY <1>5, PidsKept, KinKept DEF Agreeing
<1>7. ASSUME NEW r \in Rec PROVE RecordOK(r)'
  <2>1. ASSUME NEW a \in Attr, Unread(r, a), heap'[t] # Free
        PROVE  ExitDue(heap[r].pid) \/ AllocMayFail
    <3>1. fr.ret \in {"exec", "orphan"} /\ r = t /\ fr.pc # "fd"
      BY <1>1, <1>4, <2>1, FrameFields DEF Unread, IInv, FrameOK
    <3>2. Going(heap[t].pid)
      BY <1>1, <3>1 DEF Agreeing, HandlerOK, IInv, FrameOK
    <3> QED BY <1>1, <3>1, <3>2 DEF CannotOpen, Going, InProc, Running
  <2>2. CASE r = t /\ heap'[t] = Free
    BY <2>2 DEF RecordOK
  <2>3. CASE ~(r = t /\ heap'[t] = Free)
    <3>1. heap'[r] = heap[r] /\ RecordOK(r)
      BY <1>4, <2>3 DEF Agreeing, RecordsOK
    <3>2. \A a \in Attr : Unread(r, a) => ExitDue(heap[r].pid) \/ AllocMayFail
      BY <2>1, <2>3, <1>1 DEF Unread
    <3> QED BY <3>1, <3>2, RecordKept
  <2> QED BY <2>2, <2>3
<1> QED BY <1>2, <1>3, <1>6, <1>7, NothingHandled DEF Agreeing, RecordsOK

\* The reads of /proc, with their failures (proc_load, prfs_look)
LEMMA ReadsAgree ==
  ASSUME IInv, AgeInv, Agreeing, prfs_stat \/ prfs_status \/ prfs_fd
  PROVE  Agreeing'
<1> DEFINE old == heap[fr.tgt]
           p == old.pid
<1>1. /\ UNCHANGED <<buckets, kids, pare, task, clock, evq>>
      /\ fr.pc \in {"stat", "status", "fd"} /\ Reading
  BY DEF prfs_stat, prfs_status, prfs_fd, Reading
<1>2. KernelTypeOK /\ TaskInv /\ QueueInv /\ 0 \notin Pid /\ "comm" \in Attr
  BY TypeParts, KernelConstants DEF IInv, Agreeing
<1>3. old \in Proc /\ fr.tgt \in Rec /\ fr \in Frame /\ ~Dead(fr.tgt)
  BY <1>1, ReadLives
<1>4. CASE prfs_fail /\ CannotOpen(p)
  BY <1>1, <1>4, FailedReadAgrees
<1>5. CASE prfs_stat /\ InProc(p) /\ ~(prfs_fail /\ CannotOpen(p))
  <2> DEFINE x == [old EXCEPT !.ppid = Ppid(p),
                              !.birth_ppid = IF @ = -1 THEN Ppid(p) ELSE @,
                              !.attr["comm"] = task[p].attr["comm"],
                              !.alive = TRUE]
  <2>1. /\ heap' = [heap EXCEPT ![fr.tgt] = x] /\ fr' = [fr EXCEPT !.pc = "status"]
        /\ fr.pc = "stat"
    BY <1>5 DEF prfs_stat
  <2>2. Ppid(p) \in Pid \cup {0} /\ task[p].attr["comm"] \in Val /\ p \in Pid
    BY <1>2, <1>5, ProcFiles
  <2>3. x \in Proc /\ x.pid = p /\ x.ppid = Ppid(p) /\ x.death_time = old.death_time
    BY <1>3, <2>2 DEF Proc
  <2>4. /\ x.attr["comm"] = task[p].attr["comm"]
        /\ \A a \in Attr : a # "comm" => x.attr[a] = old.attr[a]
    BY <1>2, <1>3 DEF Proc
  <2>5. Ppid(p) # 0 => Bond(Ppid(p), p)
    <3>1. Known(p)
      BY <1>2, <1>3, <2>2, FreeIsNoProc DEF Agreeing, RecordsOK, RecordOK
    <3> QED BY <1>2, <1>5, <3>1, ParentBond
  <2> HIDE DEF x
  <2>6. \A a \in Attr : \/ x.attr[a] = task[x.pid].attr[a]
                        \/ /\ x.attr[a] = old.attr[a]
                           /\ \/ ~Unread(fr.tgt, a)
                              \/ a # "comm" /\ fr' = [fr EXCEPT !.pc = "status"]
    BY <2>1, <2>3, <2>4
  <2>7. x.ppid # 0 => Bond(x.ppid, x.pid)
    BY <2>3, <2>5
  <2> HIDE DEF p
  <2> QED BY <1>1, <2>1, <2>3, <2>6, <2>7, RefreshAgrees DEF p
<1>6. CASE prfs_status /\ InProc(p) /\ ~(prfs_fail /\ CannotOpen(p))
  <2> DEFINE t == [a \in Attr |-> IF a = "comm" THEN old.attr[a] ELSE task[p].attr[a]]
             x == [old EXCEPT !.attr = t]
  <2>1. heap' = [heap EXCEPT ![fr.tgt] = x] /\ fr.pc = "status"
    BY <1>6 DEF prfs_status
  <2>2. fr' = [fr EXCEPT !.pc = "fd"] \/ fr' = Looked
    BY <1>6 DEF prfs_status
  <2>3. t \in [Attr -> Val \cup {0}]
    BY <1>2, <1>3, <1>6, ProcFiles DEF Proc
  <2>4. /\ t["comm"] = old.attr["comm"]
        /\ \A a \in Attr : a # "comm" => t[a] = task[p].attr[a]
    BY <1>2
  <2> HIDE DEF t
  <2>5. /\ x \in Proc /\ x.pid = p /\ x.ppid = old.ppid /\ x.death_time = old.death_time
        /\ x.attr = t
    BY <2>3, <1>3 DEF Proc
  <2>6. \A a \in Attr : \/ x.attr[a] = task[x.pid].attr[a]
                        \/ x.attr[a] = old.attr[a] /\ ~Unread(fr.tgt, a)
    BY <2>1, <2>4, <2>5 DEF Unread
  <2> HIDE DEF x
  <2> QED BY <1>1, <2>1, <2>2, <2>5, <2>6, RefreshAgrees
<1>7. CASE prfs_fd /\ fr' = Looked /\ UNCHANGED heap
  <2>1. heap' = [heap EXCEPT ![fr.tgt] = old] /\ fr.pc = "fd"
    BY <1>7, TreeFacts DEF prfs_fd
  <2>2. \A a \in Attr : ~Unread(fr.tgt, a)
    BY <2>1 DEF Unread
  <2> HIDE DEF old
  <2> QED BY <1>1, <1>3, <1>7, <2>1, <2>2, RefreshAgrees DEF old
<1> QED BY <1>4, <1>5, <1>6, <1>7 DEF prfs_stat, prfs_status, prfs_fd

-------------------------------------------------------------------------------
\* proc_load: nothing of the new record has been read yet.
LEMMA LoadAgrees ==
  ASSUME IInv, PidsUnique, UNCHANGED <<buckets, pare>>, TaskInv', QueueInv',
         NEW pid \in Pid \cup {0}, NEW f \in Frame, NEW s \in {"pare", "chil", "reaper"},
         proc_load(pid, f, s),
         \A r \in Rec : heap'[r] = heap[r] => RecordOK(r)',
         (\A r \in Rec : InTable(r) => heap'[r] = heap[r]) => KinOK',
         pid # 0 => Known(pid)' /\ (Going(pid)' \/ Threaded(pid)'),
         s \in {"pare", "chil"} =>
           /\ Known(f.pid)' /\ Going(f.pid)'
           /\ \A r \in Rec : InTable(r) => heap[r].pid # f.pid,
         s = "pare" /\ pid # 0 => pid # f.pid /\ Going(pid)' /\ Related(pid, f.pid)',
         s = "chil" => \E p \in Rec : /\ p = f.pare /\ InTable(p)
                                      /\ \E b : /\ b = heap[p].pid
                                                /\ Going(b)' /\ Related(b, f.pid)',
         s = "reaper" => \E c \in Rec : /\ c = f.chil /\ InTable(c) /\ heap[c].ppid = pid
                                        /\ \E a : /\ a = heap[c].pid /\ Going(a)'
                                                  /\ pid # 0 => Bond(pid, a)'
  PROVE  Agreeing'
<1>1. \A r \in Rec : InTable(r)' <=> InTable(r)
  BY DEF InTable, InBucket
<1>2. CASE fr' = Idle /\ UNCHANGED heap
  BY <1>2, PidsKept, NothingHandled DEF Agreeing, RecordsOK
<1>3. ASSUME NEW t \in Rec \ Allocated, heap' = [heap EXCEPT ![t] = Blank(pid)],
             fr' = [f EXCEPT !.pc = "stat", !.tgt = t, !.ret = s]
      PROVE  Agreeing'
  <2>1. ~InTable(t) /\ heap[t] = Free
    BY <1>3 DEF Allocated, IInv, Owners
  <2>2. heap'[t] = Blank(pid) /\ \A q \in Rec : q # t => heap'[q] = heap[q]
    BY <1>3, TreeFacts
  <2>3. Blank(pid).pid = pid /\ Blank(pid).death_time = 0
    BY DEF Blank
  <2>4. /\ fr'.pc = "stat" /\ fr'.tgt = t /\ fr'.ret = s /\ fr'.pid = f.pid
        /\ fr'.pare = f.pare /\ fr'.chil = f.chil
    BY <1>3 DEF Frame
  <2>5. \A q \in Rec : InTable(q) => heap'[q] = heap[q]
    BY <2>1, <2>2
  <2>6. PidsUnique' /\ KinOK'
    BY <2>5, PidsKept
  <2>7. RecordOK(t)'
    <3>1. ~Dead(t)' /\ \A a \in Attr : Unread(t, a)'
      BY <2>2, <2>3, <2>4 DEF Dead, Unread
    <3> QED BY <2>2, <2>3, <3>1 DEF RecordOK, AttrOK
  <2>8. RecordsOK'
    BY <2>2, <2>7 DEF RecordsOK
  <2>9. ~Named' \/ s = "reaper"
    BY <2>4 DEF Named
  <2>10. /\ fr'.pc = "load" \/ fr'.ret \in {"pare", "chil"} =>
              /\ Known(fr.pid)' /\ Going(fr.pid)'
              /\ \A r \in Rec : InTable(r)' => heap'[r].pid # fr'.pid
         /\ fr'.pc # "load" /\ fr'.ret = "pare" /\ heap'[fr'.tgt].pid # 0 =>
              /\ heap'[fr'.tgt].pid # fr'.pid
              /\ Going(heap[fr.tgt].pid)' /\ Related(heap[fr.tgt].pid, fr.pid)'
    BY <1>1, <2>2, <2>3, <2>4, <2>5
  <2>11. fr'.pc = "load" \/ fr'.ret = "chil" =>
           Going(heap[fr.pare].pid)' /\ Related(heap[fr.pare].pid, fr.pid)'
    BY <2>4, <2>5
  <2>12. /\ fr'.ret = "exec" => Going(heap[fr.tgt].pid)'
         /\ fr'.ret \in {"orphan", "reaper"} => Going(heap[fr.chil].pid)'
    BY <2>4, <2>5
  <2>13. Named' /\ heap'[fr'.chil].ppid # 0 => Bond(heap[fr.chil].ppid, heap[fr.chil].pid)'
    BY <2>4, <2>5, <2>9
  <2>14. HandlerOK'
    BY <2>10, <2>11, <2>12, <2>13 DEF HandlerOK
  <2> QED BY <2>6, <2>8, <2>14 DEF Agreeing
<1> QED BY <1>2, <1>3 DEF proc_load

\* A record that gets no node is freed.
LEMMA FailedInsertAgrees ==
  ASSUME IInv, KeyInv, Agreeing, fr.pc = "link", inse_fail, UNCHANGED <<task, clock, evq>>
  PROVE  Agreeing'
<1>1. PICK t \in Rec : t = fr.tgt /\ Loading(t) /\ ~InTable(t)
  BY Linking DEF IInv, Owners
<1>2. /\ heap'[t] = Free /\ \A r \in Rec : r # t => heap'[r] = heap[r]
      /\ fr' = Idle /\ UNCHANGED <<buckets, pare>>
  BY <1>1, TreeFacts DEF inse_fail
<1>3. TaskInv' /\ QueueInv'
  BY StillQueue DEF Agreeing
<1>4. \A r \in Rec : InTable(r) => heap'[r] = heap[r]
  BY <1>1, <1>2
<1>5. PidsUnique' /\ KinOK'
  BY <1>2, <1>4, PidsKept, KinKept DEF Agreeing
<1>6. ASSUME NEW r \in Rec PROVE RecordOK(r)'
  <2>1. \A a \in Attr : ~Unread(r, a)
    BY DEF Unread
  <2> QED BY <1>2, <2>1, RecordKept DEF Agreeing, RecordsOK
<1> QED BY <1>2, <1>3, <1>5, <1>6, NothingHandled DEF Agreeing, RecordsOK

\* A record the table had none of its pid of gets its node.
LEMMA InsertAgrees ==
  ASSUME IInv, Agreeing, fr.pc = "link", UNCHANGED <<task, clock, evq>>,
         NEW t \in Rec, Loading(t), NEW x \in Proc,
         x.pid = heap[t].pid, x.alive = heap[t].alive, x.death_time = heap[t].death_time,
         x.attr = heap[t].attr,
         heap' = [heap EXCEPT ![t] = x], proc_inse(t, heap[t].pid),
         \A r \in Rec : InTable(r) => heap[r].pid # heap[t].pid,
         \A r \in Rec : pare'[r] # NULL =>
           \/ pare'[r] = pare[r]
           \/ Going(heap'[r].pid) /\ Related(heap'[pare'[r]].pid, heap'[r].pid),
         HandlerOK'
  PROVE  Agreeing'
<1>1. /\ heap'[t] = x /\ \A q \in Rec : q # t => heap'[q] = heap[q]
      /\ \A q \in Rec : InTable(q)' <=> InTable(q) \/ q = t
      /\ ~InTable(t)
  BY InsertStep
<1>2. TaskInv' /\ QueueInv'
  BY StillQueue DEF Agreeing
<1>3. \A r \in Rec : heap'[r].pid = heap[r].pid
  BY <1>1
<1>4. PidsUnique'
  BY <1>1, <1>3 DEF Agreeing, PidsUnique
<1>5. KinOK'
  BY <1>3, KinKept DEF Agreeing
<1>6. heap[t] # Free
  BY DEF IInv, Owners
<1>7. ASSUME NEW r \in Rec PROVE RecordOK(r)'
  <2>1. \A a \in Attr : ~Unread(r, a)
    BY DEF Unread
  <2> QED BY <1>1, <1>6, <2>1, RecordKept DEF Agreeing, RecordsOK
<1> QED BY <1>2, <1>4, <1>5, <1>7 DEF Agreeing, RecordsOK

\* A loaded record gets its node and its place in the tree (even_fork, re_pare).
LEMMA LinksAgree ==
  ASSUME IInv, KeyInv, AgeInv, Agreeing, fork_pare \/ fork_chil \/ re_pare_load
  PROVE  Agreeing'
<1>1. fr.pc = "link" /\ UNCHANGED <<task, clock, evq>>
  BY DEF fork_pare, fork_chil, re_pare_load
<1>2. PICK t \in Rec : /\ t = fr.tgt /\ Loading(t) /\ heap[t] \in Proc /\ fr \in Frame
                       /\ ~InTable(t) /\ heap[t].pid # 0
  BY <1>1, Linking, Numbered DEF IInv, Owners
<1>3. HandlerOK /\ LoadedIsNew
  BY DEF Agreeing, KeyInv
<1>4. CASE inse_fail
  BY <1>1, <1>4, FailedInsertAgrees
<1> DEFINE y == [heap[t] EXCEPT !.birth_ppid = -1]
<1>5. /\ y \in Proc /\ y.pid = heap[t].pid /\ y.alive = heap[t].alive
      /\ y.death_time = heap[t].death_time /\ y.attr = heap[t].attr
  BY <1>2 DEF Proc
<1>6. Loaded = [heap EXCEPT ![t] = y] /\ Loaded[t] = y
  BY <1>2, TreeFacts DEF Loaded
<1> HIDE DEF y
<1>7. ASSUME NEW p \in Rec, NEW c \in Rec, atta_chil(p, c),
             Going(heap'[c].pid) /\ Related(heap'[p].pid, heap'[c].pid)
      PROVE  \A r \in Rec : pare'[r] # NULL =>
               \/ pare'[r] = pare[r]
               \/ Going(heap'[r].pid) /\ Related(heap'[pare'[r]].pid, heap'[r].pid)
  <2>1. pare'[c] = p /\ \A r \in Rec : r # c => pare'[r] = pare[r]
    BY <1>7, TreeFacts DEF atta_chil, ForestTypeOK
  <2> QED BY <1>7, <2>1
<1>8. CASE fork_pare /\ ~inse_fail
  <2>1. /\ heap' = [heap EXCEPT ![t] = y] /\ proc_inse(t, heap[t].pid) /\ UNCHANGED pare
        /\ fr' = [fr EXCEPT !.pc = "load", !.pare = t, !.tgt = NULL] /\ fr.ret = "pare"
    BY <1>2, <1>6, <1>8 DEF fork_pare
  <2>2. /\ fr'.pc = "load" /\ fr'.ret = "pare" /\ fr'.pare = t /\ fr'.pid = fr.pid
    BY <1>2, <2>1 DEF Frame
  <2>3. /\ heap'[t] = y /\ \A r \in Rec : r # t => heap'[r] = heap[r]
        /\ \A r \in Rec : InTable(r)' <=> InTable(r) \/ r = t
    BY <1>2, <1>5, <2>1, InsertStep
  <2>4. /\ Known(fr.pid) /\ Going(fr.pid)
        /\ \A r \in Rec : InTable(r) => heap[r].pid # fr.pid
        /\ heap[t].pid # fr.pid /\ Going(heap[t].pid) /\ Related(heap[t].pid, fr.pid)
    BY <1>1, <1>2, <1>3, <2>1 DEF HandlerOK
  <2>5. /\ Known(fr.pid)' /\ Going(fr.pid)'
        /\ Going(heap[fr.pare].pid)' /\ Related(heap[fr.pare].pid, fr.pid)'
    <3>1. heap'[fr'.pare].pid = heap[t].pid
      BY <1>5, <2>2, <2>3
    <3> QED BY <1>1, <2>2, <2>4, <3>1, Stillness
  <2>6. \A r \in Rec : InTable(r)' => heap'[r].pid # fr'.pid
    BY <1>5, <2>2, <2>3, <2>4
  <2>7. HandlerOK'
    BY <2>2, <2>5, <2>6 DEF HandlerOK, Named
  <2>8. \A r \in Rec : InTable(r) => heap[r].pid # heap[t].pid
    BY <1>2, <1>3, <2>1 DEF LoadedIsNew
  <2> QED BY <1>1, <1>2, <1>5, <2>1, <2>7, <2>8, InsertAgrees
<1>9. CASE re_pare_load /\ ~inse_fail
  <2>1. /\ heap' = [heap EXCEPT ![t] = y] /\ proc_inse(t, heap[t].pid)
        /\ atta_chil(t, fr.chil) /\ fr' = Looping /\ fr.ret = "reaper"
    BY <1>2, <1>6, <1>9 DEF re_pare_load
  <2>2. PICK c \in Rec : c = fr.chil /\ InTable(c) /\ c # t
    BY <1>2, <2>1, NullNotRec DEF IInv, FrameOK, NoDangling
  <2>3. heap'[t] = y /\ heap'[c] = heap[c]
    BY <1>2, <2>1, <2>2, TreeFacts
  <2>4. heap[t].pid = heap[c].ppid
    BY <1>2, <2>1, <2>2, Numbered
  <2>5. Going(heap[c].pid) /\ Related(heap[t].pid, heap[c].pid)
    BY <1>2, <1>3, <2>1, <2>2, <2>4 DEF HandlerOK, Named, Bond
  <2>6. \A r \in Rec : pare'[r] # NULL =>
          \/ pare'[r] = pare[r]
          \/ Going(heap'[r].pid) /\ Related(heap'[pare'[r]].pid, heap'[r].pid)
    BY <1>5, <1>7, <2>1, <2>2, <2>3, <2>5
  <2>7. HandlerOK'
    BY <1>2, <2>1, LoopFrame, NothingHandled
  <2>8. \A r \in Rec : InTable(r) => heap[r].pid # heap[t].pid
    BY <1>2, <1>3, <2>1 DEF LoadedIsNew
  <2> QED BY <1>1, <1>2, <1>5, <2>1, <2>6, <2>7, <2>8, InsertAgrees
<1>10. CASE fork_chil /\ ~inse_fail
  <2> DEFINE x == [y EXCEPT !.birth_time = fr.ts]
  <2>1. /\ heap' = [Loaded EXCEPT ![t].birth_time = fr.ts] /\ proc_inse(t, fr.pid)
        /\ atta_chil(fr.pare, t) /\ fr' = Idle /\ fr.ret = "chil"
    BY <1>2, <1>10 DEF fork_chil
  <2>2. heap' = [heap EXCEPT ![t] = x]
    BY <1>2, <1>6, <2>1, TreeFacts
  <2>3. /\ x \in Proc /\ x.pid = heap[t].pid /\ x.alive = heap[t].alive
        /\ x.death_time = heap[t].death_time /\ x.attr = heap[t].attr
        /\ heap[t].pid = fr.pid
    BY <1>2, <1>5, <2>1, FrameFields DEF Proc, IInv, FrameOK
  <2>4. PICK p \in Rec : p = fr.pare /\ InTable(p) /\ p # t
    BY <1>2, <2>1, NullNotRec DEF IInv, FrameOK, NoDangling
  <2> HIDE DEF x
  <2>5. heap'[t] = x /\ heap'[p] = heap[p]
    BY <1>2, <2>2, <2>4, TreeFacts
  <2>6. /\ Going(heap[t].pid) /\ Related(heap[p].pid, heap[t].pid)
        /\ \A r \in Rec : InTable(r) => heap[r].pid # heap[t].pid
    BY <1>3, <2>1, <2>3, <2>4 DEF HandlerOK
  <2>7. \A r \in Rec : pare'[r] # NULL =>
          \/ pare'[r] = pare[r]
          \/ Going(heap'[r].pid) /\ Related(heap'[pare'[r]].pid, heap'[r].pid)
    BY <1>7, <2>1, <2>3, <2>4, <2>5, <2>6
  <2>8. HandlerOK' /\ proc_inse(t, heap[t].pid)
    BY <2>1, <2>3, NothingHandled DEF proc_inse
  <2> QED BY <1>1, <1>2, <2>2, <2>3, <2>6, <2>7, <2>8, InsertAgrees
<1> QED BY <1>4, <1>8, <1>9, <1>10

\* Between the reads: the child of a fork, the loop over the orphans, the parent
\* that is in the table
LEMMA OthersAgree ==
  ASSUME IInv, KeyInv, AgeInv, Agreeing, fork_load \/ exit_loop \/ re_pare
  PROVE  Agreeing'
<1>1. /\ UNCHANGED <<buckets, task, clock, evq>> /\ fr \in Frame
      /\ fr.pc \in {"load", "loop", "repare"}
  BY TreeFacts DEF fork_load, exit_loop, re_pare
<1>2. /\ TaskInv' /\ QueueInv' /\ HandlerOK /\ PidsUnique
      /\ \A r : InTable(r)' <=> InTable(r)
  BY <1>1, StillQueue DEF Agreeing, InTable, InBucket
<1>3. ASSUME NEW r \in Rec, heap'[r] = heap[r] PROVE RecordOK(r)'
  <2>1. \A a \in Attr : ~Unread(r, a)
    BY <1>1 DEF Unread
  <2> QED BY <1>1, <1>3, <2>1, RecordKept DEF Agreeing, RecordsOK
<1>4. UNCHANGED heap => RecordsOK' /\ PidsUnique'
  BY <1>1, <1>3, PidsKept DEF Agreeing, RecordsOK
<1>5. ASSUME UNCHANGED pare, \A r \in Rec : InTable(r) => heap'[r] = heap[r] PROVE KinOK'
  BY <1>1, <1>5, KinKept DEF Agreeing
<1>6. CASE fork_load
  <2>1. /\ proc_load(fr.pid, fr, "chil") /\ fr.pid \in Pid /\ UNCHANGED pare /\ fr.pc = "load"
        /\ fr.pare \in Rec /\ InTable(fr.pare)
    BY <1>6, NullNotRec DEF fork_load, IInv, FrameOK, NoDangling
  <2>2. /\ Known(fr.pid) /\ Going(fr.pid)
        /\ \A r \in Rec : InTable(r) => heap[r].pid # fr.pid
        /\ Going(heap[fr.pare].pid) /\ Related(heap[fr.pare].pid, fr.pid)
    BY <1>2, <2>1 DEF HandlerOK
  <2>3. PICK pid \in Pid, b \in Nat : pid = fr.pid /\ b = heap[fr.pare].pid
    BY <2>1, TreeFacts, ProcFields
  <2>4. Known(pid)' /\ Going(pid)' /\ Going(b)' /\ Related(b, pid)'
    BY <1>1, <2>2, <2>3, Stillness
  <2>5. PICK f \in Frame : f = fr
    BY <1>1
  <2>6. proc_load(pid, f, "chil") /\ f.pid = pid /\ f.pare \in Rec /\ InTable(f.pare)
        /\ b = heap[f.pare].pid
    BY <2>1, <2>3, <2>5
  <2> QED BY <1>1, <1>2, <1>3, <1>5, <2>1, <2>2, <2>3, <2>4, <2>6, LoadAgrees
<1>7. CASE exit_loop
  <2>1. UNCHANGED heap
    BY <1>7 DEF exit_loop
  <2>2. PICK d \in Rec : d = fr.dead
    BY <1>7 DEF exit_loop, IInv, FrameOK
  <2>3. CASE FirstKid(d) = NULL
    BY <1>2, <1>4, <1>5, <1>7, <2>1, <2>2, <2>3, NothingHandled DEF exit_loop, Agreeing
  <2>4. CASE FirstKid(d) # NULL
    <3>1. PICK c : /\ c = FirstKid(d) /\ deta_chil(d, c)
                   /\ fr' = [fr EXCEPT !.pc = "stat", !.tgt = c, !.chil = c, !.ret = "orphan"]
      BY <1>7, <2>2, <2>4 DEF exit_loop
    <3>2. c \in Rec /\ pare[c] = d
      <4>1. kids[d] \in Seq(Rec) /\ kids[d] # <<>> /\ c = kids[d][1]
        BY <2>2, <2>4, <3>1, TreeFacts DEF FirstKid, ForestTypeOK
      <4>2. 1 \in DOMAIN kids[d] /\ c \in Rec
        BY <4>1, EmptySeq, LenProperties, ElementOfSeq
      <4> QED BY <2>2, <4>1, <4>2 DEF IInv, Consistent, IsKid
    <3>3. \A r \in Rec : pare'[r] # NULL => pare'[r] = pare[r]
      BY <3>1, <3>2, TreeFacts DEF deta_chil, ForestTypeOK
    <3>4. KinOK'
      BY <1>1, <2>1, <3>3, KinKept DEF Agreeing
    <3>5. Going(heap[c].pid)
      BY <2>2, <3>2, NullNotRec DEF Agreeing, KinOK
    <3>6. fr'.pc = "stat" /\ fr'.ret = "orphan" /\ fr'.chil = c
      BY <1>1, <3>1 DEF Frame
    <3>7. Going(heap[fr.chil].pid)'
      BY <1>1, <2>1, <3>5, <3>6, Stillness
    <3>8. HandlerOK'
      BY <3>6, <3>7 DEF HandlerOK, Named
    <3> QED BY <1>2, <1>4, <2>1, <3>4, <3>8 DEF Agreeing
  <2> QED BY <2>3, <2>4
<1>8. CASE re_pare
  <2>1. PICK c \in Rec : c = fr.chil /\ InTable(c) /\ fr.ret = "orphan" /\ fr.pc = "repare"
    BY <1>8, NullNotRec DEF re_pare, IInv, FrameOK, NoDangling
  <2>2. heap[c] # Free /\ heap[c].ppid \in Pid \cup {0}
    BY <2>1, TreeFacts, ProcFields
  <2>3. PICK pid \in Pid \cup {0}, a \in Nat : pid = heap[c].ppid /\ a = heap[c].pid
    BY <2>1, <2>2, TreeFacts, ProcFields
  <2>4. Going(a) /\ (pid # 0 => Bond(pid, a))
    BY <1>2, <2>1, <2>3 DEF HandlerOK, Named
  <2>5. Going(a)' /\ (pid # 0 => Bond(pid, a)')
    BY <1>1, <2>4, Stillness
  <2>6. CASE proc_look(pid) = NULL
    <3>1. proc_load(pid, fr, "reaper") /\ UNCHANGED pare
      BY <1>8, <2>1, <2>3, <2>6 DEF re_pare
    <3>2. PICK f \in Frame : f = fr
      BY <1>1
    <3>3. proc_load(pid, f, "reaper") /\ c = f.chil
      BY <2>1, <3>1, <3>2
    <3>4. pid # 0 => Known(pid)' /\ (Going(pid)' \/ Threaded(pid)')
      BY <2>5 DEF Bond
    <3> QED BY <1>1, <1>2, <1>3, <1>5, <2>1, <2>3, <2>5, <3>1, <3>3, <3>4, LoadAgrees
  <2>7. CASE proc_look(pid) # NULL
    <3>1. PICK p \in Rec : p = proc_look(pid) /\ InTable(p) /\ heap[p].pid = pid
      BY <2>7, LookedUp
    <3>2. /\ UNCHANGED heap
          /\ \/ atta_chil(p, c) /\ fr' = Looping
             \/ fr' = Idle /\ UNCHANGED pare
      BY <1>8, <2>1, <2>3, <2>7, <3>1 DEF re_pare
    <3>3. HandlerOK'
      BY <1>1, <3>2, LoopFrame, NothingHandled
    <3>4. Related(pid, a)
      BY <2>4, <3>1, Numbered DEF Bond
    <3>5. \A r \in Rec : pare'[r] # NULL =>
            \/ pare'[r] = pare[r]
            \/ Going(heap'[r].pid) /\ Related(heap'[pare'[r]].pid, heap'[r].pid)
      <4>1. UNCHANGED pare \/ (pare'[c] = p /\ \A r \in Rec : r # c => pare'[r] = pare[r])
        BY <3>2, TreeFacts DEF atta_chil, ForestTypeOK
      <4> QED BY <4>1, <2>3, <2>4, <3>1, <3>2, <3>4
    <3>6. KinOK'
      BY <1>1, <3>2, <3>5, KinKept DEF Agreeing
    <3> QED BY <1>2, <1>4, <3>2, <3>3, <3>6 DEF Agreeing
  <2> QED BY <2>6, <2>7
<1> QED BY <1>6, <1>7, <1>8

-------------------------------------------------------------------------------
\* What is known of the processes when the event e has been received
LEMMA EventPassed ==
  ASSUME UNCHANGED task, NEW e, Pending' = Pending \ {e}
  PROVE  /\ \A p : /\ Known(p) => Known(p)' /\ (Threaded(p)' <=> Threaded(p))
                   /\ Going(p)' => Going(p)
                   /\ e.what # "exit" \/ e.pid # p =>
                        (Going(p)' <=> Going(p)) /\ (ExitDue(p)' <=> ExitDue(p))
         /\ \A b, a : Related(b, a)' <=> Related(b, a)
<1>1. ASSUME NEW p
      PROVE  /\ Known(p) => Known(p)' /\ (Threaded(p)' <=> Threaded(p))
             /\ ExitDue(p)' => ExitDue(p)
             /\ e.what # "exit" \/ e.pid # p => (ExitDue(p)' <=> ExitDue(p))
             /\ p \in Pid => (Running(p)' <=> Running(p))
  BY DEF Known, Threaded, ExitDue, ForkDue, Running
<1>2. ASSUME NEW b, NEW a PROVE Related(b, a)' <=> Related(b, a)
  BY DEF Related, Running, Ppid
<1> QED BY <1>1, <1>2 DEF Going

\* A record of another process than the event tells of, or the event is a fork
LEMMA RecordPassed ==
  ASSUME UNCHANGED task, NEW e, Pending' = Pending \ {e}, NEW r \in Rec, RecordOK(r),
         heap'[r] # Free => /\ heap[r] # Free
                            /\ heap'[r].pid = heap[r].pid /\ heap'[r].alive = heap[r].alive
                            /\ heap'[r].death_time = heap[r].death_time
                            /\ heap'[r].attr = heap[r].attr,
         heap[r] # Free => e.pid # heap[r].pid \/ (e.what = "fork" /\ "fork" \notin Attr),
         fr = Idle
  PROVE  RecordOK(r)'
<1>1. SUFFICES ASSUME heap'[r] # Free, heap'[r].pid # 0 PROVE RecordOK(r)'
  BY DEF RecordOK
<1>2. PICK p : p = heap[r].pid /\ p = heap'[r].pid
  BY <1>1
<1>3. Dead(r)' <=> Dead(r)
  BY <1>1 DEF Dead
<1>4. /\ Known(p) => Known(p)' /\ (Threaded(p)' <=> Threaded(p))
      /\ Going(p)' <=> Going(p)
      /\ ExitDue(p)' <=> ExitDue(p)
  BY <1>1, <1>2, EventPassed
<1>5. ASSUME NEW a \in Attr, AttrOK(r, a) PROVE AttrOK(r, a)'
  <2>1. ~Unread(r, a)
    BY IdleFields DEF Unread
  <2>2. ~Settles(e, p, a)
    BY <1>1, <1>2 DEF Settles
  <2>3. \/ AllocMayFail \/ ExitDue(p)' \/ heap'[r].attr[a] = task'[p].attr[a]
        \/ \E x \in Pending' : Settles(x, p, a)
    BY <1>1, <1>2, <1>4, <1>5, <2>1, <2>2 DEF AttrOK
  <2> QED BY <1>2, <2>3 DEF AttrOK, Settles
<1> QED BY <1>1, <1>2, <1>3, <1>4, <1>5 DEF RecordOK

\* A fork event names a new process and its parent.
LEMMA ForkTells ==
  ASSUME KernelTypeOK, EventsOrdered, TaskInv, QueueInv, UNCHANGED task,
         NEW e \in Event, e \in Pending, Pending' = Pending \ {e},
         \A x \in Pending' : e.ts < x.ts,
         e.what = "fork"
  PROVE  /\ Known(e.pid)' /\ Going(e.pid)' /\ ~Known(e.pid)
         /\ e.arg # 0 => /\ e.arg # e.pid /\ Related(e.arg, e.pid)'
                         /\ Known(e.arg)' /\ Going(e.arg)'
<1>1. /\ e.pid \in Pid /\ e.arg \in Pid \cup {0} /\ e.ts \in Nat
      /\ \A x \in Pending' : x.ts \in Nat
  BY EventFields, PendingFacts
<1>2. ASSUME NEW p \in Pid, Mentions(e, p) PROVE Known(p)' /\ Going(p)'
  <2>1. task[p].st # "new" /\ (Running(p) \/ \E x \in Pending : x.what = "exit" /\ x.pid = p)
    BY <1>2 DEF QueueInv, Told
  <2>2. Going(p)'
    BY <2>1 DEF Going, ExitDue, Running
  <2>3. ASSUME NEW f \in Pending', f.what = "fork", f.pid = p PROVE FALSE
    <3>1. f \in Pending /\ f.ts <= e.ts
      BY <1>2, <2>3 DEF QueueInv, ForkIsFirst
    <3> QED BY <1>1, <3>1
  <2> QED BY <2>1, <2>2, <2>3 DEF Known, ForkDue
<1>3. Known(e.pid)' /\ Going(e.pid)' /\ ~Known(e.pid)
  BY <1>1, <1>2 DEF Mentions, Known, ForkDue
<1>4. e.arg # 0 => Known(e.arg)' /\ Going(e.arg)'
  BY <1>1, <1>2 DEF Mentions
<1>5. e.arg # 0 => e.arg # e.pid /\ Related(e.arg, e.pid)'
  BY EventPassed DEF QueueInv, ForkNamesParent
<1> QED BY <1>3, <1>4, <1>5

\* An exit event is the last one of its process.
LEMMA ExitTells ==
  ASSUME KernelTypeOK, EventsOrdered, TaskInv, QueueInv, UNCHANGED task,
         NEW e \in Event, e \in Pending, Pending' = Pending \ {e},
         \A x \in Pending' : e.ts < x.ts,
         e.what = "exit"
  PROVE  ~Going(e.pid)'
<1>1. /\ e.pid \in Pid /\ e.ts \in Nat /\ \A x \in Pending' : x.ts \in Nat
  BY EventFields, PendingFacts
<1>2. ~Running(e.pid)
  BY DEF QueueInv, ExitIsLast, Mentions
<1>3. ASSUME NEW x \in Pending', x.pid = e.pid PROVE FALSE
  <2>1. x \in Pending /\ x.ts <= e.ts
    BY <1>3 DEF QueueInv, ExitIsLast, Mentions
  <2> QED BY <1>1, <1>3, <2>1
<1> QED BY <1>2, <1>3 DEF Going, ExitDue, Running

\* The event e has been taken from the queue.
Taken(e) ==
  /\ fr = Idle /\ e \in Event /\ e \in Pending /\ Pending' = Pending \ {e}
  /\ \A x \in Pending' : e.ts < x.ts
  /\ TaskInv' /\ QueueInv' /\ UNCHANGED task

\* The tree when an event of a process other than a child in it has been received
LEMMA KinPassed ==
  ASSUME IInv, KinOK, NEW e, Taken(e),
         \A r \in Rec : InTable(r) => heap'[r].pid = heap[r].pid,
         \A r \in Rec : pare'[r] # NULL => /\ pare'[r] = pare[r]
                                           /\ e.what # "exit" \/ e.pid # heap[r].pid
  PROVE  KinOK'
<1>1. ASSUME NEW r \in Rec, pare'[r] # NULL
      PROVE  Going(heap[r].pid)' /\ Related(heap[pare[r]].pid, heap[r].pid)'
  <2>1. PICK p \in Rec : p = pare[r] /\ pare'[r] = p /\ InTable(p) /\ InTable(r)
    BY <1>1, TreeFacts
  <2>2. heap'[p].pid = heap[p].pid /\ heap'[r].pid = heap[r].pid
    BY <2>1
  <2>3. Going(heap[r].pid) /\ Related(heap[p].pid, heap[r].pid)
    BY <1>1, <2>1 DEF KinOK
  <2>4. e.what # "exit" \/ e.pid # heap[r].pid
    BY <1>1
  <2>5. UNCHANGED task /\ Pending' = Pending \ {e}
    BY DEF Taken
  <2> QED BY <2>1, <2>2, <2>3, <2>4, <2>5, EventPassed
<1> QED BY <1>1 DEF KinOK

\* Every record stands in the table when a handler starts, and the event tells of
\* the one the lookup answers.
LEMMA TableHolds ==
  ASSUME IInv, fr = Idle
  PROVE  /\ \A r \in Rec : heap[r] # Free => InTable(r) /\ heap[r] \in Proc
         /\ \A r \in Rec, a \in Attr : ~Unread(r, a)
         /\ PidsUnique => \A e \in Event, r \in Rec :
              InTable(r) /\ e.pid = heap[r].pid => r = proc_look(e.pid)
<1>1. \A r \in Rec : heap[r] # Free => InTable(r) /\ heap[r] \in Proc
  BY NobodyLoads, TreeFacts DEF IInv, Owners
<1>2. \A r \in Rec, a \in Attr : ~Unread(r, a)
  BY IdleFields DEF Unread
<1>3. ASSUME PidsUnique, NEW e \in Event, NEW r \in Rec, InTable(r), e.pid = heap[r].pid
      PROVE  r = proc_look(e.pid)
  <2>1. e.pid \in Nat
    BY EventFields, KernelConstants
  <2>2. proc_look(e.pid) \in Rec /\ InTable(proc_look(e.pid)) /\ heap[proc_look(e.pid)].pid = e.pid
    BY <1>3, <2>1, LookupAnswers, TreeFacts DEF IInv
  <2> QED BY <1>3, <2>2 DEF PidsUnique
<1> QED BY <1>1, <1>2, <1>3

\* even_fork
LEMMA ForkAgrees ==
  ASSUME IInv, AgeInv, Agreeing, NEW e \in Event, Taken(e), even_fork(e)
  PROVE  Agreeing'
<1>1. /\ KernelTypeOK /\ EventsOrdered /\ TaskInv /\ QueueInv /\ PidsUnique /\ KinOK /\ RecordsOK
      /\ "fork" \notin Attr
  BY TypeParts, KernelConstants DEF IInv, Agreeing
<1>2. e.what = "fork" /\ UNCHANGED <<buckets, pare>>
  BY DEF even_fork
<1>3. \A r \in Rec : InTable(r)' <=> InTable(r)
  BY <1>2 DEF InTable, InBucket
<1>4. PICK pid \in Pid, arg \in Pid \cup {0} : pid = e.pid /\ arg = e.arg
  BY <1>2, EventFields
<1>5. /\ Known(pid)' /\ Going(pid)' /\ ~Known(pid)
      /\ arg # 0 => /\ arg # pid /\ Related(arg, pid)'
                    /\ Known(arg)' /\ Going(arg)'
  BY <1>1, <1>2, <1>4, ForkTells DEF Taken
<1>6. \A r \in Rec : InTable(r) => heap[r].pid # pid
  BY <1>1, <1>5, TreeFacts, Numbered DEF RecordsOK, RecordOK
<1>7. ASSUME NEW r \in Rec, heap'[r] = heap[r] PROVE RecordOK(r)'
  BY <1>1, <1>2, <1>7, RecordPassed DEF Taken, RecordsOK
<1>8. ASSUME \A r \in Rec : InTable(r) => heap'[r] = heap[r] PROVE KinOK'
  BY <1>1, <1>2, <1>8, KinPassed
<1> DEFINE f == [Idle EXCEPT !.pid = e.pid, !.ts = e.ts]
<1>9. /\ f \in Frame /\ f.pid = pid /\ f.pc = "recv" /\ f.ret = ""
  BY <1>4, EventFields, ForkFrame, IdleFields, IdleFrame DEF Frame
<1>10. CASE proc_look(arg) = NULL
  <2>1. proc_load(arg, f, "pare")
    BY <1>4, <1>10 DEF even_fork
  <2>2. PICK g \in Frame : g = f
    BY <1>9
  <2>3. proc_load(arg, g, "pare") /\ g.pid = pid
    BY <1>9, <2>1, <2>2
  <2> HIDE DEF f
  <2> QED BY <1>1, <1>2, <1>5, <1>6, <1>7, <1>8, <2>3, LoadAgrees DEF Taken
<1>11. CASE proc_look(arg) # NULL
  <2>1. PICK p \in Rec : p = proc_look(arg) /\ InTable(p) /\ heap[p].pid = arg
    BY <1>11, LookedUp
  <2>2. fr' = [f EXCEPT !.pc = "load", !.pare = p] /\ UNCHANGED heap
    BY <1>4, <1>11, <2>1 DEF even_fork
  <2> HIDE DEF f
  <2>3. fr'.pc = "load" /\ fr'.ret = "" /\ fr'.pare = p /\ fr'.pid = pid
    BY <1>9, <2>2 DEF Frame
  <2>4. arg # 0
    BY <2>1, Numbered
  <2>5. Known(fr.pid)' /\ Going(fr.pid)'
    BY <1>5, <2>3
  <2>6. \A r \in Rec : InTable(r)' => heap'[r].pid # fr'.pid
    BY <1>3, <1>6, <2>2, <2>3
  <2>7. Going(heap[fr.pare].pid)' /\ Related(heap[fr.pare].pid, fr.pid)'
    BY <1>5, <2>1, <2>2, <2>3, <2>4
  <2>8. HandlerOK'
    BY <2>3, <2>5, <2>6, <2>7 DEF HandlerOK, Named
  <2> QED BY <1>1, <1>2, <1>7, <1>8, <2>2, <2>8, PidsKept DEF Agreeing, RecordsOK, Taken
<1> QED BY <1>10, <1>11

\* even_exec
LEMMA ExecAgrees ==
  ASSUME IInv, AgeInv, Agreeing, NEW e \in Event, Taken(e), even_exec(e)
  PROVE  Agreeing'
<1>1. KernelTypeOK /\ TaskInv /\ QueueInv /\ PidsUnique /\ KinOK /\ RecordsOK
  BY TypeParts DEF IInv, Agreeing
<1>2. e.what = "exec" /\ UNCHANGED <<heap, buckets, pare>>
  BY DEF even_exec
<1>3. PidsUnique' /\ KinOK'
  BY <1>1, <1>2, PidsKept, KinPassed
<1>4. ASSUME NEW r \in Rec, r # proc_look(e.pid) PROVE RecordOK(r)'
  <2>1. heap[r] # Free => e.pid # heap[r].pid
    BY <1>1, <1>4, TableHolds DEF Taken
  <2> QED BY <1>1, <1>2, <2>1, RecordPassed DEF Taken, RecordsOK
<1>5. CASE proc_look(e.pid) = NULL
  <2>1. fr' = Idle /\ \A r \in Rec : RecordOK(r)'
    BY <1>2, <1>4, <1>5, NullNotRec DEF even_exec
  <2> QED BY <1>3, <2>1, NothingHandled DEF Agreeing, RecordsOK, Taken
<1>6. CASE proc_look(e.pid) # NULL
  <2>1. PICK p \in Rec : p = proc_look(e.pid) /\ InTable(p) /\ heap[p].pid = e.pid
    BY <1>6, LookedUp, EventFields
  <2>2. fr' = [Idle EXCEPT !.pc = "stat", !.tgt = p, !.ret = "exec"]
    BY <1>6, <2>1 DEF even_exec
  <2>3. fr'.pc = "stat" /\ fr'.ret = "exec" /\ fr'.tgt = p
    BY <2>2, IdleFrame DEF Frame
  <2>4. Going(e.pid) /\ e.what # "exit"
    <3>1. e.pid \in Pid
      BY EventFields
    <3> QED BY <1>1, <1>2, <3>1 DEF Taken, QueueInv, Told, Mentions, Going, ExitDue
  <2>5. Going(heap[fr.tgt].pid)'
    BY <1>2, <2>1, <2>3, <2>4, EventPassed DEF Taken
  <2>6. HandlerOK'
    BY <2>3, <2>5 DEF HandlerOK, Named
  <2>7. RecordOK(p)'
    <3>1. PICK pid : pid = heap[p].pid
      OBVIOUS
    <3>2. heap[p] # Free /\ pid # 0 /\ Known(pid) /\ ~Dead(p)
      BY <1>1, <2>1, <2>4, <3>1, TreeFacts, Numbered DEF RecordsOK, RecordOK
    <3>3. Known(pid)' /\ Going(pid)' /\ ~Dead(p)'
      BY <1>2, <2>1, <2>3, <2>5, <3>1, <3>2, EventPassed DEF Taken, Dead
    <3>4. \A a \in Attr : Unread(p, a)'
      BY <2>3 DEF Unread
    <3> QED BY <1>2, <3>1, <3>3, <3>4 DEF RecordOK, AttrOK
  <2>8. RecordsOK'
    BY <1>4, <2>1, <2>7 DEF RecordsOK
  <2> QED BY <1>3, <2>6, <2>8 DEF Agreeing, Taken
<1> QED BY <1>5, <1>6

\* even_comm, even_uid and even_gid
LEMMA AttrAgreesOn ==
  ASSUME IInv, AgeInv, Agreeing, NEW e \in Event, Taken(e), even_attr(e)
  PROVE  Agreeing'
<1>1. KernelTypeOK /\ TaskInv /\ QueueInv /\ PidsUnique /\ KinOK /\ RecordsOK
  BY TypeParts DEF IInv, Agreeing
<1>2. /\ e.what \in Attr /\ e.what # "exit" /\ e.what # "exec"
      /\ fr' = Idle /\ UNCHANGED <<buckets, pare>>
  BY KernelConstants DEF even_attr
<1>3. ASSUME NEW r \in Rec, r # proc_look(e.pid), heap'[r] = heap[r] PROVE RecordOK(r)'
  <2>1. heap[r] # Free => e.pid # heap[r].pid
    BY <1>1, <1>3, TableHolds DEF Taken
  <2> QED BY <1>1, <1>3, <2>1, RecordPassed DEF Taken, RecordsOK
<1>4. CASE proc_look(e.pid) = NULL
  <2>1. UNCHANGED heap
    BY <1>4 DEF even_attr
  <2>2. \A r \in Rec : RecordOK(r)'
    BY <1>3, <1>4, <2>1, NullNotRec
  <2>3. PidsUnique' /\ KinOK'
    BY <1>1, <1>2, <2>1, PidsKept, KinPassed
  <2> QED BY <1>2, <2>2, <2>3, NothingHandled DEF Agreeing, RecordsOK, Taken
<1>5. CASE proc_look(e.pid) # NULL
  <2>1. PICK p \in Rec : p = proc_look(e.pid) /\ InTable(p) /\ heap[p].pid = e.pid
    BY <1>5, LookedUp, EventFields
  <2>2. heap' = [heap EXCEPT ![p].attr[e.what] = e.arg]
    BY <1>5, <2>1 DEF even_attr
  <2>3. heap[p] \in Proc /\ heap[p] # Free
    BY <2>1, TreeFacts
  <2>4. /\ \A r \in Rec : r # p => heap'[r] = heap[r]
        /\ heap'[p].pid = heap[p].pid /\ heap'[p].alive = heap[p].alive
        /\ heap'[p].death_time = heap[p].death_time
        /\ heap'[p].attr[e.what] = e.arg
        /\ \A a \in Attr : a # e.what => heap'[p].attr[a] = heap[p].attr[a]
        /\ heap'[p] # Free
    <3> DEFINE x == [heap[p] EXCEPT !.attr[e.what] = e.arg]
    <3>1. /\ x.pid = heap[p].pid /\ x.alive = heap[p].alive
          /\ x.death_time = heap[p].death_time /\ x.attr[e.what] = e.arg
          /\ \A a \in Attr : a # e.what => x.attr[a] = heap[p].attr[a]
      BY <1>2, <2>3 DEF Proc
    <3>2. x \in Proc
      BY <1>2, <2>3, EventFields DEF Proc
    <3>3. heap'[p] = x /\ \A r \in Rec : r # p => heap'[r] = heap[r]
      BY <2>2, TreeFacts
    <3> QED BY <3>1, <3>2, <3>3, FreeIsNoProc
  <2>5. RecordOK(p)'
    <3>1. PICK pid : pid = e.pid
      OBVIOUS
    <3>2. /\ pid # 0 /\ Known(pid)
          /\ Dead(p) => ~heap[p].alive /\ ~Going(pid)
          /\ ~Dead(p) => (Going(pid) \/ Threaded(pid)) /\ \A a \in Attr : AttrOK(p, a)
      BY <1>1, <2>1, <2>3, <3>1, Numbered DEF RecordsOK, RecordOK
    <3>3. /\ Known(pid)' /\ (Going(pid)' <=> Going(pid)) /\ (Threaded(pid)' <=> Threaded(pid))
          /\ ExitDue(pid)' <=> ExitDue(pid)
      BY <1>2, <3>2, EventPassed DEF Taken
    <3>4. Dead(p)' <=> Dead(p)
      BY <2>3, <2>4 DEF Dead
    <3>5. ASSUME NEW a \in Attr, a # e.what, AttrOK(p, a) PROVE AttrOK(p, a)'
      <4>1. ~Settles(e, pid, a) /\ ~Unread(p, a)
        BY <1>2, <3>5, TableHolds DEF Settles, Taken
      <4>2. \/ AllocMayFail \/ ExitDue(pid)' \/ heap'[p].attr[a] = task'[pid].attr[a]
            \/ \E x \in Pending' : Settles(x, pid, a)
        BY <2>1, <2>4, <3>1, <3>3, <3>5, <4>1 DEF AttrOK, Taken
      <4> QED BY <2>1, <2>4, <3>1, <4>2 DEF AttrOK, Settles
    <3>6. AttrOK(p, e.what)'
      <4>1. PICK a \in Attr : a = e.what
        BY <1>2
      <4>2. \/ e.arg = task[pid].attr[a]
            \/ \E x \in Pending : Settles(x, pid, a) /\ e.ts < x.ts
        BY <1>1, <1>2, <3>1, <4>1 DEF QueueInv, AttrsTold, Taken
      <4>3. e.ts \in Nat
        BY EventFields, KernelConstants
      <4>4. heap'[p].attr[a] = task'[pid].attr[a] \/ \E x \in Pending' : Settles(x, pid, a)
        BY <2>4, <4>1, <4>2, <4>3 DEF Taken
      <4>5. AttrOK(p, a)'
        BY <2>1, <2>4, <3>1, <4>4 DEF AttrOK, Settles
      <4> QED BY <4>1, <4>5
    <3> QED BY <2>1, <2>4, <3>1, <3>2, <3>3, <3>4, <3>5, <3>6 DEF RecordOK
  <2>6. RecordsOK'
    BY <1>3, <2>1, <2>4, <2>5 DEF RecordsOK
  <2>7. PidsUnique' /\ KinOK'
    BY <1>1, <1>2, <2>4, PidsKept, KinPassed
  <2> QED BY <1>2, <2>6, <2>7, NothingHandled DEF Agreeing, Taken
<1> QED BY <1>4, <1>5

\* even_exit
LEMMA ExitAgrees ==
  ASSUME IInv, AgeInv, Agreeing, NEW e \in Event, Taken(e), even_exit(e)
  PROVE  Agreeing'
<1>1. /\ KernelTypeOK /\ EventsOrdered /\ TaskInv /\ QueueInv /\ PidsUnique /\ KinOK /\ RecordsOK
  BY TypeParts DEF IInv, Agreeing
<1>2. e.what = "exit" /\ UNCHANGED buckets
  BY DEF even_exit
<1>3. ASSUME NEW r \in Rec, r # proc_look(e.pid), heap'[r] = heap[r] PROVE RecordOK(r)'
  <2>1. heap[r] # Free => e.pid # heap[r].pid
    BY <1>1, <1>3, TableHolds DEF Taken
  <2> QED BY <1>1, <1>3, <2>1, RecordPassed DEF Taken, RecordsOK
<1>4. ASSUME NEW r \in Rec, InTable(r), r # proc_look(e.pid) PROVE e.pid # heap[r].pid
  BY <1>1, <1>4, TableHolds DEF Taken
<1>5. CASE proc_look(e.pid) = NULL
  <2>1. UNCHANGED <<heap, pare>> /\ fr' = Idle
    BY <1>5 DEF even_exit
  <2>2. \A r \in Rec : RecordOK(r)'
    BY <1>3, <1>5, <2>1, NullNotRec
  <2>3. \A r \in Rec : pare[r] # NULL => e.pid # heap[r].pid
    BY <1>4, <1>5, TreeFacts, NullNotRec
  <2>4. PidsUnique' /\ KinOK'
    BY <1>1, <1>2, <2>1, <2>3, PidsKept, KinPassed
  <2> QED BY <2>1, <2>2, <2>4, NothingHandled DEF Agreeing, RecordsOK, Taken
<1>6. CASE proc_look(e.pid) # NULL
  <2>1. PICK d \in Rec : d = proc_look(e.pid) /\ InTable(d) /\ heap[d].pid = e.pid
    BY <1>6, LookedUp, EventFields
  <2>2. heap' = [heap EXCEPT ![d] = [@ EXCEPT !.alive = FALSE, !.death_time = e.ts]]
    BY <1>6, <2>1 DEF even_exit
  <2>3. heap[d] \in Proc /\ heap[d] # Free
    BY <2>1, TreeFacts
  <2>4. /\ \A r \in Rec : r # d => heap'[r] = heap[r]
        /\ heap'[d].pid = heap[d].pid /\ heap'[d].alive = FALSE /\ heap'[d].death_time = e.ts
    BY <2>2, <2>3, TreeFacts DEF Proc
  <2>5. \/ pare[d] = NULL /\ fr' = Idle /\ UNCHANGED pare
        \/ /\ pare[d] # NULL /\ deta_chil(pare[d], d)
           /\ fr' = [Idle EXCEPT !.pc = "loop", !.dead = d]
    BY <1>6, <2>1 DEF even_exit
  <2>6. pare'[d] = NULL /\ \A r \in Rec : r # d => pare'[r] = pare[r]
    BY <2>5, TreeFacts DEF deta_chil, ForestTypeOK
  <2>7. fr' = Idle \/ (fr'.pc = "loop" /\ fr'.ret = "")
    BY <2>5, IdleFrame, IdleFields DEF Frame
  <2>8. RecordOK(d)'
    <3>1. PICK pid : pid = e.pid
      OBVIOUS
    <3>2. Known(pid) /\ pid # 0
      BY <1>1, <2>1, <2>3, <3>1, Numbered DEF RecordsOK, RecordOK
    <3>3. Known(pid)' /\ ~Going(pid)'
      BY <1>1, <1>2, <3>1, <3>2, EventPassed, ExitTells DEF Taken
    <3>4. e.ts # 0
      BY EventFields
    <3> QED BY <2>1, <2>4, <3>1, <3>3, <3>4 DEF RecordOK, Dead
  <2>9. RecordsOK'
    BY <1>3, <2>1, <2>4, <2>8 DEF RecordsOK
  <2>10. \A r \in Rec : InTable(r) => heap'[r].pid = heap[r].pid
    BY <2>4
  <2>11. ASSUME NEW r \in Rec, pare'[r] # NULL
         PROVE  pare'[r] = pare[r] /\ e.pid # heap[r].pid
    <3>1. r # d /\ pare[r] = pare'[r]
      BY <2>6, <2>11
    <3>2. InTable(r)
      BY <2>11, <3>1, TreeFacts
    <3> QED BY <1>4, <2>1, <3>1, <3>2
  <2>12. PidsUnique' /\ KinOK'
    BY <1>1, <1>2, <2>10, <2>11, PidsKept, KinPassed
  <2> QED BY <2>7, <2>9, <2>12, NothingHandled DEF Agreeing, Taken
<1> QED BY <1>5, <1>6

\* sock_reci takes the oldest event and calls its handler.
LEMMA EventTaken ==
  ASSUME IInv, Agreeing, sock_reci
  PROVE  \E e \in Event : /\ Taken(e) /\ e = Head(evq)
                          /\ even_fork(e) \/ even_exec(e) \/ even_exit(e) \/ even_attr(e)
<1>1. fr = Idle /\ evq # <<>> /\ evq' = Tail(evq) /\ UNCHANGED <<task, clock>>
  BY DEF sock_reci
<1>2. KernelTypeOK /\ EventsOrdered /\ TaskInv /\ QueueInv
  BY TypeParts DEF IInv, Agreeing
<1>3. PICK e \in Event : /\ even_fork(e) \/ even_exec(e) \/ even_exit(e) \/ even_attr(e)
                         /\ e = Head(evq)
  BY <1>1, <1>2, Received DEF sock_reci
<1>4. Taken(e)
  BY <1>1, <1>2, <1>3, Popped DEF Taken
<1> QED BY <1>3, <1>4

\* Every step
LEMMA AgreeingKept ==
  ASSUME ~Recycle, MaxClock <= QMax, IInv, IInv', KeyInv, AgeInv, Agreeing, [Next]_vars
  PROVE  Agreeing'
<1>1. CASE sock_reci
  BY <1>1, EventTaken, ForkAgrees, ExecAgrees, ExitAgrees, AttrAgreesOn
<1>2. CASE Step /\ ~sock_reci
  BY <1>2, ReadsAgree, LinksAgree, OthersAgree DEF Step
<1>3. CASE KernelNext /\ UNCHANGED tracker
  BY <1>3, ProcessesAgree
<1>4. CASE UNCHANGED vars
  <2>1. UNCHANGED <<heap, buckets, kids, pare, fr, task, clock, evq>>
    BY <1>4 DEF vars
  <2>2. TaskInv' /\ QueueInv'
    BY <2>1, StillQueue DEF Agreeing
  <2>3. PidsUnique' /\ KinOK'
    BY <2>1, PidsKept, KinKept DEF Agreeing
  <2>4. \A r \in Rec, a \in Attr : Unread(r, a)' <=> Unread(r, a)
    BY <2>1 DEF Unread
  <2>5. RecordsOK'
    BY <2>1, <2>4, RecordKept DEF Agreeing, RecordsOK
  <2>6. HandlerOK'
    <3>1. \A r \in Rec : InTable(r)' <=> InTable(r)
      BY <2>1 DEF InTable, InBucket
    <3>2. \A p : (Known(p)' <=> Known(p)) /\ (Going(p)' <=> Going(p))
      BY <2>1, Stillness
    <3>3. \A b, p : (Related(b, p)' <=> Related(b, p)) /\ (Bond(b, p)' <=> Bond(b, p))
      BY <2>1, Stillness
    <3>4. (Named' <=> Named) /\ HandlerOK
      BY <2>1 DEF Named, Agreeing
    <3> QED BY <2>1, <3>1, <3>2, <3>3, <3>4 DEF HandlerOK
  <2> QED BY <2>2, <2>3, <2>5, <2>6 DEF Agreeing
<1>5. CASE sock_empty
  BY <1>4, <1>5 DEF sock_empty
<1> QED BY <1>1, <1>2, <1>3, <1>4, <1>5 DEF Next

\* The tracker starts with an empty table.
LEMMA AgreeingAtFirst == Init => Agreeing
<1> SUFFICES ASSUME Init PROVE Agreeing
  OBVIOUS
<1>1. /\ fr = Idle /\ heap = [r \in Rec |-> Free]
      /\ \A h \in Bucket : buckets[h] = <<>> /\ DOMAIN buckets[h] = {}
  BY DEF Init, TableInit, proc_tabl_init
<1>2. \A r : ~InTable(r)
  BY <1>1 DEF InTable, InBucket
<1>3. \A r \in Rec : pare[r] = NULL
  BY DEF Init, ForestInit
<1>4. TaskInv /\ QueueInv
  BY KernelAgreesAtFirst DEF Init
<1>5. HandlerOK
  BY <1>1, IdleFields DEF HandlerOK, Named
<1> QED BY <1>1, <1>2, <1>3, <1>4, <1>5 DEF Agreeing, PidsUnique, RecordsOK, RecordOK, KinOK

\* When all is handled nothing is left to be told.
LEMMA QuietAgrees ==
  ASSUME IInv, AgeInv, Agreeing
  PROVE  TreeAgrees /\ (~AllocMayFail => AttrAgrees)
<1> SUFFICES ASSUME Quiet PROVE TreeAgrees /\ (~AllocMayFail => AttrAgrees)
  BY DEF TreeAgrees, AttrAgrees
<1>1. fr = Idle /\ Pending = {}
  BY DEF Quiet, Pending
<1>2. /\ \A p : ~ExitDue(p) /\ (Going(p) => Running(p))
      /\ \A r \in Rec, a \in Attr : ~Unread(r, a)
  BY <1>1, TableHolds DEF ExitDue, Going
<1>3. ASSUME NEW r \in Rec, Live(r)
      PROVE  /\ Running(heap[r].pid) \/ Threaded(heap[r].pid)
             /\ ~AllocMayFail =>
                  \A a \in Attr : heap[r].attr[a] = task[heap[r].pid].attr[a]
             /\ heap[r] \in Proc /\ heap[r].pid \in Pid
  <2>1. heap[r] \in Proc /\ heap[r] # Free /\ heap[r].pid # 0
    BY <1>3, TreeFacts, Numbered DEF Live
  <2> QED BY <1>1, <1>2, <1>3, <2>1 DEF Live, Agreeing, RecordsOK, RecordOK, AttrOK, Known
<1>4. TreeAgrees
  <2>1. ASSUME NEW r \in Rec, pare[r] # NULL, Running(heap[pare[r]].pid)
        PROVE  task[heap[pare[r]].pid].tgid = Ppid(heap[r].pid)
    BY <1>2, <2>1 DEF Agreeing, KinOK, Related
  <2> QED BY <1>3, <2>1 DEF TreeAgrees
<1>5. ASSUME ~AllocMayFail PROVE AttrAgrees
  <2>1. ASSUME NEW r \in Rec, Live(r) PROVE heap[r].attr = task[heap[r].pid].attr
    <3>1. heap[r].attr \in [Attr -> Val \cup {0}] /\ task[heap[r].pid].attr \in [Attr -> Val]
      BY <1>3, <2>1, TaskFields, TypeParts DEF IInv, Proc
    <3> QED BY <1>3, <1>5, <2>1, <3>1
  <2> QED BY <2>1 DEF AttrAgrees
<1> QED BY <1>4, <1>5

\* The invariants that the agreement needs, together
THEOREM AgreeInvariance ==
  ASSUME ~Recycle, MaxClock <= QMax
  PROVE  Spec => [](IInv /\ KeyInv /\ AgeInv /\ Agreeing)
<1>1. Init => KeyInv /\ AgeInv /\ Agreeing
  BY AgeStarts, AgreeingAtFirst, KeysAtFirst
<1>2. IInv /\ IInv' /\ KeyInv /\ AgeInv /\ Agreeing /\ [Next]_vars => KeyInv' /\ AgeInv' /\ Agreeing'
  BY KeyInvKept, AgeKept, AgreeingKept
<1> QED BY <1>1, <1>2, Invariance, PTL DEF Spec

(* When no pid is used again and no event is lost, every record that is alive *)
(* once all events are handled is of a process that runs or had several       *)
(* threads; where it hangs under the record of a running process, that is its *)
(* parent in the kernel or another thread of it. A record without a parent    *)
(* and one under the record of an ended process are left out (even_exit does  *)
(* not look at the children of a root, ser_proc_conn.c:238). All this in       *)
(* however many steps the handlers read /proc, and whatever the processes do   *)
(* meanwhile (even_fork, even_exit, re_pare).                                 *)
THEOREM TreeAgreement == ASSUME ~Recycle, MaxClock <= QMax PROVE Spec => []TreeAgrees
<1>1. IInv /\ AgeInv /\ Agreeing => TreeAgrees
  BY QuietAgrees
<1> QED BY <1>1, AgreeInvariance, PTL

(* ... and, where no file of a running process fails to open, has its name   *)
(* and its ids, although fork, exec and the events of the attributes and the *)
(* reads of /proc write them in any order                                    *)
(* (even_comm, even_uid, even_gid, even_exec, prfs_stat, prfs_status).       *)
THEOREM AttrAgreement ==
  ASSUME ~Recycle, MaxClock <= QMax, ~AllocMayFail
  PROVE  Spec => []AttrAgrees
<1>1. IInv /\ AgeInv /\ Agreeing => AttrAgrees
  BY QuietAgrees
<1> QED BY <1>1, AgreeInvariance, PTL

-------------------------------------------------------------------------------
\* A dead record stands in the table, and no event tells of its process any more.
LEMMA DeadFacts ==
  ASSUME IInv, AgeInv, Agreeing, NEW r \in Rec, Dead(r)
  PROVE  /\ InTable(r) /\ ~Loading(r) /\ heap[r] # Free /\ heap[r] \in Proc
         /\ ~heap[r].alive /\ ~Going(heap[r].pid)
         /\ Reading => r # fr.tgt
<1>1. heap[r] # Free /\ ~Loading(r)
  BY DEF Dead, IInv, FrameOK
<1>2. InTable(r) /\ heap[r] \in Proc /\ heap[r].pid # 0
  BY <1>1, TreeFacts, Numbered DEF IInv, Owners
<1> QED BY <1>1, <1>2, ReadLives DEF Agreeing, RecordsOK, RecordOK

\* What DeathIsFinal says of one record and one step
Final(r) ==
  /\ Dead(r)' /\ ~heap'[r].alive
  /\ heap'[r].death_time = heap[r].death_time /\ heap'[r].birth_time = heap[r].birth_time
  /\ Threadless => \A c \in Rec : pare'[c] = r => pare[c] = r

\* A dead record the step leaves as it is stays dead, in its place.
LEMMA Untouched ==
  ASSUME NEW r \in Rec, Dead(r), ~heap[r].alive,
         heap'[r] # Free, heap'[r].alive = heap[r].alive,
         heap'[r].death_time = heap[r].death_time, heap'[r].birth_time = heap[r].birth_time,
         Threadless => \A c \in Rec : pare'[c] = r => pare[c] = r
  PROVE  Final(r)
  BY DEF Final, Dead

\* proc_load, proc_inse's failure and the reads change one record, which is not dead.
LEMMA LoadSpares ==
  ASSUME NEW r \in Rec, heap[r] # Free, heap \in [Rec -> Proc \cup {Free}],
         NEW pid, NEW f, NEW s, proc_load(pid, f, s)
  PROVE  heap'[r] = heap[r]
  BY DEF proc_load, Allocated

\* Nobody is put under a dead record: a parent is going on, or has other threads.
LEMMA AttachSpares ==
  ASSUME IInv, AgeInv, Agreeing, NEW r \in Rec, Dead(r), NEW p \in Rec, NEW c \in Rec,
         atta_chil(p, c),
         Threadless => ~Dead(p)
  PROVE  Threadless => \A q \in Rec : pare'[q] = r => pare[q] = r
<1>1. pare'[c] = p /\ \A q \in Rec : q # c => pare'[q] = pare[q]
  BY TreeFacts DEF atta_chil, ForestTypeOK
<1> QED BY <1>1

\* An event changes no dead record: its process is going on.
LEMMA EventsSpare ==
  ASSUME IInv, AgeInv, Agreeing, sock_reci, NEW r \in Rec, Dead(r)
  PROVE  Final(r)
<1>1. PICK e \in Event : /\ Taken(e)
                         /\ even_fork(e) \/ even_exec(e) \/ even_exit(e) \/ even_attr(e)
  BY EventTaken
<1>2. /\ heap[r] # Free /\ heap[r] \in Proc /\ ~heap[r].alive /\ ~Going(heap[r].pid)
      /\ heap \in [Rec -> Proc \cup {Free}] /\ TaskInv /\ QueueInv /\ KernelTypeOK
  BY DeadFacts, TypeParts DEF IInv, Agreeing
<1>3. CASE even_fork(e)
  <2>1. heap'[r] = heap[r] /\ UNCHANGED pare
    BY <1>2, <1>3, LoadSpares DEF even_fork
  <2> QED BY <1>2, <2>1, Untouched
<1>4. CASE even_exec(e)
  BY <1>2, <1>4, Untouched DEF even_exec
<1>5. CASE even_attr(e)
  <2>1. UNCHANGED pare /\ (heap' = heap \/ \E p : heap' = [heap EXCEPT ![p].attr[e.what] = e.arg])
    BY <1>5 DEF even_attr
  <2>2. ASSUME NEW p, heap' = [heap EXCEPT ![p].attr[e.what] = e.arg]
        PROVE  /\ heap'[r] # Free /\ heap'[r].alive = heap[r].alive
               /\ heap'[r].death_time = heap[r].death_time
               /\ heap'[r].birth_time = heap[r].birth_time
    <3> DEFINE x == [heap[r] EXCEPT !.attr[e.what] = e.arg]
    <3>1. /\ x.alive = heap[r].alive /\ x.death_time = heap[r].death_time
          /\ x.birth_time = heap[r].birth_time /\ x \in Proc
      BY <1>2, <1>5, EventFields DEF Proc, even_attr
    <3>2. heap'[r] = x \/ heap'[r] = heap[r]
      BY <1>2, <2>2
    <3> HIDE DEF x
    <3> QED BY <1>2, <3>1, <3>2, FreeIsNoProc
  <2> QED BY <1>2, <2>1, <2>2, Untouched
<1>6. CASE even_exit(e)
  <2>1. CASE proc_look(e.pid) = NULL
    BY <1>2, <1>6, <2>1, Untouched DEF even_exit
  <2>2. CASE proc_look(e.pid) # NULL
    <3>1. PICK d \in Rec : d = proc_look(e.pid) /\ heap[d].pid = e.pid
      BY <2>2, LookedUp, EventFields
    <3>2. r # d
      <4>1. Going(e.pid)
        BY <1>1, <1>6, EventFields DEF Going, ExitDue, Taken, even_exit
      <4> QED BY <1>2, <3>1, <4>1
    <3>3. heap'[r] = heap[r]
      BY <1>2, <1>6, <2>2, <3>1, <3>2 DEF even_exit
    <3>4. \A c \in Rec : pare'[c] = r => pare[c] = r
      <4>1. UNCHANGED pare \/ \E c : pare' = [pare EXCEPT ![c] = NULL]
        BY <1>6, <2>2 DEF even_exit, deta_chil
      <4> QED BY <4>1, TreeFacts, NullNotRec DEF ForestTypeOK
    <3> QED BY <1>2, <3>3, <3>4, Untouched
  <2> QED BY <2>1, <2>2
<1> QED BY <1>1, <1>3, <1>4, <1>5, <1>6

\* The record that is read is not dead.
LEMMA ReadsSpare ==
  ASSUME IInv, AgeInv, Agreeing, prfs_stat \/ prfs_status \/ prfs_fd, NEW r \in Rec, Dead(r)
  PROVE  Final(r)
<1>1. Reading /\ UNCHANGED pare
  BY DEF prfs_stat, prfs_status, prfs_fd, Reading
<1>2. heap[r] # Free /\ ~heap[r].alive /\ r # fr.tgt /\ heap \in [Rec -> Proc \cup {Free}]
  BY <1>1, DeadFacts, TreeFacts
<1>3. heap' = heap \/ \E x : heap' = [heap EXCEPT ![fr.tgt] = x]
  <2>1. prfs_fail => heap' = heap \/ \E x : heap' = [heap EXCEPT ![fr.tgt] = x]
    BY DEF prfs_fail
  <2>2. CASE prfs_stat
    BY <2>1, <2>2 DEF prfs_stat
  <2>3. CASE prfs_status
    <3>1. prfs_fail \/ heap' = [heap EXCEPT ![fr.tgt] =
            [heap[fr.tgt] EXCEPT !.attr = [a \in Attr |-> IF a = "comm" THEN heap[fr.tgt].attr[a]
                                                  ELSE task[heap[fr.tgt].pid].attr[a]]]]
      BY <2>3 DEF prfs_status
    <3> QED BY <2>1, <3>1
  <2>4. CASE prfs_fd
    BY <2>1, <2>4 DEF prfs_fd
  <2> QED BY <2>2, <2>3, <2>4
<1>4. heap'[r] = heap[r]
  BY <1>2, <1>3
<1> QED BY <1>1, <1>2, <1>4, Untouched

\* No record that is linked is dead, and no dead record gets a child.
LEMMA LinksSpare ==
  ASSUME IInv, KeyInv, AgeInv, Agreeing, fork_pare \/ fork_chil \/ re_pare_load,
         NEW r \in Rec, Dead(r)
  PROVE  Final(r)
<1>1. fr.pc = "link"
  BY DEF fork_pare, fork_chil, re_pare_load
<1>2. /\ heap[r] # Free /\ ~heap[r].alive /\ ~Loading(r) /\ ~Going(heap[r].pid)
      /\ heap \in [Rec -> Proc \cup {Free}]
  BY DeadFacts, TreeFacts
<1>3. PICK t \in Rec : t = fr.tgt /\ Loading(t) /\ ~Dead(t) /\ r # t
  BY <1>1, <1>2, Linking, ReadLives DEF Reading
<1>4. heap'[r] = heap[r]
  BY <1>2, <1>3 DEF fork_pare, fork_chil, re_pare_load, inse_fail, Loaded
<1>5. CASE UNCHANGED pare
  BY <1>2, <1>4, <1>5, Untouched
<1>6. CASE fork_chil /\ ~inse_fail
  <2>1. PICK p \in Rec : p = fr.pare /\ atta_chil(p, t)
    BY <1>3, <1>6 DEF fork_chil, IInv, FrameOK
  <2>2. ~Dead(p)
    BY <1>6, <2>1, DeadFacts DEF Agreeing, HandlerOK, fork_chil
  <2> QED BY <1>2, <1>3, <1>4, <2>1, <2>2, AttachSpares, Untouched
<1>7. CASE re_pare_load /\ ~inse_fail
  <2>1. PICK c \in Rec : c = fr.chil /\ atta_chil(t, c)
    BY <1>3, <1>7 DEF re_pare_load, IInv, FrameOK
  <2> QED BY <1>2, <1>3, <1>4, <2>1, AttachSpares, Untouched
<1>8. inse_fail => UNCHANGED pare
  BY DEF inse_fail
<1> QED BY <1>5, <1>6, <1>7, <1>8 DEF fork_pare

\* The other steps of the handlers
LEMMA OthersSpare ==
  ASSUME IInv, AgeInv, Agreeing, fork_load \/ exit_loop \/ re_pare, NEW r \in Rec, Dead(r)
  PROVE  Final(r)
<1>1. heap[r] # Free /\ ~heap[r].alive /\ heap \in [Rec -> Proc \cup {Free}]
  BY DeadFacts, TreeFacts
<1>2. heap'[r] = heap[r]
  BY <1>1, LoadSpares DEF fork_load, exit_loop, re_pare
<1>3. CASE fork_load
  BY <1>1, <1>2, <1>3, Untouched DEF fork_load
<1>4. CASE exit_loop
  <2>1. UNCHANGED pare \/ \E c : pare' = [pare EXCEPT ![c] = NULL]
    BY <1>4 DEF exit_loop, deta_chil
  <2>2. \A c \in Rec : pare'[c] = r => pare[c] = r
    BY <2>1, TreeFacts, NullNotRec DEF ForestTypeOK
  <2> QED BY <1>1, <1>2, <2>2, Untouched
<1>5. CASE re_pare
  <2>1. PICK c \in Rec : c = fr.chil /\ InTable(c) /\ fr.ret = "orphan" /\ fr.pc = "repare"
    BY <1>5, NullNotRec DEF re_pare, IInv, FrameOK, NoDangling
  <2>2. heap[c].ppid \in Pid \cup {0}
    BY <2>1, TreeFacts, ProcFields
  <2>3. CASE UNCHANGED pare
    BY <1>1, <1>2, <2>3, Untouched
  <2>4. CASE ~UNCHANGED pare
    <3>1. PICK p \in Rec : p = proc_look(heap[c].ppid) /\ InTable(p) /\ heap[p].pid = heap[c].ppid
                           /\ atta_chil(p, c)
      BY <1>5, <2>1, <2>2, <2>4, LookedUp DEF re_pare
    <3>2. Going(heap[p].pid) \/ Threaded(heap[p].pid)
      BY <2>1, <3>1, Numbered DEF Agreeing, HandlerOK, Named, Bond
    <3>3. Threadless => ~Dead(p)
      BY <3>1, <3>2, DeadFacts DEF Threadless, Threaded
    <3> QED BY <1>1, <1>2, <3>1, <3>3, AttachSpares, Untouched
  <2> QED BY <2>3, <2>4
<1> QED BY <1>3, <1>4, <1>5

\* Every step
LEMMA StepsSpare ==
  ASSUME IInv, KeyInv, AgeInv, Agreeing, [Next]_vars, NEW r \in Rec, Dead(r)
  PROVE  Final(r)
<1>1. CASE sock_reci
  BY <1>1, EventsSpare
<1>2. CASE Step /\ ~sock_reci
  BY <1>2, ReadsSpare, LinksSpare, OthersSpare DEF Step
<1>3. CASE UNCHANGED tracker
  <2>1. UNCHANGED <<heap, pare>>
    BY <1>3 DEF tracker
  <2> QED BY <2>1, DeadFacts, Untouched
<1>4. CASE UNCHANGED vars \/ sock_empty
  BY <1>3, <1>4 DEF sock_empty, vars, tracker
<1> QED BY <1>1, <1>2, <1>3, <1>4 DEF Next

(* A process whose exit was handled stays dead: no event that comes late, no  *)
(* refresh and no new parent pointer reaches its record, when no pid is used  *)
(* again and no event is lost (even_exit, prfs_stat's alive = true,           *)
(* even_fork and re_pare).                                                    *)
THEOREM DeathFinal == ASSUME ~Recycle, MaxClock <= QMax PROVE Spec => DeathIsFinal
<1>1. IInv /\ KeyInv /\ AgeInv /\ Agreeing /\ [Next]_vars =>
        [\A r \in Rec : Dead(r) =>
           /\ Dead(r)'
           /\ ~heap'[r].alive
           /\ heap'[r].death_time = heap[r].death_time
           /\ heap'[r].birth_time = heap[r].birth_time
           /\ Threadless => \A c \in Rec : pare'[c] = r => pare[c] = r]_vars
  BY StepsSpare DEF Final
<1> QED BY <1>1, AgreeInvariance, PTL DEF Spec, DeathIsFinal
===============================================================================

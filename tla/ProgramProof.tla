------------------------------ MODULE ProgramProof ------------------------------
(***************************************************************************)
(* The program releases what it holds on every way out, the paths of a     *)
(* record are there when the logger prints them, the flush writes whole    *)
(* lines whatever allocation fails, and the times it logs are exact.       *)
(***************************************************************************)
EXTENDS Program, SeqLemmas, FiniteSetTheorems

-------------------------------------------------------------------------------
LEMMA AddExact ==
  ASSUME NEW a \in Timespec, NEW b \in Timespec
  PROVE  /\ timespec_add(a, b) \in Timespec
         /\ Value(timespec_add(a, b)) = Value(a) + Value(b)
<1> DEFINE sec == b.tv_sec + a.tv_sec
           nsec == b.tv_nsec + a.tv_nsec
<1>1. /\ sec \in Int /\ nsec \in 0 .. 2*NS-2 /\ NS \in Nat /\ NS > 0
      /\ a.tv_sec \in Int /\ b.tv_sec \in Int /\ a.tv_nsec \in Int /\ b.tv_nsec \in Int
  BY ClockConstants DEF Timespec
<1>2. sec * NS = b.tv_sec * NS + a.tv_sec * NS /\ (sec + 1) * NS = sec * NS + NS
  BY <1>1
<1> QED BY <1>1, <1>2 DEF timespec_add, Timespec, Value

LEMMA SubExact ==
  ASSUME NEW a \in Timespec, NEW b \in Timespec
  PROVE  /\ timespec_sub(a, b) \in Timespec
         /\ Value(timespec_sub(a, b)) = Value(a) - Value(b)
<1> DEFINE sec == a.tv_sec - b.tv_sec
           nsec == a.tv_nsec - b.tv_nsec
<1>1. /\ sec \in Int /\ nsec \in -(NS-1) .. NS-1 /\ NS \in Nat /\ NS > 0
      /\ a.tv_sec \in Int /\ b.tv_sec \in Int /\ a.tv_nsec \in Int /\ b.tv_nsec \in Int
  BY ClockConstants DEF Timespec
<1>2. sec * NS = a.tv_sec * NS - b.tv_sec * NS /\ (sec - 1) * NS = sec * NS - NS
  BY <1>1
<1> QED BY <1>1, <1>2 DEF timespec_sub, Timespec, Value

LEMMA ClockExact ==
  ASSUME NEW v \in Nat
  PROVE  Clock(v) \in Timespec /\ Value(Clock(v)) = v
<1>1. v \div NS \in Int /\ v % NS \in 0 .. NS-1 /\ v = NS * (v \div NS) + (v % NS)
  BY ClockConstants
<1> DEFINE q == v \div NS
           r == v % NS
<1>2. Clock(v) = [tv_sec |-> q, tv_nsec |-> r]
  BY DEF Clock
<1>3. q \in Int /\ r \in 0 .. NS-1 /\ NS \in Nat /\ v = NS * q + r
  BY <1>1, ClockConstants
<1> HIDE DEF q, r
<1>4. NS * q = q * NS
  BY <1>3
<1> QED BY <1>2, <1>3, <1>4 DEF Timespec, Value

(* For every length of a second and whatever the clocks show: the logged     *)
(* time is well formed and exact up to the delay between the two reads.      *)
THEOREM ResoIsExact == ResoExact
<1> SUFFICES ASSUME NEW boot \in 0..MaxTime, NEW late \in 0..MaxTime,
                    NEW wall \in 0..MaxTime, NEW event \in 0..MaxTime
             PROVE  LET reso == logg_time_reso(Clock(event), Clock(boot),
                                               Clock(boot + late + wall))
                    IN  reso.tv_nsec \in 0 .. NS-1 /\ Value(reso) = event + wall + late
  BY DEF ResoExact
<1> DEFINE e == Clock(event)
           mono == Clock(boot)
           real == Clock(boot + late + wall)
           base == timespec_sub(real, mono)
           reso == timespec_add(base, e)
<1>1. /\ boot \in Nat /\ late \in Nat /\ wall \in Nat /\ event \in Nat
      /\ boot + late + wall \in Nat
  BY ClockConstants
<1>2. e \in Timespec /\ Value(e) = event
  BY <1>1, ClockExact
<1>3. mono \in Timespec /\ Value(mono) = boot
  BY <1>1, ClockExact
<1>4. real \in Timespec /\ Value(real) = boot + late + wall
  BY <1>1, ClockExact
<1> HIDE DEF e, mono, real
<1>5. base \in Timespec /\ Value(base) = Value(real) - Value(mono)
  BY <1>3, <1>4, SubExact
<1>6. logg_time_reso(e, mono, real) = reso
  BY DEF logg_time_reso
<1> HIDE DEF base
<1>7. reso \in Timespec /\ Value(reso) = Value(base) + Value(e)
  BY <1>2, <1>5, AddExact
<1> HIDE DEF reso
<1>8. Value(reso) = event + wall + late
  BY <1>1, <1>2, <1>3, <1>4, <1>5, <1>7
<1>9. reso.tv_nsec \in 0 .. NS-1
  BY <1>7 DEF Timespec
<1> QED BY <1>6, <1>8, <1>9 DEF e, mono, real

-------------------------------------------------------------------------------
\* Where the program is, and what it holds there

Before == {"sock_crea", "sigaction", "timer_setup", "calloc"}
Loop == {"while", "sock_reci", "if", "logg_proc_parse", "fopen", "reset"}
Way_out == {"timer_delete", "sock_unre", "close", "proc_tabl_dest"}

\* What each call of the main program finds
Stages ==
  /\ pc \in Before \cup {"sock_regi"} \cup Loop \cup Way_out \cup {"exit"}
  /\ pc \notin {"sock_crea", "sigaction", "exit"} => handlers
  /\ pc \notin {"sock_crea", "proc_tabl_dest", "exit"} => sock = "held"
  /\ pc = "proc_tabl_dest" => sock = "freed"
  /\ pc \in Before => table = "none"
  /\ pc \notin Before \cup {"exit"} => table = "held"
  /\ pc \in {"sock_unre", "close", "proc_tabl_dest"} => timer = "freed"
  /\ pc \in Before \cup {"sock_regi", "proc_tabl_dest"} => ~listening
  /\ pc = "exit" /\ handlers =>
       sock = "freed" /\ table # "held" /\ ~listening /\ (table = "freed" => timer = "freed")

\* The handlers return with their record loaded and inserted, or gone, and a flush
\* begins and ends inside one turn of the loop.
Turns ==
  /\ pc # "sock_reci" => look # "fd" /\ ~Loaded
  /\ at \notin {"idle", "crash"} => pc = "fopen"
  /\ pc \in Before \cup {"exit"} => records = <<>>

\* The slots and the count of the record, after no look, one, or more
PathsInv ==
  /\ look \in {"idle", "fd", "gone"} /\ fd_coun \in Int /\ looks \in Nat
  /\ good \in BOOLEAN /\ given \in BOOLEAN
  /\ looks = 0 => look = "idle" /\ ~given /\ fd_coun = 0
  /\ looks <= 1 => ~bad /\ leaked = 0
  /\ looks <= 1 /\ given => look = "idle" /\ Paths = 0 .. fd_coun-1
  /\ looks <= 1 /\ ~given /\ look = "idle" => fd_coun = 0
  /\ ~given => slots = <<>>
  /\ look # "fd" /\ good /\ given => 0 .. fd_coun-1 \subseteq Paths

\* The inductive invariant
ReleaseInv == Stages /\ Turns /\ PathsInv

-------------------------------------------------------------------------------
\* What a read of the descriptors that filled i of n slots leaves
LEMMA FilledPaths ==
  ASSUME NEW n \in Nat, NEW i \in 0..n, NEW tail \in {"junk", "null"}
  PROVE  {j \in DOMAIN Filled(n, i, tail) : Filled(n, i, tail)[j] = "path"} = 0 .. i-1
<1> DEFINE f == Filled(n, i, tail)
<1>1. DOMAIN f = 0 .. n-1
  BY DEF Filled
<1>2. ASSUME NEW j \in 0 .. n-1 PROVE f[j] = "path" <=> j \in 0 .. i-1
  <2>1. f[j] = IF j < i THEN "path" ELSE IF j = i THEN tail ELSE "junk"
    BY DEF Filled
  <2>2. tail # "path"
    OBVIOUS
  <2> HIDE DEF f
  <2> QED BY <2>1, <2>2
<1>3. 0 .. i-1 \subseteq 0 .. n-1
  OBVIOUS
<1> HIDE DEF f
<1> QED BY <1>1, <1>2, <1>3 DEF f

\* The slots are released exactly when they are all paths.
LEMMA CleanExact ==
  ASSUME fd_coun \in Int, Paths = 0 .. fd_coun-1, ~bad, leaked = 0, prfs_clean_fd(fd_coun)
  PROVE  ~bad' /\ leaked' = 0
<1>1. \A j \in 0 .. fd_coun-1 : j \in DOMAIN slots /\ slots[j] = "path"
  BY DEF Paths
<1>2. \A j \in 0 .. fd_coun-1 : ~(j \notin DOMAIN slots \/ slots[j] = "junk")
  BY <1>1
<1>3. {j \in Paths : j >= fd_coun} = {}
  OBVIOUS
<1>4. Cardinality({j \in Paths : j >= fd_coun}) = 0
  BY <1>3, FS_EmptySet
<1> QED BY <1>2, <1>4 DEF prfs_clean_fd

LEMMA StatusKeeps ==
  ASSUME PathsInv, prfs_status
  PROVE  PathsInv' /\ looks' > 0
<1>1. looks' = looks + 1 /\ look = "idle" /\ looks \in Nat
  BY DEF prfs_status, PathsInv
<1>2. slots' = slots /\ given' = given /\ leaked' = leaked /\ bad' = bad /\ Paths' = Paths
  BY DEF prfs_status, Paths
<1>3. \/ Fail /\ fd_coun' \in {fd_coun, -1}
      \/ look' = "fd" /\ fd_coun' \in FDSize /\ UNCHANGED good
  BY DEF prfs_status
<1>4. fd_coun' \in Int
  <2>1. fd_coun \in Int /\ -1 \in Int
    BY DEF PathsInv
  <2>2. FDSize \subseteq Int
    BY SizesAreNumbers
  <2> QED BY <1>3, <2>1, <2>2
<1>5. looks' <= 1 => looks = 0 /\ ~given /\ ~bad /\ leaked = 0
  BY <1>1 DEF PathsInv
<1>6. look' \in {"idle", "fd", "gone"} /\ good' \in BOOLEAN
  BY <1>3 DEF Fail, PathsInv
<1>7. looks' <= 1 => look' # "idle"
  BY <1>1, <1>3 DEF Fail
<1>8. look' # "fd" => good' = FALSE
  BY <1>3 DEF Fail
<1>9. looks' > 0 /\ looks' # 0 /\ looks' \in Nat
  BY <1>1
<1>10. given' \in BOOLEAN /\ (~given' => slots' = <<>>)
  BY <1>2 DEF PathsInv
<1>11. looks' <= 1 => ~given' /\ ~bad' /\ leaked' = 0
  BY <1>2, <1>5
<1> QED BY <1>4, <1>6, <1>7, <1>8, <1>9, <1>10, <1>11 DEF PathsInv

LEMMA FdKeeps ==
  ASSUME PathsInv, prfs_fd
  PROVE  PathsInv' /\ looks' = looks
<1>1. look = "fd" /\ looks' = looks /\ looks # 0 /\ looks \in Nat
  BY DEF prfs_fd, PathsInv
<1>2. looks <= 1 => ~given /\ ~bad /\ leaked = 0
  BY <1>1 DEF PathsInv
<1>3. CASE /\ fd_coun = 0
           /\ leaked' = leaked + (IF given THEN 1 + Cardinality(Paths) ELSE 0)
           /\ slots' = <<>> /\ given' = FALSE
           /\ good' = TRUE /\ look' = "idle"
           /\ UNCHANGED <<fd_coun, bad>>
  <2>1. looks' <= 1 => leaked' = 0 /\ ~bad'
    BY <1>1, <1>2, <1>3
  <2> QED BY <1>1, <1>3, <2>1 DEF PathsInv
<1>4. CASE fd_coun # 0 /\ Fail /\ UNCHANGED <<fd_coun, slots, given, leaked, bad>>
  <2>1. good' = FALSE /\ look' \in {"idle", "gone"} /\ (looks' <= 1 => look' = "gone")
    BY <1>1, <1>4 DEF Fail
  <2>2. Paths' = Paths
    BY <1>4 DEF Paths
  <2> QED BY <1>1, <1>2, <1>4, <2>1, <2>2 DEF PathsInv
<1>5. CASE /\ fd_coun # 0
           /\ IF given THEN prfs_clean_fd(fd_coun) ELSE UNCHANGED <<leaked, bad>>
           /\ \/ /\ Fail
                 /\ slots' = <<>> /\ given' = FALSE
                 /\ UNCHANGED fd_coun
              \/ /\ good' = TRUE /\ look' = "idle"
                 /\ given' = TRUE
                 /\ \E i \in 0..fd_coun, tail \in {"junk", "null"} :
                      slots' = Filled(fd_coun, i, tail) /\ fd_coun' = i
  <2>1. looks' <= 1 => leaked' = 0 /\ ~bad'
    BY <1>1, <1>2, <1>5
  <2>2. CASE Fail /\ slots' = <<>> /\ given' = FALSE /\ UNCHANGED fd_coun
    <3>1. good' = FALSE /\ look' \in {"idle", "gone"} /\ (looks' <= 1 => look' = "gone")
      BY <1>1, <2>2 DEF Fail
    <3> QED BY <1>1, <2>1, <2>2, <3>1 DEF PathsInv
  <2>3. CASE /\ good' = TRUE /\ look' = "idle" /\ given' = TRUE
             /\ \E i \in 0..fd_coun, tail \in {"junk", "null"} :
                  slots' = Filled(fd_coun, i, tail) /\ fd_coun' = i
    <3>1. PICK i \in 0..fd_coun, tail \in {"junk", "null"} :
                 slots' = Filled(fd_coun, i, tail) /\ fd_coun' = i
      BY <2>3
    <3>2. fd_coun \in Nat
      BY DEF PathsInv
    <3>3. Paths' = 0 .. i-1
      BY <3>1, <3>2, FilledPaths DEF Paths
    <3> QED BY <1>1, <2>1, <2>3, <3>1, <3>3 DEF PathsInv
  <2> QED BY <1>5, <2>2, <2>3
<1> QED BY <1>3, <1>4, <1>5 DEF prfs_fd

LEMMA DestKeeps ==
  ASSUME PathsInv, proc_dest
  PROVE  PathsInv' /\ look' = "gone" /\ looks' = looks
<1>1. /\ look = "idle" /\ looks > 0 /\ prfs_clean_fd(fd_coun)
      /\ look' = "gone" /\ slots' = <<>> /\ given' = FALSE
      /\ UNCHANGED <<fd_coun, looks, good>>
  BY DEF proc_dest
<1>2. ASSUME looks <= 1 PROVE ~bad' /\ leaked' = 0
  <2>1. fd_coun \in Int /\ ~bad /\ leaked = 0
    BY <1>2 DEF PathsInv
  <2>2. Paths = 0 .. fd_coun-1
    <3>1. CASE given
      BY <1>2, <3>1 DEF PathsInv
    <3>2. CASE ~given
      <4>1. slots = <<>> /\ fd_coun = 0
        BY <1>1, <1>2, <3>2 DEF PathsInv
      <4> QED BY <4>1 DEF Paths
    <3> QED BY <3>1, <3>2
  <2> QED BY <1>1, <2>1, <2>2, CleanExact
<1>3. looks' = looks /\ looks # 0
  BY <1>1 DEF PathsInv
<1> QED BY <1>1, <1>2, <1>3 DEF PathsInv

LEMMA IdleKeeps ==
  ASSUME PathsInv, UNCHANGED fdVars
  PROVE  PathsInv'
  BY DEF PathsInv, fdVars, Paths

-------------------------------------------------------------------------------
LEMMA NotInserted == records = <<>> => ~Inserted
  BY DEF Inserted, ToSet

LEMMA StagesKept ==
  ASSUME Stages,
         SetUp \/ Turn \/ ShutDown \/ sock_reci \/ logg_proc_parse \/ fopen \/ proc_tabl_dest
           \/ SigInt \/ SigUsr1 \/ UNCHANGED mainVars
  PROVE  Stages'
<1> USE DEF Stages, Before, Loop, Way_out, held, signals
<1>1. CASE SetUp
  BY <1>1 DEF SetUp, sock_crea, sigaction, timer_setup, proc_tabl_init, sock_regi
<1>2. CASE Turn
  BY <1>2 DEF Turn, while, if, reset
<1>3. CASE ShutDown
  BY <1>3 DEF ShutDown, timer_delete, sock_unre, close
<1>4. CASE sock_reci \/ logg_proc_parse \/ fopen
  BY <1>4 DEF sock_reci, logg_proc_parse, fopen
<1>5. CASE proc_tabl_dest
  BY <1>5 DEF proc_tabl_dest
<1>6. CASE SigInt
  BY <1>6 DEF SigInt
<1>7. CASE SigUsr1
  BY <1>7 DEF SigUsr1
<1>8. CASE UNCHANGED mainVars
  BY <1>8 DEF mainVars
<1> QED BY <1>1, <1>2, <1>3, <1>4, <1>5, <1>6, <1>7, <1>8

\* A step of Program, told by what it does to the main program, the record and
\* the flush
LEMMA AloneMoves ==
  ASSUME Stages, SetUp \/ Turn \/ ShutDown
  PROVE  /\ pc # "sock_reci" /\ pc # "fopen"
         /\ pc' \in Before \cup {"exit"} => pc \in Before
<1> USE DEF Before
<1>1. CASE SetUp
  BY <1>1 DEF SetUp, sock_crea, sigaction, timer_setup, proc_tabl_init, sock_regi
<1>2. CASE Turn
  BY <1>2 DEF Turn, while, if, reset
<1>3. CASE ShutDown
  BY <1>3 DEF ShutDown, timer_delete, sock_unre, close
<1> QED BY <1>1, <1>2, <1>3

\* Every step keeps the invariant.
LEMMA ReleaseKept ==
  ASSUME ReleaseInv, [Next]_vars
  PROVE  ReleaseInv'
<1>1. Stages /\ Turns /\ PathsInv
  BY DEF ReleaseInv
<1> DEFINE Same == records' = records /\ at' = at
<1>2. UNCHANGED loggerVars => Same
  BY DEF loggerVars
<1>3. UNCHANGED fdVars => look' = look /\ looks' = looks
  BY DEF fdVars
<1>4. UNCHANGED mainVars => pc' = pc
  BY DEF mainVars
<1> HIDE DEF Same
<1>5. CASE Alone
  <2>1. Stages' /\ PathsInv'
    BY <1>1, <1>5, StagesKept, IdleKeeps DEF Alone
  <2>2. pc # "sock_reci" /\ pc # "fopen" /\ (pc' \in Before \cup {"exit"} => pc \in Before)
    BY <1>1, <1>5, AloneMoves DEF Alone
  <2>3. Same /\ look' = look /\ looks' = looks
    BY <1>2, <1>3, <1>5 DEF Alone
  <2> QED BY <1>1, <2>1, <2>2, <2>3 DEF ReleaseInv, Turns, Loaded, Inserted, Same
<1>6. CASE Look
  <2>1. pc = "sock_reci" /\ pc' = pc /\ Same /\ UNCHANGED mainVars
    BY <1>2, <1>4, <1>6 DEF Look
  <2>2. Stages' /\ PathsInv'
    BY <1>1, <1>6, <2>1, StagesKept, StatusKeeps, FdKeeps DEF Look
  <2> QED BY <1>1, <2>1, <2>2 DEF ReleaseInv, Turns, Same, Before
<1>7. CASE proc_inse
  <2>1. pc = "sock_reci" /\ pc' = pc /\ UNCHANGED mainVars /\ UNCHANGED fdVars /\ at' = at
    BY <1>4, <1>7 DEF proc_inse, Insert
  <2>2. Stages' /\ PathsInv'
    BY <1>1, <2>1, StagesKept, IdleKeeps
  <2> QED BY <1>1, <2>1, <2>2 DEF ReleaseInv, Turns, Before
<1>8. CASE inse_fail
  <2>1. pc = "sock_reci" /\ pc' = pc /\ Same /\ UNCHANGED mainVars
    BY <1>2, <1>4, <1>8 DEF inse_fail
  <2>2. Stages' /\ PathsInv'
    BY <1>1, <1>8, <2>1, StagesKept, DestKeeps DEF inse_fail
  <2> QED BY <1>1, <2>1, <2>2 DEF ReleaseInv, Turns, Same, Before
<1>9. CASE Received
  <2>1. pc = "sock_reci" /\ pc' = "if" /\ look # "fd" /\ ~Loaded
    BY <1>9 DEF Received, sock_reci
  <2>2. Same /\ look' = look /\ looks' = looks
    BY <1>2, <1>3, <1>9 DEF Received
  <2>3. Stages' /\ PathsInv'
    BY <1>1, <1>9, StagesKept, IdleKeeps DEF Received
  <2> QED BY <1>1, <2>1, <2>2, <2>3 DEF ReleaseInv, Turns, Loaded, Inserted, Same, Before
<1>10. CASE FlushBegins
  <2>1. pc = "logg_proc_parse" /\ pc' = "fopen" /\ records' = records
    BY <1>10 DEF FlushBegins, logg_proc_parse, json_buff
  <2>2. look' = look /\ looks' = looks
    BY <1>3, <1>10 DEF FlushBegins
  <2>3. Stages' /\ PathsInv'
    BY <1>1, <1>10, StagesKept, IdleKeeps DEF FlushBegins
  <2> QED BY <1>1, <2>1, <2>2, <2>3 DEF ReleaseInv, Turns, Loaded, Inserted, Before
<1>11. CASE FlushGoesOn
  <2>1. pc = "fopen" /\ pc' = pc /\ UNCHANGED mainVars /\ UNCHANGED fdVars /\ records' = records
    BY <1>4, <1>11 DEF FlushGoesOn, CreateObject, PrintUnformatted, logg_mem_writ
  <2>2. Stages' /\ PathsInv'
    BY <1>1, <2>1, StagesKept, IdleKeeps
  <2> QED BY <1>1, <1>3, <2>1, <2>2 DEF ReleaseInv, Turns, Loaded, Inserted, Before
<1>12. CASE FlushEnds
  <2>1. pc = "fopen" /\ pc' = "reset" /\ records' = records /\ at' = "idle"
    BY <1>12 DEF FlushEnds, fopen, AppendFile
  <2>2. look' = look /\ looks' = looks
    BY <1>3, <1>12 DEF FlushEnds
  <2>3. Stages' /\ PathsInv'
    BY <1>1, <1>12, StagesKept, IdleKeeps DEF FlushEnds
  <2> QED BY <1>1, <2>1, <2>2, <2>3 DEF ReleaseInv, Turns, Loaded, Inserted, Before
<1>13. CASE Destroy
  <2>1. pc = "proc_tabl_dest" /\ pc' = "exit" /\ records' = <<>> /\ at' = at
    BY <1>13 DEF Destroy, proc_tabl_dest, Clear
  <2>2. Stages'
    BY <1>1, <1>13, StagesKept DEF Destroy
  <2>3. look # "fd" /\ (look = "idle" /\ looks > 0 => Inserted)
    BY <1>1, <2>1 DEF Turns, Loaded
  <2>4. CASE Inserted
    <3>1. PathsInv' /\ look' = "gone"
      BY <1>1, <1>13, <2>4, DestKeeps DEF Destroy
    <3> QED BY <1>1, <2>1, <2>2, <3>1 DEF ReleaseInv, Turns, Loaded
  <2>5. CASE ~Inserted
    <3>1. PathsInv' /\ look' = look /\ looks' = looks
      BY <1>1, <1>3, <1>13, <2>5, IdleKeeps DEF Destroy
    <3> QED BY <1>1, <2>1, <2>2, <2>3, <2>5, <3>1 DEF ReleaseInv, Turns, Loaded
  <2> QED BY <2>4, <2>5
<1>14. CASE Signal
  <2>1. Same /\ look' = look /\ looks' = looks
    BY <1>2, <1>3, <1>14 DEF Signal
  <2>2. Stages' /\ PathsInv'
    BY <1>1, <1>14, StagesKept, IdleKeeps DEF Signal
  <2>3. pc' = pc \/ (pc \in Before /\ pc' = "exit")
    BY <1>1, <1>14 DEF Signal, SigInt, SigUsr1, Stages, Before
  <2>4. pc' # "sock_reci" => pc # "sock_reci"
    BY <2>3 DEF Before
  <2>5. pc = "fopen" => pc' = "fopen"
    BY <2>3 DEF Before
  <2> QED BY <1>1, <2>1, <2>2, <2>3, <2>4, <2>5 DEF ReleaseInv, Turns, Loaded, Inserted, Same
<1>15. CASE UNCHANGED vars
  <2>1. Same /\ look' = look /\ looks' = looks /\ pc' = pc
    BY <1>2, <1>3, <1>4, <1>15 DEF vars
  <2>2. Stages' /\ PathsInv'
    BY <1>1, <1>15, StagesKept, IdleKeeps DEF vars
  <2> QED BY <1>1, <2>1, <2>2 DEF ReleaseInv, Turns, Loaded, Inserted, Same
<1> QED BY <1>5, <1>6, <1>7, <1>8, <1>9, <1>10, <1>11, <1>12, <1>13, <1>14, <1>15
        DEF Next, Step

LEMMA ReleaseStarts == Init => ReleaseInv
<1> SUFFICES ASSUME Init PROVE ReleaseInv
  OBVIOUS
<1>1. Stages
  BY DEF Init, MainInit, Stages, Before, Loop, Way_out
<1>2. look = "idle" /\ looks = 0 /\ fd_coun = 0 /\ given = FALSE /\ good = FALSE
      /\ slots = <<>> /\ leaked = 0 /\ bad = FALSE
  BY DEF Init, FdInit
<1>3. PathsInv
  <2>1. ~given /\ ~good /\ ~bad /\ fd_coun \in Int /\ looks \in Nat
    BY <1>2
  <2> QED BY <1>2, <2>1 DEF PathsInv
<1>4. Turns
  BY <1>2 DEF Init, LoggerInit, Turns, Loaded
<1> QED BY <1>1, <1>3, <1>4 DEF ReleaseInv

LEMMA ReleaseInvariance == Spec => []ReleaseInv
  BY ReleaseStarts, ReleaseKept, PTL DEF Spec

(* Whenever a signal comes, what the loop and the flush use is held, and     *)
(* every way out after the handler was installed releases the socket, the    *)
(* table, and the record and its paths if it was looked at once; the timer   *)
(* is released when the loop has run, not on the ways out of main.c:224-233  *)
(* (main.c:213-251).                                                         *)
THEOREM EverythingReleased == Spec => []HeldThenReleased
<1>1. ReleaseInv => HeldThenReleased
  <2> SUFFICES ASSUME ReleaseInv PROVE HeldThenReleased
    OBVIOUS
  <2>1. Stages /\ Turns /\ PathsInv
    BY DEF ReleaseInv
  <2>2. pc = "exit" /\ looks <= 1 => ~given /\ leaked = 0
    <3> SUFFICES ASSUME pc = "exit", looks <= 1 PROVE ~given /\ leaked = 0
      OBVIOUS
    <3>1. ~Loaded /\ ~Inserted
      BY <2>1, NotInserted DEF Turns
    <3>2. looks = 0 \/ looks > 0
      BY <2>1 DEF PathsInv
    <3> QED BY <2>1, <3>1, <3>2 DEF PathsInv, Loaded
  <2> QED BY <2>1, <2>2 DEF HeldThenReleased, Stages, Before
<1> QED BY <1>1, ReleaseInvariance, PTL

(* The first look at a process frees the paths it stored whatever fails, and *)
(* after a look that succeeded the logger prints paths that are there. A     *)
(* record whose refresh failed is printed too, with the count that refresh   *)
(* has overwritten: nothing is said of its paths (ser_proc.c:117, 125,       *)
(* ser_prfs.c:155, ser_logg.c:46-52).                                        *)
THEOREM PathsAreExact == Spec => []PathsExact
<1>1. ReleaseInv => PathsExact
  <2> SUFFICES ASSUME ReleaseInv PROVE PathsExact
    OBVIOUS
  <2>1. FirstLookExact
    BY DEF ReleaseInv, PathsInv, FirstLookExact
  <2>2. at = "print" => look # "fd"
    BY DEF ReleaseInv, Turns
  <2> QED BY <2>1, <2>2 DEF ReleaseInv, PathsInv, PathsExact
<1> QED BY <1>1, ReleaseInvariance, PTL

-------------------------------------------------------------------------------
\* The text the logger writes

\* The letters of a line; End is none of them.
Char == (Rec \X (Nat \ {0})) \cup {NewLine}

LEMMA EndIsNoChar == End \notin Char
<1>1. End[2] = 0 /\ End # NewLine
  BY DEF End, NewLine
<1>2. \A c \in Rec \X (Nat \ {0}) : c[2] # 0
  OBVIOUS
<1> QED BY <1>1, <1>2 DEF Char

LEMMA AppendLength ==
  ASSUME NEW t \in Seq(Char)
  PROVE  Len(Append(t, End)) = Len(t) + 1
<1> DEFINE All == Char \cup {End}
<1>1. t \in Seq(All) /\ End \in All
  BY SeqMonotonic
<1> HIDE DEF All
<1> QED BY <1>1, AppendProperties

LEMMA TextType ==
  ASSUME NEW r \in Rec
  PROVE  Text(r) \in Seq(Char) /\ Len(Text(r)) = Size[r] /\ Size[r] \in Nat
<1>1. Size[r] \in Nat
  BY SizesAreLengths
<1>2. Text(r) \in [1..Size[r] -> Char]
  BY <1>1 DEF Text, Char
<1> QED BY <1>1, <1>2, FunctionIsSeq

LEMMA LineType ==
  ASSUME NEW r \in Rec
  PROVE  Line(r) \in Seq(Char)
<1>1. NewLine \in Char
  BY DEF Char
<1> QED BY <1>1, TextType, AppendProperties DEF Line

\* The recursion that defines the lines has a solution.
LEMMA LinesRecursion ==
  ASSUME NEW s \in Seq(Rec), NEW omitted
  PROVE  /\ Lines(s, omitted)[0] = <<>>
         /\ \A k \in 1..Len(s) :
              Lines(s, omitted)[k] = IF s[k] \in omitted THEN Lines(s, omitted)[k-1]
                                     ELSE Lines(s, omitted)[k-1] \o Line(s[k])
<1> DEFINE body(f, k) == IF k = 0 THEN <<>>
                         ELSE IF s[k] \in omitted THEN f[k-1]
                         ELSE f[k-1] \o Line(s[k])
           solves(f, n) == f = [k \in 0..n |-> body(f, k)]
           unsolved == {n \in Nat : ~ \E f : solves(f, n)}
           upto == CHOOSE f : f = [k \in 0..Len(s) |-> body(f, k)]
<1>1. unsolved = {}
  <2> SUFFICES ASSUME unsolved # {} PROVE FALSE
    OBVIOUS
  <2>1. PICK m \in unsolved : \A n \in unsolved : m <= n
    <3>1. unsolved \subseteq Nat
      OBVIOUS
    <3> HIDE DEF unsolved
    <3> QED BY <3>1, MinExists
  <2>2. CASE m = 0
    <3> DEFINE f == [k \in 0..0 |-> <<>>]
    <3>1. solves(f, 0)
      OBVIOUS
    <3> QED BY <2>2, <3>1
  <2>3. CASE m # 0
    <3>0. m \in Nat
      OBVIOUS
    <3>1. m-1 \in Nat /\ m-1 \notin unsolved
      <4> HIDE DEF unsolved
      <4>1. m-1 \in Nat /\ ~(m <= m-1)
        BY <3>0, <2>3
      <4> QED BY <4>1, <2>1
    <3>2. PICK f : solves(f, m-1)
      BY <3>1
    <3> DEFINE g == [k \in 0..m |-> IF k = m THEN body(f, m) ELSE f[k]]
    <3>3. \A k \in 0..m : k # m => k \in 0..(m-1)
      BY <3>0
    <3>4. \A k \in 0..(m-1) : f[k] = body(f, k) /\ g[k] = f[k]
      <4>1. \A k \in 0..(m-1) : f[k] = body(f, k)
        <5> HIDE DEF body
        <5> QED BY <3>2
      <4>2. \A k \in 0..(m-1) : k \in 0..m /\ k # m
        BY <3>0
      <4> HIDE DEF body
      <4>3. \A k \in 0..(m-1) : g[k] = f[k]
        BY <4>2
      <4> QED BY <4>1, <4>3
    <3>5. \A k \in 0..m : g[k] = body(g, k)
      <4> TAKE k \in 0..m
      <4>1. k # 0 => g[k-1] = f[k-1]
        <5>1. k # 0 => k-1 \in 0..(m-1)
          BY <3>0
        <5> HIDE DEF g, body
        <5> QED BY <5>1, <3>4
      <4>2. body(g, k) = body(f, k)
        BY <4>1
      <4>3. g[k] = body(f, k)
        <5>1. CASE k = m
          BY <5>1
        <5>2. CASE k # m
          BY <5>2, <3>3, <3>4
        <5> QED BY <5>1, <5>2
      <4> QED BY <4>2, <4>3
    <3>6. solves(g, m)
      BY <3>5
    <3> QED BY <3>6
  <2> QED BY <2>2, <2>3
<1>2. Len(s) \in Nat
  BY LenProperties
<1>3. \E f : solves(f, Len(s))
  BY <1>1, <1>2
<1>4. upto = [k \in 0..Len(s) |-> body(upto, k)]
  BY <1>3
<1>5. Lines(s, omitted) = upto
  BY DEF Lines
<1> HIDE DEF upto
<1>6. upto[0] = <<>>
  BY <1>2, <1>4
<1>7. ASSUME NEW k \in 1..Len(s)
      PROVE  upto[k] = IF s[k] \in omitted THEN upto[k-1] ELSE upto[k-1] \o Line(s[k])
  <2>1. k \in 0..Len(s) /\ k # 0
    BY <1>2
  <2>2. upto[k] = body(upto, k)
    BY <1>4, <2>1
  <2> QED BY <2>1, <2>2
<1> QED BY <1>5, <1>6, <1>7

LEMMA LinesType ==
  ASSUME NEW s \in Seq(Rec), NEW omitted, NEW k \in 0..Len(s)
  PROVE  Lines(s, omitted)[k] \in Seq(Char)
<1> DEFINE f == Lines(s, omitted)
           wrong == {n \in 0..Len(s) : f[n] \notin Seq(Char)}
<1>1. Len(s) \in Nat
  BY LenProperties
<1>2. f[0] = <<>> /\ \A n \in 1..Len(s) : f[n] = IF s[n] \in omitted THEN f[n-1]
                                                ELSE f[n-1] \o Line(s[n])
  BY LinesRecursion
<1> HIDE DEF f
<1>3. wrong = {}
  <2> SUFFICES ASSUME wrong # {} PROVE FALSE
    OBVIOUS
  <2>1. PICK m \in wrong : \A n \in wrong : m <= n
    <3>1. wrong \subseteq Nat
      BY <1>1
    <3> HIDE DEF wrong
    <3> QED BY <3>1, MinExists
  <2>2. m \in 0..Len(s) /\ f[m] \notin Seq(Char)
    OBVIOUS
  <2>3. m # 0
    BY <1>2, <2>2, EmptySeq
  <2>4. m-1 \in 0..Len(s) /\ m \in 1..Len(s) /\ ~(m <= m-1)
    BY <1>1, <2>2, <2>3
  <2>5. f[m-1] \in Seq(Char)
    BY <2>1, <2>4
  <2>6. Line(s[m]) \in Seq(Char)
    BY <2>4, ElementOfSeq, LineType
  <2>7. f[m-1] \o Line(s[m]) \in Seq(Char)
    BY <2>5, <2>6, ConcatProperties
  <2> QED BY <1>2, <2>2, <2>4, <2>5, <2>7
<1> QED BY <1>3 DEF f

\* Giving up a record further on changes nothing in the lines before it.
LEMMA LinesAgree ==
  ASSUME NEW s \in Seq(Rec), NEW omitted, NEW more, NEW k \in 0..Len(s),
         \A i \in 1..k : s[i] \in omitted <=> s[i] \in more
  PROVE  Lines(s, omitted)[k] = Lines(s, more)[k]
<1> DEFINE f == Lines(s, omitted)
           g == Lines(s, more)
           apart == {n \in 0..k : f[n] # g[n]}
<1>1. Len(s) \in Nat /\ k \in Nat
  BY LenProperties
<1>2. f[0] = <<>> /\ \A n \in 1..Len(s) : f[n] = IF s[n] \in omitted THEN f[n-1]
                                                ELSE f[n-1] \o Line(s[n])
  BY LinesRecursion
<1>3. g[0] = <<>> /\ \A n \in 1..Len(s) : g[n] = IF s[n] \in more THEN g[n-1]
                                                ELSE g[n-1] \o Line(s[n])
  BY LinesRecursion
<1> HIDE DEF f, g
<1>4. apart = {}
  <2> SUFFICES ASSUME apart # {} PROVE FALSE
    OBVIOUS
  <2>1. PICK m \in apart : \A n \in apart : m <= n
    <3>1. apart \subseteq Nat
      BY <1>1
    <3> HIDE DEF apart
    <3> QED BY <3>1, MinExists
  <2>2. m \in 0..k /\ f[m] # g[m]
    OBVIOUS
  <2>3. m # 0
    BY <1>2, <1>3, <2>2
  <2>4. m-1 \in 0..k /\ m \in 1..k /\ m \in 1..Len(s) /\ ~(m <= m-1)
    BY <1>1, <2>2, <2>3
  <2>5. f[m-1] = g[m-1]
    BY <2>1, <2>4
  <2> QED BY <1>2, <1>3, <2>2, <2>4, <2>5
<1>5. k \in 0..k
  BY <1>1
<1> QED BY <1>4, <1>5 DEF f, g

\* A string is what stands before its terminator.
LEMMA Terminated ==
  ASSUME NEW t \in Seq(Char)
  PROVE  CString(Append(t, End)) = t
<1> DEFINE m == Append(t, End)
           All == Char \cup {End}
           first == CHOOSE i \in 1..Len(m) : m[i] = End /\ \A j \in 1 .. i-1 : m[j] # End
<1>1. Len(t) \in Nat /\ t \in Seq(All) /\ \A i \in 1..Len(t) : t[i] \in Char
  BY LenProperties, ElementOfSeq, SeqMonotonic
<1>2. /\ m \in Seq(All) /\ Len(m) = Len(t) + 1 /\ m[Len(t) + 1] = End
      /\ \A i \in 1..Len(t) : m[i] = t[i]
  <2>1. End \in All
    OBVIOUS
  <2> HIDE DEF All
  <2> QED BY <1>1, <2>1, AppendProperties
<1> HIDE DEF m
<1>3. \A i \in 1..Len(t) : m[i] # End
  BY <1>1, <1>2, EndIsNoChar
<1>4. first = Len(t) + 1
  <2>1. Len(t) + 1 \in 1..Len(m) /\ m[Len(t) + 1] = End
        /\ \A j \in 1 .. (Len(t) + 1) - 1 : m[j] # End
    BY <1>1, <1>2, <1>3
  <2>2. \A i \in 1..Len(m) : m[i] = End => i = Len(t) + 1
    BY <1>1, <1>2, <1>3
  <2>3. first \in 1..Len(m) /\ m[first] = End
    BY <2>1
  <2> QED BY <2>2, <2>3
<1>5. CString(m) = SubSeq(m, 1, first - 1)
  BY DEF CString
<1> HIDE DEF first
<1>6. first - 1 = Len(t)
  BY <1>1, <1>4
<1>7. \A i \in 1..Len(t) : m[i] \in Char
  BY <1>1, <1>2
<1>8. /\ SubSeq(m, 1, Len(t)) \in Seq(Char) /\ Len(SubSeq(m, 1, Len(t))) = Len(t)
      /\ \A i \in 1..Len(t) : SubSeq(m, 1, Len(t))[i] = t[i]
  BY <1>1, <1>2, <1>7, SubSeqProperties
<1>9. SubSeq(m, 1, Len(t)) = t
  BY <1>8, SeqEqual
<1> QED BY <1>5, <1>6, <1>9 DEF m

\* Growing the memory and storing a text, its newline and the terminator behind
\* what is there appends the line.
LEMMA Stored ==
  ASSUME NEW t \in Seq(Char), NEW r \in Rec
  PROVE  LET k == Len(t)
             n == Len(Text(r))
             copied == Store(Resize(Append(t, End), k + n + 2), k, Append(Text(r), End))
             stored == Store(copied, k + n, <<NewLine, End>>)
         IN  stored = Append(t \o Line(r), End) /\ Len(t \o Line(r)) = k + n + 1
<1> DEFINE All == Char \cup {End, Junk}
           k == Len(t)
           n == Len(Text(r))
           b == Append(Text(r), End)
           tail == <<NewLine, End>>
           m == Append(t, End)
           grown == Resize(m, k + n + 2)
           copied == Store(grown, k, b)
           stored == Store(copied, k + n, tail)
           line == t \o Line(r)
           wanted == Append(line, End)
<1>1. k \in Nat /\ n \in Nat /\ Text(r) \in Seq(Char)
  BY TextType, LenProperties
<1>2. NewLine \in Char /\ NewLine \in All /\ End \in All /\ Junk \in All /\ Char \subseteq All
  BY DEF Char
<1> HIDE DEF All
<1>3. t \in Seq(All) /\ Text(r) \in Seq(All) /\ Line(r) \in Seq(Char) /\ Line(r) \in Seq(All)
  BY <1>1, <1>2, LineType, SeqMonotonic
<1>4. /\ b \in Seq(All) /\ Len(b) = n + 1 /\ b[n+1] = End
      /\ \A i \in 1..n : b[i] = Text(r)[i] /\ Text(r)[i] \in All
  BY <1>1, <1>2, <1>3, AppendProperties, ElementOfSeq
<1>5. /\ m \in Seq(All) /\ Len(m) = k + 1 /\ m[k+1] = End
      /\ \A i \in 1..k : m[i] = t[i] /\ t[i] \in All
  BY <1>1, <1>2, <1>3, AppendProperties, ElementOfSeq
<1>6. tail \in Seq(All) /\ Len(tail) = 2 /\ tail[1] = NewLine /\ tail[2] = End
  BY <1>2
<1>7. /\ Line(r) \in Seq(All) /\ Len(Line(r)) = n + 1 /\ Line(r)[n+1] = NewLine
      /\ \A i \in 1..n : Line(r)[i] = Text(r)[i]
  BY <1>1, <1>2, <1>3, AppendProperties DEF Line
<1>8. /\ line \in Seq(All) /\ Len(line) = k + n + 1
      /\ \A i \in 1..(k + n + 1) : line[i] = IF i <= k THEN t[i] ELSE Line(r)[i - k]
  <2>1. /\ line \in Seq(All) /\ Len(line) = Len(t) + Len(Line(r))
        /\ \A i \in 1 .. Len(t) + Len(Line(r)) :
             line[i] = IF i <= Len(t) THEN t[i] ELSE Line(r)[i - Len(t)]
    BY <1>3, ConcatProperties
  <2>2. Len(t) + Len(Line(r)) = k + n + 1
    BY <1>1, <1>7
  <2> HIDE DEF line, n
  <2> QED BY <2>1, <2>2
<1>9. /\ wanted \in Seq(All) /\ Len(wanted) = k + n + 2 /\ wanted[k + n + 2] = End
      /\ \A i \in 1..(k + n + 1) : wanted[i] = line[i]
  <2>1. /\ wanted \in Seq(All) /\ Len(wanted) = Len(line) + 1 /\ wanted[Len(line) + 1] = End
        /\ \A i \in 1..Len(line) : wanted[i] = line[i]
    <3>1. line \in Seq(All)
      BY <1>8
    <3> HIDE DEF line
    <3> QED BY <3>1, <1>2, AppendProperties
  <2>2. Len(line) = k + n + 1 /\ Len(line) + 1 = k + n + 2
    BY <1>1, <1>8
  <2> HIDE DEF wanted, line, n, k
  <2> QED BY <2>1, <2>2
<1> HIDE DEF m, b, tail, line, wanted, k, n
<1>10. /\ grown \in Seq(All) /\ Len(grown) = k + n + 2
       /\ \A i \in 1..k : grown[i] = t[i]
  <2>1. grown = [i \in 1..(k + n + 2) |-> IF i <= Len(m) THEN m[i] ELSE Junk]
    BY DEF Resize
  <2>2. \A i \in 1..(k + n + 2) : i <= Len(m) => m[i] \in All
    BY <1>1, <1>2, <1>5
  <2>3. grown \in [1..(k + n + 2) -> All]
    BY <2>1, <2>2, <1>2
  <2>4. k + n + 2 \in Nat /\ \A i \in 1..k : i \in 1..(k + n + 2) /\ i <= Len(m)
    BY <1>1, <1>5
  <2> HIDE DEF grown
  <2>5. \A i \in 1..k : grown[i] = t[i]
    BY <2>1, <2>4, <1>5
  <2> QED BY <2>3, <2>4, <2>5, FunctionIsSeq
<1> HIDE DEF grown
<1>11. /\ copied \in Seq(All) /\ Len(copied) = k + n + 2
       /\ \A i \in 1..k : copied[i] = t[i]
       /\ \A i \in k+1..k+n : copied[i] = Text(r)[i - k]
  <2>1. copied = [i \in 1..(k + n + 2) |-> IF i \in k+1 .. k+(n+1) THEN b[i - k] ELSE grown[i]]
    <3>1. ~(k + (n + 1) > k + n + 2)
      BY <1>1
    <3> QED BY <3>1, <1>4, <1>10 DEF Store
  <2>2. /\ \A i \in 1..(k + n + 2) : grown[i] \in All
        /\ \A i \in k+1 .. k+(n+1) : b[i - k] \in All
    <3>1. \A i \in 1..(n+1) : b[i] \in All
      BY <1>4, ElementOfSeq
    <3>2. \A i \in k+1 .. k+(n+1) : i - k \in 1..(n+1)
      BY <1>1
    <3> QED BY <1>10, <3>1, <3>2, ElementOfSeq
  <2>3. copied \in [1..(k + n + 2) -> All]
    BY <2>1, <2>2
  <2> HIDE DEF copied
  <2>4. k + n + 2 \in Nat
    BY <1>1
  <2>5. ASSUME NEW i \in 1..k PROVE copied[i] = t[i]
    <3>1. i \in 1..(k + n + 2) /\ i \notin k+1 .. k+(n+1)
      BY <1>1
    <3> QED BY <2>1, <3>1, <1>10
  <2>6. ASSUME NEW i \in k+1..k+n PROVE copied[i] = Text(r)[i - k]
    <3>1. i \in 1..(k + n + 2) /\ i \in k+1 .. k+(n+1) /\ i - k \in 1..n
      BY <1>1
    <3> QED BY <2>1, <3>1, <1>4
  <2> QED BY <2>3, <2>4, <2>5, <2>6, FunctionIsSeq
<1> HIDE DEF copied
<1>12. /\ stored \in Seq(All) /\ Len(stored) = k + n + 2
       /\ \A i \in 1..k : stored[i] = t[i]
       /\ \A i \in k+1..k+n : stored[i] = Text(r)[i - k]
       /\ stored[k + n + 1] = NewLine /\ stored[k + n + 2] = End
  <2>1. stored = [i \in 1..(k + n + 2) |->
                    IF i \in (k+n)+1 .. (k+n)+2 THEN tail[i - (k+n)] ELSE copied[i]]
    <3>1. ~((k + n) + 2 > k + n + 2)
      BY <1>1
    <3> QED BY <3>1, <1>6, <1>11 DEF Store
  <2>2. /\ \A i \in 1..(k + n + 2) : copied[i] \in All
        /\ \A i \in (k+n)+1 .. (k+n)+2 : tail[i - (k+n)] \in All
    <3>1. \A i \in (k+n)+1 .. (k+n)+2 : i - (k+n) \in 1..2
      BY <1>1
    <3> QED BY <1>6, <1>11, <3>1, ElementOfSeq
  <2>3. stored \in [1..(k + n + 2) -> All]
    BY <2>1, <2>2
  <2> HIDE DEF stored
  <2>4. k + n + 2 \in Nat
    BY <1>1
  <2>5. ASSUME NEW i \in 1..(k+n) PROVE stored[i] = copied[i]
    <3>1. i \in 1..(k + n + 2) /\ i \notin (k+n)+1 .. (k+n)+2
      BY <1>1
    <3> QED BY <2>1, <3>1
  <2>6. /\ \A i \in 1..k : i \in 1..(k+n)
        /\ \A i \in k+1..k+n : i \in 1..(k+n)
    BY <1>1
  <2>7. stored[k + n + 1] = NewLine
    <3>1. k+n+1 \in 1..(k + n + 2) /\ k+n+1 \in (k+n)+1 .. (k+n)+2 /\ (k+n+1) - (k+n) = 1
      BY <1>1
    <3> QED BY <2>1, <3>1, <1>6
  <2>8. stored[k + n + 2] = End
    <3>1. k+n+2 \in 1..(k + n + 2) /\ k+n+2 \in (k+n)+1 .. (k+n)+2 /\ (k+n+2) - (k+n) = 2
      BY <1>1
    <3> QED BY <2>1, <3>1, <1>6
  <2> QED BY <2>3, <2>4, <2>5, <2>6, <2>7, <2>8, <1>11, FunctionIsSeq
<1> HIDE DEF stored
<1>13. ASSUME NEW i \in 1..(k + n + 2) PROVE stored[i] = wanted[i]
  <2>1. CASE i <= k
    <3>1. i \in 1..k /\ i \in 1..(k + n + 1)
      BY <2>1, <1>1
    <3> QED BY <2>1, <3>1, <1>8, <1>9, <1>12
  <2>2. CASE i \in k+1..k+n
    <3>1. ~(i <= k) /\ i \in 1..(k + n + 1) /\ i - k \in 1..n
      BY <2>2, <1>1
    <3>2. wanted[i] = Line(r)[i - k]
      BY <3>1, <1>8, <1>9
    <3> QED BY <2>2, <3>1, <3>2, <1>7, <1>12
  <2>3. CASE i = k + n + 1
    <3>1. ~(i <= k) /\ i \in 1..(k + n + 1) /\ i - k = n + 1
      BY <2>3, <1>1
    <3>2. wanted[i] = Line(r)[n + 1]
      BY <3>1, <1>8, <1>9
    <3> QED BY <2>3, <3>2, <1>7, <1>12
  <2>4. CASE i = k + n + 2
    BY <2>4, <1>9, <1>12
  <2>5. i <= k \/ i \in k+1..k+n \/ i = k + n + 1 \/ i = k + n + 2
    BY <1>1
  <2> QED BY <2>1, <2>2, <2>3, <2>4, <2>5
<1>14. stored = wanted
  BY <1>9, <1>12, <1>13, SeqEqual
<1> QED BY <1>14, <1>8 DEF stored, copied, grown, wanted, line, tail, b, m, k, n

-------------------------------------------------------------------------------
\* No record is in the table twice.
RecordsInv ==
  /\ records \in Seq(Rec)
  /\ \A i, j \in 1..Len(records) : records[i] = records[j] => i = j

\* While the flush runs, todo is what is left of the records, nothing of it has
\* been given up, and the memory holds the lines of the others and a terminator.
TodoInv ==
  /\ todo \in Seq(Rec) /\ Len(todo) <= Len(records)
  /\ \A i \in 1..Len(todo) : todo[i] = records[Len(records) - Len(todo) + i] /\ todo[i] \notin skipped
BufferInv ==
  /\ mem = Append(Written, End)
  /\ curr_len = Len(Written) /\ cap = curr_len + 1
Busy == {"next", "print", "write"}

FlushInv ==
  /\ at \in Busy \cup {"idle", "crash"}
  /\ RecordsInv
  /\ at \in Busy => TodoInv /\ BufferInv
  /\ at \in {"print", "write"} => todo # <<>>
  /\ at = "idle" => live = 0 /\ cap = 0 /\ mem = <<>>
  /\ at = "next" => live = 0
  /\ at = "print" => live = 1
  /\ at = "write" => live = 2

\* The record the flush is at
LEMMA NextRecord ==
  ASSUME RecordsInv, TodoInv, todo # <<>>
  PROVE  LET d == Len(records) - Len(todo)
         IN  /\ d \in Nat /\ d+1 \in 1..Len(records)
             /\ Head(todo) = records[d+1] /\ Head(todo) \in Rec /\ Head(todo) \notin skipped
             /\ \A i \in 1..d : records[i] # Head(todo)
             /\ Tail(todo) \in Seq(Rec) /\ Len(records) - Len(Tail(todo)) = d+1
             /\ Len(Tail(todo)) <= Len(records)
             /\ \A i \in 1..Len(Tail(todo)) :
                  /\ Tail(todo)[i] = records[d+1 + i]
                  /\ Tail(todo)[i] \notin skipped \cup {Head(todo)}
<1> DEFINE d == Len(records) - Len(todo)
           rest == Tail(todo)
<1>1. Len(records) \in Nat /\ Len(todo) \in Nat /\ Len(todo) # 0 /\ Len(todo) <= Len(records)
  BY LenProperties, EmptySeq DEF RecordsInv, TodoInv
<1>2. /\ rest \in Seq(Rec) /\ Len(rest) = Len(todo) - 1
      /\ \A i \in 1..Len(rest) : rest[i] = todo[i+1]
  BY HeadTailProperties DEF TodoInv
<1>3. Head(todo) = todo[1]
  BY <1>1 DEF TodoInv
<1>4. d \in Nat /\ d+1 \in 1..Len(records) /\ 1 \in 1..Len(todo)
  BY <1>1
<1>5. Head(todo) = records[d+1] /\ Head(todo) \notin skipped
  BY <1>3, <1>4 DEF TodoInv
<1>6. Head(todo) \in Rec
  BY <1>4, <1>5, ElementOfSeq DEF RecordsInv
<1> HIDE DEF rest
<1>7. ASSUME NEW i \in 1..Len(rest)
      PROVE  rest[i] = records[d+1 + i] /\ rest[i] \notin skipped \cup {Head(todo)}
  <2>1. i+1 \in 1..Len(todo) /\ d + (i+1) = d+1 + i
    BY <1>1, <1>2, <1>4
  <2>2. rest[i] = records[d + (i+1)] /\ rest[i] \notin skipped
    BY <1>2, <2>1 DEF TodoInv
  <2>3. d+1 + i \in 1..Len(records) /\ d+1 + i # d+1
    BY <1>1, <1>2, <1>4
  <2>4. records[d+1 + i] # records[d+1]
    BY <1>4, <2>3 DEF RecordsInv
  <2> QED BY <1>5, <2>1, <2>2, <2>4
<1>8. ASSUME NEW i \in 1..d PROVE records[i] # Head(todo)
  <2>1. i \in 1..Len(records) /\ i # d+1
    BY <1>1, <1>4
  <2> QED BY <1>4, <1>5, <2>1 DEF RecordsInv
<1>9. Len(records) - Len(rest) = d+1 /\ Len(rest) <= Len(records)
  BY <1>1, <1>2
<1> QED BY <1>2, <1>4, <1>5, <1>6, <1>7, <1>8, <1>9 DEF rest

LEMMA InsertKeeps ==
  ASSUME FlushInv, NEW r \in Rec, Insert(r)
  PROVE  FlushInv'
<1>1. PICK i \in 1 .. Len(records)+1 : records' = InsertAt(records, i, r)
  BY DEF Insert
<1>2. records \in Seq(Rec) /\ \A j, k \in 1..Len(records) : records[j] = records[k] => j = k
  BY DEF FlushInv, RecordsInv
<1>3. Len(records) \in Nat /\ DOMAIN records = 1..Len(records)
  BY <1>2, LenProperties
<1>4. \A j \in 1..Len(records) : records[j] # r
  BY <1>3 DEF Insert, ToSet
<1>5. /\ records' \in Seq(Rec) /\ Len(records') = Len(records) + 1
      /\ \A j \in 1..(Len(records) + 1) :
           records'[j] = IF j < i THEN records[j] ELSE IF j = i THEN r ELSE records[j-1]
  <2>1. records \in Seq(Rec)
    BY <1>2
  <2>2. /\ InsertAt(records, i, r) \in Seq(Rec)
        /\ Len(InsertAt(records, i, r)) = Len(records) + 1
        /\ \A j \in 1..(Len(records) + 1) :
             InsertAt(records, i, r)[j] = IF j < i THEN records[j] ELSE IF j = i THEN r ELSE records[j-1]
    <3>1. ASSUME NEW s \in Seq(Rec), NEW k \in 1..Len(s)+1
          PROVE  /\ InsertAt(s, k, r) \in Seq(Rec) /\ Len(InsertAt(s, k, r)) = Len(s) + 1
                 /\ \A j \in 1..(Len(s) + 1) :
                      InsertAt(s, k, r)[j] = IF j < k THEN s[j] ELSE IF j = k THEN r ELSE s[j-1]
      BY <3>1, InsertAtProperties
    <3> QED BY <2>1, <3>1
  <2> QED BY <1>1, <2>2
<1>6. ASSUME NEW j \in 1..Len(records'), NEW k \in 1..Len(records'), records'[j] = records'[k]
      PROVE  j = k
  <2> DEFINE from(n) == IF n < i THEN n ELSE n-1
  <2>1. \A n \in 1..Len(records') : n # i => from(n) \in 1..Len(records) /\ records'[n] = records[from(n)]
    BY <1>3, <1>5
  <2>2. records'[i] = r
    BY <1>3, <1>5
  <2>3. CASE j = i \/ k = i
    <3> HIDE DEF from
    <3> QED BY <1>4, <1>6, <2>1, <2>2, <2>3
  <2>4. CASE j # i /\ k # i
    <3>1. from(j) = from(k)
      <4> HIDE DEF from
      <4> QED BY <1>2, <1>6, <2>1, <2>4
    <3> QED BY <3>1, <2>4, <1>3, <1>5
  <2> QED BY <2>3, <2>4
<1>7. RecordsInv'
  BY <1>5, <1>6 DEF RecordsInv
<1>8. at = "idle" /\ UNCHANGED <<at, todo, mem, cap, curr_len, live, skipped, appended>>
  BY DEF Insert
<1> QED BY <1>7, <1>8 DEF FlushInv, Busy

LEMMA ClearKeeps ==
  ASSUME FlushInv, at \notin Busy, Clear
  PROVE  FlushInv'
<1>1. records' = <<>> /\ UNCHANGED <<at, todo, mem, cap, curr_len, live, skipped, appended>>
  BY DEF Clear
<1>2. RecordsInv'
  <2>1. <<>> \in Seq(Rec) /\ Len(<<>>) = 0
    BY EmptySeq
  <2> QED BY <1>1, <2>1 DEF RecordsInv
<1> QED BY <1>1, <1>2 DEF FlushInv, Busy

LEMMA BeginKeeps ==
  ASSUME FlushInv, json_buff
  PROVE  FlushInv'
<1>1. /\ at = "idle" /\ records' = records /\ live' = live
      /\ todo' = records /\ curr_len' = 0 /\ skipped' = {}
  BY DEF json_buff
<1>2. RecordsInv' /\ live' = 0
  BY <1>1 DEF FlushInv, RecordsInv
<1>3. CASE at' = "crash"
  BY <1>2, <1>3 DEF FlushInv, Busy
<1>4. CASE at' = "next" /\ mem' = <<End>> /\ cap' = 1
  <2>1. records \in Seq(Rec) /\ Len(records) \in Nat
    BY LenProperties DEF FlushInv, RecordsInv
  <2>2. TodoInv'
    BY <1>1, <2>1 DEF TodoInv
  <2>3. Written' = <<>>
    <3>1. Len(records') - Len(todo') = 0
      BY <1>1, <2>1
    <3>2. Lines(records', skipped')[0] = <<>>
      BY <1>1, <2>1, LinesRecursion
    <3> QED BY <3>1, <3>2 DEF Written
  <2>4. BufferInv'
    BY <1>1, <1>4, <2>3, EmptySeq DEF BufferInv
  <2> QED BY <1>2, <1>4, <2>2, <2>4 DEF FlushInv, Busy
<1> QED BY <1>3, <1>4 DEF json_buff

\* The record is given up.
LEMMA GivenUp ==
  ASSUME RecordsInv, TodoInv, BufferInv, todo # <<>>, Give_up,
         UNCHANGED <<records, mem, cap, curr_len>>
  PROVE  RecordsInv' /\ TodoInv' /\ BufferInv'
<1> DEFINE d == Len(records) - Len(todo)
           x == Head(todo)
           more == skipped \cup {x}
<1>1. todo' = Tail(todo) /\ skipped' = more /\ records' = records
  BY DEF Give_up
<1>2. /\ d \in Nat /\ d+1 \in 1..Len(records)
      /\ x = records[d+1] /\ x \in Rec /\ x \notin skipped
      /\ \A i \in 1..d : records[i] # x
      /\ Tail(todo) \in Seq(Rec) /\ Len(records) - Len(Tail(todo)) = d+1
      /\ Len(Tail(todo)) <= Len(records)
      /\ \A i \in 1..Len(Tail(todo)) :
           Tail(todo)[i] = records[d+1 + i] /\ Tail(todo)[i] \notin more
  BY NextRecord
<1> HIDE DEF d, x
<1>3. RecordsInv'
  BY <1>1 DEF RecordsInv
<1>4. TodoInv'
  BY <1>1, <1>2 DEF TodoInv
<1>5. records \in Seq(Rec) /\ d \in 0..Len(records) /\ (d+1)-1 = d
  BY <1>2, LenProperties DEF RecordsInv
<1>6. Lines(records, more)[d+1] = Lines(records, more)[d]
  <2>1. records[d+1] \in more /\ d+1 \in 1..Len(records)
    BY <1>2
  <2> HIDE DEF more
  <2>2. \A k \in 1..Len(records) :
          records[k] \in more => Lines(records, more)[k] = Lines(records, more)[k-1]
    BY <1>5, LinesRecursion
  <2> QED BY <1>5, <2>1, <2>2
<1>7. Lines(records, more)[d] = Lines(records, skipped)[d]
  <2>1. \A i \in 1..d : records[i] \in more <=> records[i] \in skipped
    BY <1>2
  <2> HIDE DEF more
  <2>2. PICK S : S = more
    OBVIOUS
  <2>3. PICK T : T = skipped
    OBVIOUS
  <2>4. PICK s \in Seq(Rec) : s = records
    BY <1>5
  <2>5. PICK k \in 0..Len(s) : k = d
    BY <1>5, <2>4
  <2>6. \A i \in 1..k : s[i] \in S <=> s[i] \in T
    BY <2>1, <2>2, <2>3, <2>4, <2>5
  <2>7. Lines(s, S)[k] = Lines(s, T)[k]
    BY <2>6, LinesAgree
  <2> QED BY <2>2, <2>3, <2>4, <2>5, <2>7
<1>8. Written' = Written
  BY <1>1, <1>2, <1>6, <1>7 DEF Written, d
<1> QED BY <1>3, <1>4, <1>8 DEF BufferInv

\* The record's line is stored.
LEMMA LineStored ==
  ASSUME RecordsInv, TodoInv, BufferInv, todo # <<>>,
         LET b == Text(Head(todo)) IN
           /\ cap' = curr_len + Len(b) + 2
           /\ LET copied == Store(Resize(mem, cap'), curr_len, Append(b, End))
              IN  mem' = Store(copied, curr_len + Len(b), <<NewLine, End>>)
           /\ curr_len' = curr_len + Len(b) + 1,
         todo' = Tail(todo), UNCHANGED <<records, skipped>>
  PROVE  RecordsInv' /\ TodoInv' /\ BufferInv'
<1> DEFINE d == Len(records) - Len(todo)
           x == Head(todo)
<1>1. todo' = Tail(todo) /\ skipped' = skipped /\ records' = records
  OBVIOUS
<1>2. /\ d \in Nat /\ d+1 \in 1..Len(records)
      /\ x = records[d+1] /\ x \in Rec /\ x \notin skipped
      /\ Tail(todo) \in Seq(Rec) /\ Len(records) - Len(Tail(todo)) = d+1
      /\ Len(Tail(todo)) <= Len(records)
      /\ \A i \in 1..Len(Tail(todo)) :
           Tail(todo)[i] = records[d+1 + i] /\ Tail(todo)[i] \notin skipped
  BY NextRecord
<1>3. /\ cap' = curr_len + Len(Text(x)) + 2
      /\ mem' = Store(Store(Resize(mem, cap'), curr_len, Append(Text(x), End)),
                      curr_len + Len(Text(x)), <<NewLine, End>>)
      /\ curr_len' = curr_len + Len(Text(x)) + 1
  OBVIOUS
<1>4. mem = Append(Written, End) /\ curr_len = Len(Written)
  BY DEF BufferInv
<1> HIDE DEF d, x
<1>5. RecordsInv'
  BY <1>1 DEF RecordsInv
<1>6. TodoInv'
  BY <1>1, <1>2 DEF TodoInv
<1>7. records \in Seq(Rec) /\ d \in 0..Len(records) /\ (d+1)-1 = d
  BY <1>2, LenProperties DEF RecordsInv
<1>8. Written = Lines(records, skipped)[d] /\ Written \in Seq(Char)
  BY <1>7, LinesType DEF Written, d
<1>9. Written' = Written \o Line(x)
  <2>1. Lines(records, skipped)[d+1] = Lines(records, skipped)[d] \o Line(x)
    <3> DEFINE f == Lines(records, skipped)
    <3>0. \A k \in 1..Len(records) :
            f[k] = IF records[k] \in skipped THEN f[k-1] ELSE f[k-1] \o Line(records[k])
      BY <1>7, LinesRecursion
    <3> HIDE DEF f
    <3>1. f[d+1] = IF records[d+1] \in skipped THEN f[(d+1)-1] ELSE f[(d+1)-1] \o Line(records[d+1])
      <4>1. d+1 \in 1..Len(records)
        BY <1>2
      <4> QED BY <3>0, <4>1
    <3> USE DEF f
    <3> QED BY <3>1, <1>2, <1>7
  <2>2. Written' = Lines(records, skipped)[d+1]
    BY <1>1, <1>2 DEF Written
  <2> QED BY <2>1, <2>2, <1>8
<1>10. /\ Store(Store(Resize(Append(Written, End), Len(Written) + Len(Text(x)) + 2),
                       Len(Written), Append(Text(x), End)),
                 Len(Written) + Len(Text(x)), <<NewLine, End>>)
            = Append(Written \o Line(x), End)
       /\ Len(Written \o Line(x)) = Len(Written) + Len(Text(x)) + 1
  BY <1>2, <1>8, Stored
<1>11. mem' = Append(Written', End) /\ curr_len' = Len(Written')
  BY <1>3, <1>4, <1>9, <1>10
<1>12. cap' = curr_len' + 1
  <2>1. curr_len \in Nat /\ Len(Text(x)) \in Nat
    BY <1>2, <1>4, <1>8, TextType, LenProperties
  <2> QED BY <1>3, <2>1
<1> QED BY <1>5, <1>6, <1>11, <1>12 DEF BufferInv

LEMMA SerialisingKeeps ==
  ASSUME FlushInv, CreateObject \/ PrintUnformatted \/ logg_mem_writ
  PROVE  FlushInv' /\ appended' = appended
<1>1. at \in Busy /\ RecordsInv /\ TodoInv /\ BufferInv /\ todo # <<>>
  BY DEF FlushInv, CreateObject, PrintUnformatted, logg_mem_writ, Busy
<1>2. CASE UNCHANGED <<records, todo, skipped, mem, cap, curr_len, appended>>
  <2>1. RecordsInv' /\ TodoInv' /\ BufferInv' /\ todo' # <<>>
    BY <1>1, <1>2 DEF RecordsInv, TodoInv, BufferInv, Written
  <2>2. (at = "next" /\ at' = "print" /\ live' = live + 1)
        \/ (at = "print" /\ at' = "write" /\ live' = live + 1)
    <3>1. todo' = todo
      BY <1>2
    <3>2. ~Give_up
      <4>1. Len(Tail(todo)) = Len(todo) - 1 /\ Len(todo) \in Nat
        BY <1>1, HeadTailProperties, LenProperties DEF TodoInv
      <4> QED BY <3>1, <4>1 DEF Give_up
    <3>3. CASE logg_mem_writ
      <4>1. todo' = Tail(todo)
        BY <3>2, <3>3 DEF logg_mem_writ
      <4>2. Len(Tail(todo)) = Len(todo) - 1 /\ Len(todo) \in Nat
        BY <1>1, HeadTailProperties, LenProperties DEF TodoInv
      <4> QED BY <3>1, <4>1, <4>2
    <3>4. CASE CreateObject
      BY <3>2, <3>4 DEF CreateObject
    <3>5. CASE PrintUnformatted
      BY <3>2, <3>5 DEF PrintUnformatted
    <3> QED BY <3>3, <3>4, <3>5
  <2>3. live' = IF at' = "print" THEN 1 ELSE 2
    BY <2>2 DEF FlushInv
  <2> QED BY <1>2, <2>1, <2>2, <2>3 DEF FlushInv, Busy
<1>3. CASE Give_up /\ UNCHANGED <<records, mem, cap, curr_len, appended>> /\ live' = 0
  <2>1. RecordsInv' /\ TodoInv' /\ BufferInv'
    BY <1>1, <1>3, GivenUp
  <2>2. at' = "next"
    BY <1>3 DEF Give_up
  <2> QED BY <1>3, <2>1, <2>2 DEF FlushInv, Busy
<1>4. CASE /\ LET b == Text(Head(todo)) IN
                /\ cap' = curr_len + Len(b) + 2
                /\ LET copied == Store(Resize(mem, cap'), curr_len, Append(b, End))
                   IN  mem' = Store(copied, curr_len + Len(b), <<NewLine, End>>)
                /\ curr_len' = curr_len + Len(b) + 1
           /\ at' = "next" /\ todo' = Tail(todo) /\ live' = 0
           /\ UNCHANGED <<records, skipped, appended>>
  <2>1. RecordsInv' /\ TodoInv' /\ BufferInv'
    BY <1>1, <1>4, LineStored
  <2> QED BY <1>4, <2>1 DEF FlushInv, Busy
<1>5. CASE CreateObject
  BY <1>2, <1>3, <1>5 DEF CreateObject, FlushInv
<1>6. CASE PrintUnformatted
  BY <1>2, <1>3, <1>6 DEF PrintUnformatted, FlushInv
<1>7. CASE logg_mem_writ
  BY <1>3, <1>4, <1>7 DEF logg_mem_writ, FlushInv
<1> QED BY <1>5, <1>6, <1>7

\* What is appended is what the buffer holds when every record was reached.
LEMMA AppendKeeps ==
  ASSUME FlushInv, AppendFile
  PROVE  FlushInv' /\ appended' \in {Lines(records, skipped)[Len(records)], <<>>}
<1>1. at = "next" /\ todo = <<>> /\ at' = "idle" /\ appended' \in {CString(mem), <<>>}
      /\ mem' = <<>> /\ cap' = 0 /\ records' = records /\ live' = live
  BY DEF AppendFile
<1>2. FlushInv'
  BY <1>1 DEF FlushInv, RecordsInv, Busy
<1>3. records \in Seq(Rec) /\ Len(records) \in Nat /\ mem = Append(Written, End)
  BY <1>1, LenProperties DEF FlushInv, RecordsInv, BufferInv, Busy
<1>4. Len(records) - Len(todo) = Len(records) /\ Len(records) \in 0..Len(records)
  BY <1>1, <1>3, EmptySeq
<1>5. Written = Lines(records, skipped)[Len(records)]
  BY <1>4 DEF Written
<1>6. Written \in Seq(Char)
  BY <1>3, <1>4, <1>5, LinesType
<1>7. CString(mem) = Written
  BY <1>3, <1>6, Terminated
<1> QED BY <1>1, <1>2, <1>5, <1>7

Whole == appended' \notin {appended, <<>>} => appended' = Lines(records, skipped)[Len(records)]

LEMMA FlushKept ==
  ASSUME ReleaseInv, FlushInv, [Next]_vars
  PROVE  FlushInv' /\ [Whole]_loggerVars
<1>1. CASE UNCHANGED loggerVars
  <2>1. FlushInv'
    BY <1>1 DEF loggerVars, FlushInv, RecordsInv, TodoInv, BufferInv, Written
  <2> QED BY <1>1, <2>1
<1>2. CASE proc_inse
  <2>1. PICK r \in Rec : Insert(r)
    BY <1>2 DEF proc_inse
  <2>2. appended' = appended
    BY <2>1 DEF Insert
  <2> QED BY <2>1, <2>2, InsertKeeps DEF Whole
<1>3. CASE FlushBegins
  <2>1. json_buff
    BY <1>3 DEF FlushBegins
  <2>2. appended' = <<>>
    BY <2>1 DEF json_buff
  <2> QED BY <2>1, <2>2, BeginKeeps DEF Whole
<1>4. CASE FlushGoesOn
  BY <1>4, SerialisingKeeps DEF FlushGoesOn, Whole
<1>5. CASE FlushEnds
  BY <1>5, AppendKeeps DEF FlushEnds, Whole
<1>6. CASE Destroy
  <2>1. pc = "proc_tabl_dest" /\ Clear
    BY <1>6 DEF Destroy, proc_tabl_dest
  <2>2. at \notin Busy
    BY <2>1 DEF ReleaseInv, Turns, Busy
  <2>3. appended' = appended
    BY <2>1 DEF Clear
  <2> QED BY <2>1, <2>2, <2>3, ClearKeeps DEF Whole
<1>7. CASE Alone \/ Look \/ inse_fail \/ Received \/ Signal \/ UNCHANGED vars
  BY <1>1, <1>7 DEF Alone, Look, inse_fail, Received, Signal, vars
<1> QED BY <1>2, <1>3, <1>4, <1>5, <1>6, <1>7 DEF Next, Step

LEMMA FlushStarts == Init => FlushInv
<1> SUFFICES ASSUME Init PROVE FlushInv
  OBVIOUS
<1>1. records = <<>> /\ at = "idle" /\ mem = <<>> /\ cap = 0 /\ live = 0
  BY DEF Init, LoggerInit
<1>2. RecordsInv
  BY <1>1, EmptySeq DEF RecordsInv
<1> QED BY <1>1, <1>2 DEF FlushInv, Busy

LEMMA FlushInvariance == Spec => [](ReleaseInv /\ FlushInv)
  BY ReleaseStarts, ReleaseKept, FlushStarts, FlushKept, PTL DEF Spec

(* Whatever allocation fails, the buffer holds the lines of the records that *)
(* were reached and not given up, its terminator stands behind them, and no  *)
(* JSON tree, text or buffer is left over (ser_logg.c:121-167).              *)
THEOREM BufferStaysInStep == Spec => []BufferInStep
<1>1. FlushInv => BufferInStep
  <2> SUFFICES ASSUME FlushInv PROVE BufferInStep
    OBVIOUS
  <2>1. ASSUME at \in Busy
        PROVE  /\ Len(mem) = cap /\ cap = curr_len + 1
               /\ CString(mem) = Written /\ Len(Written) = curr_len
    <3>1. RecordsInv /\ TodoInv /\ BufferInv
      BY <2>1 DEF FlushInv
    <3>2. records \in Seq(Rec) /\ Len(records) \in Nat /\ Len(todo) \in Nat
          /\ Len(todo) <= Len(records)
      BY <3>1, LenProperties DEF RecordsInv, TodoInv
    <3>3. Len(records) - Len(todo) \in 0..Len(records)
      BY <3>2
    <3>4. Written \in Seq(Char)
      BY <3>2, <3>3, LinesType DEF Written
    <3>5. CString(mem) = Written
      BY <3>1, <3>4, Terminated DEF BufferInv
    <3>6. Len(mem) = Len(Written) + 1
      BY <3>1, <3>4, AppendLength DEF BufferInv
    <3> QED BY <3>1, <3>5, <3>6 DEF BufferInv
  <2> QED BY <2>1 DEF FlushInv, BufferInStep, Busy
<1> QED BY <1>1, FlushInvariance, PTL

(* A flush appends the lines of the whole table but for the records it gave  *)
(* up, in one piece, or nothing (ser_logg.c:104-139).                        *)
THEOREM FlushIsWhole == Spec => FlushWhole
<1>1. ReleaseInv /\ FlushInv /\ [Next]_vars => [Whole]_loggerVars
  BY FlushKept
<1>2. FlushWhole <=> [][Whole]_loggerVars
  BY DEF FlushWhole, Whole
<1> QED BY <1>1, <1>2, FlushInvariance, PTL DEF Spec
===============================================================================

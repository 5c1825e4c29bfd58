-------------------------------- MODULE Program --------------------------------
(***************************************************************************)
(* The program from its start to its end: the main loop calls the handlers *)
(* and the logger. Of what the handlers do to the tree and the table Serie *)
(* tells; here they load, insert and refresh one record whose descriptor   *)
(* paths are followed, insert others, and the logger flushes them all.     *)
(***************************************************************************)
EXTENDS Main, Logger, PrfsFd

CONSTANT First   \* the record whose descriptors are followed

ASSUME FirstIsRecord == First \in Rec

vars == <<mainVars, loggerVars, fdVars>>

Init == MainInit /\ LoggerInit /\ FdInit

\* The program has not dereferenced or freed what it must not.
Up == at # "crash" /\ ~bad

Inserted == First \in ToSet(records)

\* proc_load answered a record: its caller inserts or destroys it.
Loaded == look = "idle" /\ looks > 0 /\ ~Inserted

-------------------------------------------------------------------------------
(* The calls of the main loop that change no record *)

SetUp == sock_crea \/ sigaction \/ timer_setup \/ proc_tabl_init \/ sock_regi
Turn == while \/ if \/ reset
ShutDown == timer_delete \/ sock_unre \/ close

Alone == (SetUp \/ Turn \/ ShutDown) /\ UNCHANGED <<loggerVars, fdVars>>

-------------------------------------------------------------------------------
(* sock_reci: what the handlers of the events do *)

\* proc_load or a refresh reads /proc for the record.
Look ==
  /\ pc = "sock_reci" /\ ~Loaded
  /\ prfs_status \/ prfs_fd
  /\ UNCHANGED <<mainVars, loggerVars>>

proc_inse ==
  /\ pc = "sock_reci" /\ look # "fd"
  /\ \E r \in Rec : (r = First <=> Loaded) /\ Insert(r)
  /\ UNCHANGED <<mainVars, fdVars>>

\* proc_inse has no memory for the node.
inse_fail ==
  /\ pc = "sock_reci" /\ Loaded
  /\ proc_dest
  /\ UNCHANGED <<mainVars, loggerVars>>

Received ==
  /\ look # "fd" /\ ~Loaded
  /\ sock_reci
  /\ UNCHANGED <<loggerVars, fdVars>>

-------------------------------------------------------------------------------
(* The flush, and the end *)

FlushBegins == logg_proc_parse /\ json_buff /\ UNCHANGED fdVars

FlushGoesOn ==
  /\ pc = "fopen"
  /\ CreateObject \/ PrintUnformatted \/ logg_mem_writ
  /\ UNCHANGED <<mainVars, fdVars>>

FlushEnds == fopen /\ AppendFile /\ UNCHANGED fdVars

Destroy ==
  /\ proc_tabl_dest /\ Clear
  /\ IF Inserted THEN proc_dest ELSE UNCHANGED fdVars

Step ==
  Up /\ (Alone \/ Look \/ proc_inse \/ inse_fail \/ Received
         \/ FlushBegins \/ FlushGoesOn \/ FlushEnds \/ Destroy)

Signal == Up /\ (SigInt \/ SigUsr1) /\ UNCHANGED <<loggerVars, fdVars>>

Next == Step \/ Signal

\* The socket is non-blocking: the program never waits for anything. Of the
\* handlers nothing is assumed: the loop of even_exit may never end.
Spec == Init /\ [][Next]_vars /\ WF_vars(pc # "sock_reci" /\ Step)

-------------------------------------------------------------------------------
(* Whenever a signal comes, what the loop and the flush use is there, and    *)
(* sock_unre still has its socket. On every way out, but for a SIGINT before  *)
(* the handler is installed, the socket and the table are released, with them *)
(* the record and its paths if it was never refreshed; the timer is, once the *)
(* loop has run (main.c:213-251).                                            *)
HeldThenReleased ==
  /\ pc \in {"sock_regi", "sock_reci", "sock_unre"} => sock = "held"
  /\ pc \in {"sock_reci", "logg_proc_parse", "fopen"} => table = "held"
  /\ pc = "exit" /\ handlers =>
       /\ sock = "freed" /\ table # "held" /\ ~listening
       /\ table = "freed" => timer = "freed"
       /\ looks <= 1 => ~given /\ leaked = 0

\* Every handler that is called returns (the run `leader` has one that does not).
HandlersReturn == []<>(pc # "sock_reci")

(* As long as handlers return, SIGINT ends the program whatever the timer    *)
(* does, the handlers read or the logger writes (main.c:231-247). A handler   *)
(* that does not return is never interrupted.                                *)
Stops == HandlersReturn => (~running ~> pc = "exit" \/ ~Up)

(* As long as handlers return and the timer ticks, and so the flag is set,   *)
(* again and again, the table is flushed again and again, or the program     *)
(* ends (main.c:237-241).                                                    *)
FlushesGoOn ==
  HandlersReturn /\ []<>logg_run => []<>(at = "next") \/ <>(pc = "exit" \/ ~Up)

(* A record that is read once is released exactly, whichever read of /proc   *)
(* or allocation fails. What the logger prints of it is there: after a look   *)
(* that succeeded, fd_paths holds fd_coun strings while the flush reads them  *)
(* (ser_logg.c:46-52), also when the look before it failed half way.         *)
PathsExact ==
  /\ FirstLookExact
  /\ at = "print" /\ Head(todo) = First /\ good /\ given => 0 .. fd_coun-1 \subseteq Paths
===============================================================================

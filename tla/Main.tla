--------------------------------- MODULE Main ---------------------------------
(***************************************************************************)
(* tests/main.c and the socket's set-up in c_core/ser_proc_conn.c: what    *)
(* the program acquires, the loop, the two signals and the way out. What   *)
(* sock_reci, logg_proc_parse and proc_tabl_dest do to the records is      *)
(* added in Program. The step of sock_reci is its return; nothing says that *)
(* it is ever taken (even_exit may loop for ever, ser_proc_conn.c:247-260). *)
(***************************************************************************)
EXTENDS Naturals

VARIABLES pc,        \* the next call of test_proc_conn
          handlers,  \* sigaction was called
          running, logg_run,
          sock, timer, table,  \* "none", "held" or "freed"
          listening  \* the kernel sends events to the socket

mainVars == <<pc, handlers, running, logg_run, sock, timer, table, listening>>
signals == <<handlers, running, logg_run>>
held == <<sock, timer, table, listening>>

MainInit ==
  /\ pc = "sock_crea" /\ handlers = FALSE /\ running = TRUE /\ logg_run = FALSE
  /\ sock = "none" /\ timer = "none" /\ table = "none" /\ listening = FALSE

-------------------------------------------------------------------------------
(* The signals: sigint_hand runs between any two steps of the program. *)

\* Before timer_setup has installed the handler SIGINT ends the program.
SigInt ==
  /\ pc # "exit"
  /\ IF handlers THEN running' = FALSE /\ UNCHANGED pc
                 ELSE pc' = "exit" /\ UNCHANGED running
  /\ UNCHANGED <<handlers, logg_run, held>>

\* The timer expires.
SigUsr1 ==
  /\ timer = "held" /\ pc # "exit"
  /\ logg_run' = TRUE
  /\ UNCHANGED <<pc, handlers, running, held>>

-------------------------------------------------------------------------------
\* A socket that cannot be bound is closed at once.
sock_crea ==
  /\ pc = "sock_crea"
  /\ \/ sock' = "held" /\ pc' = "sigaction"
     \/ sock' = "freed" /\ pc' = "exit"
  /\ UNCHANGED <<timer, table, listening, signals>>

\* timer_setup, first half
sigaction ==
  /\ pc = "sigaction"
  /\ handlers' = TRUE /\ pc' = "timer_setup"
  /\ UNCHANGED <<running, logg_run, held>>

\* A bug: the socket stays open when the timer could not be made.
timer_setup_open ==
  /\ pc = "timer_setup"
  /\ \/ timer' = "held" /\ pc' = "calloc"
     \/ timer' \in {"none", "freed"} /\ pc' = "exit"
  /\ UNCHANGED <<sock, table, listening, signals>>

\* timer_create, or timer_settime after it, fails: the caller closes the socket.
timer_setup ==
  /\ pc = "timer_setup"
  /\ \/ timer' = "held" /\ pc' = "calloc" /\ UNCHANGED sock
     \/ timer' \in {"none", "freed"} /\ sock' = "freed" /\ pc' = "exit"
  /\ UNCHANGED <<table, listening, signals>>

\* The table and its buckets. Without them the socket is closed and the timer
\* is left to the kernel.
proc_tabl_init ==
  /\ pc = "calloc"
  /\ \/ table' = "held" /\ pc' = "sock_regi" /\ UNCHANGED sock
     \/ sock' = "freed" /\ pc' = "exit" /\ UNCHANGED table
  /\ UNCHANGED <<timer, listening, signals>>

\* sock_send: PROC_CN_MCAST_LISTEN. An error is printed, nothing else.
sock_regi ==
  /\ pc = "sock_regi" /\ pc' = "while"
  /\ listening' \in BOOLEAN
  /\ UNCHANGED <<sock, timer, table, signals>>

while ==
  /\ pc = "while"
  /\ pc' = IF running THEN "sock_reci" ELSE "timer_delete"
  /\ UNCHANGED <<held, signals>>

\* The handler of the event has returned.
sock_reci == pc = "sock_reci" /\ pc' = "if" /\ UNCHANGED <<held, signals>>

\* A bug: a flush is made only while the loop is to end.
if_ending ==
  /\ pc = "if"
  /\ pc' = IF logg_run /\ ~running THEN "logg_proc_parse" ELSE "while"
  /\ UNCHANGED <<held, signals>>

if ==
  /\ pc = "if"
  /\ pc' = IF logg_run THEN "logg_proc_parse" ELSE "while"
  /\ UNCHANGED <<held, signals>>

\* A flush begins.
logg_proc_parse ==
  pc = "logg_proc_parse" /\ pc' = "fopen" /\ UNCHANGED <<held, signals>>

\* The file is written, or does not open: the flush ends all the same.
fopen == pc = "fopen" /\ pc' = "reset" /\ UNCHANGED <<held, signals>>

\* A bug: the loop's own flag is set again.
reset_running ==
  /\ pc = "reset" /\ pc' = "while"
  /\ running' = TRUE /\ logg_run' = FALSE
  /\ UNCHANGED <<handlers, held>>

reset ==
  /\ pc = "reset" /\ pc' = "while"
  /\ logg_run' = FALSE
  /\ UNCHANGED <<handlers, running, held>>

timer_delete ==
  /\ pc = "timer_delete" /\ pc' = "sock_unre"
  /\ timer' = "freed"
  /\ UNCHANGED <<sock, table, listening, signals>>

\* sock_send: PROC_CN_MCAST_IGNORE
sock_unre ==
  /\ pc = "sock_unre" /\ pc' = "close"
  /\ listening' \in {listening, FALSE}
  /\ UNCHANGED <<sock, timer, table, signals>>

close ==
  /\ pc = "close" /\ pc' = "proc_tabl_dest"
  /\ sock' = "freed" /\ listening' = FALSE
  /\ UNCHANGED <<timer, table, signals>>

proc_tabl_dest ==
  /\ pc = "proc_tabl_dest" /\ pc' = "exit"
  /\ table' = "freed"
  /\ UNCHANGED <<sock, timer, listening, signals>>

===============================================================================

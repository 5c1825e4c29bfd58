------------------------------- MODULE TimeReso -------------------------------
(***************************************************************************)
(* logg_time_reso (c_core/ser_logg.c): the wall-clock time of an event is  *)
(* its time on the monotonic clock plus what the wall clock is ahead. The  *)
(* two clocks are read one after the other, and struct timespec keeps      *)
(* seconds and nanoseconds apart.                                          *)
(***************************************************************************)
EXTENDS Integers

CONSTANTS NS,     \* nanoseconds of a second, 10^9 in the code
          MaxTime \* bound of the times that are tried

ASSUME ClockConstants == NS \in Nat \ {0} /\ MaxTime \in Nat

Timespec == [tv_sec : Int, tv_nsec : 0 .. NS-1]
Value(t) == t.tv_sec * NS + t.tv_nsec

\* A bug: a full second is not carried.
timespec_add_gt(a, b) ==
  LET sec == b.tv_sec + a.tv_sec
      nsec == b.tv_nsec + a.tv_nsec
  IN  IF nsec > NS THEN [tv_sec |-> sec + 1, tv_nsec |-> nsec - NS]
      ELSE [tv_sec |-> sec, tv_nsec |-> nsec]

timespec_add(a, b) ==
  LET sec == b.tv_sec + a.tv_sec
      nsec == b.tv_nsec + a.tv_nsec
  IN  IF nsec >= NS THEN [tv_sec |-> sec + 1, tv_nsec |-> nsec - NS]
      ELSE [tv_sec |-> sec, tv_nsec |-> nsec]

timespec_sub(a, b) ==
  LET sec == a.tv_sec - b.tv_sec
      nsec == a.tv_nsec - b.tv_nsec
  IN  IF nsec < 0 THEN [tv_sec |-> sec - 1, tv_nsec |-> nsec + NS]
      ELSE [tv_sec |-> sec, tv_nsec |-> nsec]

\* A clock of the kernel as clock_gettime returns it
Clock(v) == [tv_sec |-> v \div NS, tv_nsec |-> v % NS]

\* The event's time, and what the two clocks answer
logg_time_reso(event, boot_now, real_now) ==
  timespec_add(timespec_sub(real_now, boot_now), event)

-------------------------------------------------------------------------------
(* An event happened at a time of the monotonic clock, which showed boot     *)
(* when it was read; late nanoseconds after that the wall clock, which is    *)
(* ahead by wall, was read. The time that is logged is well formed and is    *)
(* the wall clock's at the event, late by what passed between the two reads  *)
(* and by nothing else, whatever is borrowed and carried (ser_logg.c:5-44).  *)
ResoExact ==
  \A boot, late, wall, event \in 0..MaxTime :
    LET reso == logg_time_reso(Clock(event), Clock(boot), Clock(boot + late + wall))
    IN  reso.tv_nsec \in 0 .. NS-1 /\ Value(reso) = event + wall + late
===============================================================================

-------------------------------- MODULE Logger --------------------------------
(***************************************************************************)
(* The flush of c_core/ser_logg.c: every record of the table becomes one   *)
(* line of JSON in a buffer that grows line by line, and the buffer is     *)
(* appended to the log file. Allocations fail one record at a time.        *)
(***************************************************************************)
EXTENDS TimeReso, Sequences, SequencesExt

CONSTANTS Rec,         \* records
          Size         \* Size[r]: length of the text of record r

ASSUME SizesAreLengths == Size \in [Rec -> Nat \ {0}]

VARIABLES records,  \* the records of the table, in the order of the buckets
          at,       \* "idle", "next", "print", "write", "crash"
          todo,     \* the records the two loops have not reached
          mem, cap, \* json_buff: what its memory holds, and how much it is
          curr_len,
          live,     \* number of cJSON trees and printed texts not yet freed
          skipped,  \* the records of this flush that were given up
          appended  \* what the last flush appended to the file

loggerVars == <<records, at, todo, mem, cap, curr_len, live, skipped, appended>>

Text(r) == [i \in 1 .. Size[r] |-> <<r, i>>]
NewLine == <<"nl", 0>>
End == <<"end", 0>>
Junk == <<"junk", 0>>
Line(r) == Append(Text(r), NewLine)

\* What memory m holds after c is stored at offset k. Storing past the end of
\* the memory makes it longer than its capacity.
Store(m, k, c) ==
  [i \in 1 .. (IF k + Len(c) > Len(m) THEN k + Len(c) ELSE Len(m)) |->
     IF i \in k+1 .. k+Len(c) THEN c[i - k] ELSE m[i]]
Resize(m, n) == [i \in 1..n |-> IF i <= Len(m) THEN m[i] ELSE Junk]
\* The string that starts at the beginning of m
CString(m) ==
  SubSeq(m, 1, (CHOOSE i \in 1..Len(m) : m[i] = End /\ \A j \in 1 .. i-1 : m[j] # End) - 1)

LoggerInit ==
  /\ records = <<>> /\ at = "idle" /\ todo = <<>> /\ mem = <<>> /\ cap = 0 /\ curr_len = 0
  /\ live = 0 /\ skipped = {} /\ appended = <<>>

\* Between two flushes the event handlers insert records, and at the end of the
\* program proc_tabl_dest takes them away.
Insert(r) ==
  /\ at = "idle" /\ r \notin ToSet(records)
  /\ \E i \in 1 .. Len(records)+1 : records' = InsertAt(records, i, r)
  /\ UNCHANGED <<at, todo, mem, cap, curr_len, live, skipped, appended>>

Clear ==
  /\ records' = <<>>
  /\ UNCHANGED <<at, todo, mem, cap, curr_len, live, skipped, appended>>

\* logg_proc_parse: the first byte of the buffer. malloc is not tested.
json_buff ==
  /\ at = "idle"
  /\ \/ at' = "next" /\ mem' = <<End>> /\ cap' = 1
     \/ at' = "crash" /\ UNCHANGED <<mem, cap>>
  /\ todo' = records /\ curr_len' = 0 /\ skipped' = {} /\ appended' = <<>>
  /\ UNCHANGED <<records, live>>

Give_up == at' = "next" /\ todo' = Tail(todo) /\ skipped' = skipped \cup {Head(todo)}

\* cJSON_CreateObject: without memory the record is skipped.
CreateObject ==
  /\ at = "next" /\ todo # <<>>
  /\ \/ at' = "print" /\ live' = live + 1 /\ UNCHANGED <<todo, skipped>>
     \/ Give_up /\ UNCHANGED live
  /\ UNCHANGED <<records, mem, cap, curr_len, appended>>

\* logg_proc_2_json, and logg_mem_writ's text of the object: without memory for
\* it the object is deleted and the record skipped.
PrintUnformatted ==
  /\ at = "print"
  /\ \/ at' = "write" /\ live' = live + 1 /\ UNCHANGED <<todo, skipped>>
     \/ Give_up /\ live' = live - 1
  /\ UNCHANGED <<records, mem, cap, curr_len, appended>>

\* A bug: the length moves on when realloc failed, and the object is not deleted.
logg_mem_writ_early ==
  LET b == Text(Head(todo)) IN
  /\ at = "write"
  /\ curr_len' = curr_len + Len(b) + 1
  /\ \/ /\ cap' = curr_len + Len(b) + 2
        /\ mem' = Store(Resize(mem, cap'), curr_len, b \o <<NewLine, End>>)
        /\ at' = "next" /\ todo' = Tail(todo) /\ UNCHANGED skipped
        /\ live' = live - 2
     \/ Give_up /\ live' = live - 1 /\ UNCHANGED <<mem, cap>>
  /\ UNCHANGED <<records, appended>>

\* The buffer grows by the text, its newline and the terminator that was there.
logg_mem_writ ==
  LET b == Text(Head(todo)) IN
  /\ at = "write"
  /\ live' = live - 2
  /\ \/ /\ cap' = curr_len + Len(b) + 2
        /\ LET copied == Store(Resize(mem, cap'), curr_len, Append(b, End))
           IN  mem' = Store(copied, curr_len + Len(b), <<NewLine, End>>)
        /\ curr_len' = curr_len + Len(b) + 1
        /\ at' = "next" /\ todo' = Tail(todo)
        /\ UNCHANGED skipped
     \/ Give_up /\ UNCHANGED <<mem, cap, curr_len>>
  /\ UNCHANGED <<records, appended>>

\* A bug: the file is written before the last record is.
AppendFile_early ==
  /\ at = "next" /\ Len(todo) <= 1
  /\ at' = "idle" /\ appended' = CString(mem)
  /\ mem' = <<>> /\ cap' = 0 /\ curr_len' = 0 /\ todo' = <<>>
  /\ UNCHANGED <<records, live, skipped>>

\* fopen, fputs, fclose, and free. A file that does not open is passed over.
AppendFile ==
  /\ at = "next" /\ todo = <<>>
  /\ at' = "idle"
  /\ appended' \in {CString(mem), <<>>}
  /\ mem' = <<>> /\ cap' = 0 /\ curr_len' = 0
  /\ UNCHANGED <<records, todo, live, skipped>>

-------------------------------------------------------------------------------
\* Lines(s, omitted)[k]: the lines of the first k records of s, but for the
\* omitted ones
Lines(s, omitted) ==
  LET upto[k \in 0 .. Len(s)] ==
        IF k = 0 THEN <<>>
        ELSE IF s[k] \in omitted THEN upto[k-1]
        ELSE upto[k-1] \o Line(s[k])
  IN  upto
Written == Lines(records, skipped)[Len(records) - Len(todo)]

(* Whichever allocation failed for the records before, the buffer holds the  *)
(* lines of the others and nothing else, its terminator stands at curr_len,  *)
(* and nothing was stored past its end; a flush leaves no JSON tree, text or *)
(* buffer behind (ser_logg.c:121-167).                                       *)
BufferInStep ==
  /\ at \in {"next", "print", "write"} =>
       /\ Len(mem) = cap /\ cap = curr_len + 1
       /\ CString(mem) = Written /\ Len(Written) = curr_len
  /\ at = "idle" => live = 0 /\ cap = 0 /\ mem = <<>>

(* The birth and death times of the record that is printed are the wall      *)
(* clock's, whatever the clocks show when they are read (ser_logg.c:54-65).  *)
TimesExact == at = "print" => ResoExact

(* A flush appends the lines of the whole table but for the records it gave  *)
(* up, in one piece, or nothing (ser_logg.c:104-139).                        *)
FlushWhole ==
  [][appended' \notin {appended, <<>>} =>
       appended' = Lines(records, skipped)[Len(records)]]_loggerVars
===============================================================================

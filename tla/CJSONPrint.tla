------------------------------ MODULE CJSONPrint ------------------------------
(***************************************************************************)
(* The printer of c_core/cJSON.c: a value is rendered into a buffer that   *)
(* ensure grows. Each piece of text is written where offset says, ends in  *)
(* a terminator or not, and offset follows at once or by the next          *)
(* update_offset, which looks for the terminator.                          *)
(***************************************************************************)
EXTENDS Integers, Sequences, SequencesExt, FiniteSetsExt

CONSTANTS Items,               \* the values that are printed
          Lengths,             \* lengths of the first buffer
          INT_MAX,             \* the largest buffer
          CJSON_NESTING_LIMIT

VARIABLES item,    \* the value that is printed
          mode,    \* "print", "buffered" or "preallocated" (noalloc)
          format, depth,
          todo,    \* what the calls that have not returned have left to do
          mem,     \* the content of the buffer
          length, offset,
          pc       \* "run", "done" or "fail"

vars == <<item, mode, format, depth, todo, mem, length, offset, pc>>

End == "end"
Tabs(n) == [i \in 1..n |-> "tab"]

\* What memory m holds after c is stored at offset at
Store(m, at, c) ==
  [i \in 1 .. (IF at + Len(c) > Len(m) THEN at + Len(c) ELSE Len(m)) |->
     IF i \in at+1 .. at+Len(c) THEN c[i - at] ELSE m[i]]
Resize(m, n) == [i \in 1..n |-> IF i <= Len(m) THEN m[i] ELSE "junk"]
\* Without a terminator the length that is found is wrong.
strlen(m, at) ==
  LET ends == {n \in 0 .. Len(m)-at-1 : m[at+n+1] = End}
  IN  IF ends = {} THEN Len(m) - at ELSE CHOOSE n \in ends : \A k \in ends : n <= k

-------------------------------------------------------------------------------
(* What one piece of text asks ensure for, writes, and adds to offset *)

Put(need, chars, adv) == [op |-> "put", need |-> need, chars |-> chars, adv |-> adv, nest |-> 0]
Update == [op |-> "update"]
Value(v) == [op |-> "value", item |-> v]

\* The characters of a string: the counting loop of print_string_ptr and the
\* loop that writes. A control character takes 6 places, a quote 2.
escape_characters(s) ==
  FoldSeq(LAMBDA c, n : n + (CASE c = "quote" -> 1 [] c = "control" -> 5 [] OTHER -> 0), 0, s)
Escaped(s) ==
  FlattenSeq([i \in 1..Len(s) |->
    CASE s[i] = "quote" -> <<"\\", "q">>
      [] s[i] = "control" -> <<"\\", "u", "0", "0", "x", "x">>
      [] OTHER -> <<s[i]>>])

print_string_ptr(s) ==
  Put(Len(s) + escape_characters(s) + 3, <<"\"">> \o Escaped(s) \o <<"\"", End>>, 0)
print_number(text) == Put(Len(text) + 1, Append(text, End), Len(text))
print_literal(text) == Put(Len(text) + 1, Append(text, End), 0)

print_array(v) ==
  LET n == Len(v.kids)
      Comma == IF format THEN Put(3, <<",", " ", End>>, 2) ELSE Put(2, <<",", End>>, 1)
  IN  <<[Put(1, <<"[">>, 1) EXCEPT !.nest = 1]>>
      \o FlattenSeq([i \in 1..n |->
           <<Value(v.kids[i]), Update>> \o IF i < n THEN <<Comma>> ELSE <<>>])
      \o <<[Put(2, <<"]", End>>, 0) EXCEPT !.nest = -1]>>

\* d: the depth inside the object
print_object(v) ==
  LET n == Len(v.kids)
      d == depth + 1
      Open == IF format THEN Put(3, <<"{", "nl">>, 2) ELSE Put(2, <<"{">>, 1)
      Indent == IF format THEN <<Put(d, Tabs(d), d)>> ELSE <<>>
      Colon == IF format THEN Put(2, <<":", "tab">>, 2) ELSE Put(1, <<":">>, 1)
      Comma(i) == LET t == (IF i < n THEN <<",">> ELSE <<>>) \o (IF format THEN <<"nl">> ELSE <<>>)
                  IN  Put(Len(t) + 1, Append(t, End), Len(t))
      Close == IF format THEN Put(d + 1, Tabs(d - 1) \o <<"}", End>>, 0)
                         ELSE Put(2, <<"}", End>>, 0)
  IN  <<[Open EXCEPT !.nest = 1]>>
      \o FlattenSeq([i \in 1..n |->
           Indent \o <<print_string_ptr(v.keys[i]), Update, Colon,
                       Value(v.kids[i]), Update, Comma(i)>>])
      \o <<[Close EXCEPT !.nest = -1]>>

\* print_value
print_value(v) ==
  CASE v.kind = "literal" -> <<print_literal(v.text)>>
    [] v.kind = "number"  -> <<print_number(v.text)>>
    [] v.kind = "string"  -> <<print_string_ptr(v.text)>>
    [] v.kind = "array"   -> print_array(v)
    [] v.kind = "object"  -> print_object(v)

-------------------------------------------------------------------------------
Init ==
  /\ item \in Items
  /\ mode \in {"print", "buffered", "preallocated"} /\ format \in BOOLEAN /\ depth = 0
  /\ todo = <<Value(item)>> \o IF mode = "print" THEN <<Update>> ELSE <<>>
  /\ length \in IF mode = "print" THEN Lengths \ {0} ELSE Lengths
  /\ mem = Resize(<<>>, length) /\ offset = 0
  /\ pc = "run"

\* A call returned false, and so do all the others.
Fail == pc' = "fail" /\ UNCHANGED <<depth, todo, mem, length, offset>>

\* A bug: the terminator is not counted.
Ensured_tight(needed) ==
  LET n == needed + offset - 1 IN
  IF n <= length THEN {length}
  ELSE IF mode = "preallocated" \/ n > INT_MAX THEN {0} ELSE {0, 2 * n}

\* ensure(p, needed): the size of the buffer that it answers, 0 without one
Ensured(needed) ==
  LET n == needed + offset + 1 IN
  IF (length > 0 /\ offset >= length) \/ needed > INT_MAX THEN {0}
  ELSE IF n <= length THEN {length}
  ELSE IF mode = "preallocated" \/ n > INT_MAX THEN {0}
  ELSE {0, IF n > INT_MAX \div 2 THEN INT_MAX ELSE 2 * n}

\* One piece of text
Write(p) ==
  \E l \in Ensured(p.need) :
    IF l = 0 THEN Fail
    ELSE /\ mem' = Store(Resize(mem, l), offset, p.chars)
         /\ length' = l /\ offset' = offset + p.adv /\ depth' = depth + p.nest
         /\ todo' = Tail(todo) /\ UNCHANGED pc

Expand(v) ==
  IF v.kind \in {"array", "object"} /\ depth >= CJSON_NESTING_LIMIT THEN Fail
  ELSE todo' = print_value(v) \o Tail(todo) /\ UNCHANGED <<depth, mem, length, offset, pc>>

update_offset ==
  /\ offset' = offset + strlen(mem, offset)
  /\ todo' = Tail(todo) /\ UNCHANGED <<depth, mem, length, pc>>

Step ==
  /\ pc = "run" /\ todo # <<>>
  /\ CASE Head(todo).op = "put"    -> Write(Head(todo))
       [] Head(todo).op = "value"  -> Expand(Head(todo).item)
       [] Head(todo).op = "update" -> update_offset
  /\ UNCHANGED <<item, mode, format>>

\* The value is printed; print gives back what the buffer has too much, or
\* copies it, for which there may be no memory.
Return ==
  /\ pc = "run" /\ todo = <<>>
  /\ \/ /\ pc' = "done"
        /\ IF mode = "print" THEN mem' = Resize(mem, offset + 1) /\ length' = offset + 1
                             ELSE UNCHANGED <<mem, length>>
     \/ mode = "print" /\ pc' = "fail" /\ UNCHANGED <<mem, length>>
  /\ UNCHANGED <<item, mode, format, depth, todo, offset>>

Next == Step \/ Return

Spec == Init /\ [][Next]_vars

-------------------------------------------------------------------------------
\* JSON, without white space or with the layout of cJSON_Print
RECURSIVE Render(_, _, _)
Render(v, d, f) ==
  LET n == IF v.kind \in {"array", "object"} THEN Len(v.kids) ELSE 0
      Sep(i) == IF i < n THEN <<",">> ELSE <<>>
      Quoted(t) == <<"\"">> \o Escaped(t) \o <<"\"">>
  IN CASE v.kind \in {"literal", "number"} -> v.text
       [] v.kind = "string" -> Quoted(v.text)
       [] v.kind = "array" ->
            <<"[">> \o FlattenSeq([i \in 1..n |->
               Render(v.kids[i], d + 1, f) \o Sep(i) \o IF f /\ i < n THEN <<" ">> ELSE <<>>])
            \o <<"]">>
       [] v.kind = "object" ->
            <<"{">> \o (IF f THEN <<"nl">> ELSE <<>>)
            \o FlattenSeq([i \in 1..n |->
                 (IF f THEN Tabs(d + 1) ELSE <<>>) \o Quoted(v.keys[i])
                 \o (IF f THEN <<":", "tab">> ELSE <<":">>)
                 \o Render(v.kids[i], d + 1, f)
                 \o Sep(i) \o IF f THEN <<"nl">> ELSE <<>>])
            \o (IF f THEN Tabs(d) ELSE <<>>) \o <<"}">>

Text == Render(item, 0, format)

RECURSIVE Nesting(_)
Nesting(v) ==
  IF v.kind \notin {"array", "object"} THEN 0
  ELSE 1 + Max({0} \cup {Nesting(v.kids[i]) : i \in DOMAIN v.kids})

(* No piece of text is written past the end of the buffer, and offset stays  *)
(* inside it: what each caller asks ensure for covers what it writes, its    *)
(* terminator included (cJSON.c:490, 596, 954, 1423, 1595, 1780).            *)
InBuffer ==
  /\ Len(mem) = length
  /\ pc = "run" /\ offset > 0 => offset < length

(* A value that was printed is the JSON it stands for, terminator and all,   *)
(* however often the buffer has grown: update_offset has found the end of    *)
(* every piece (cJSON.c:576).                                                *)
Rendered == pc = "done" => SubSeq(mem, 1, Len(Text) + 1) = Append(Text, End)

(* cJSON.h:168: a buffer with 5 bytes more than the text needs is enough.    *)
PreallocatedSuffices ==
  mode = "preallocated" /\ pc = "fail" =>
    length < Len(Text) + 1 + 5 \/ Nesting(item) > CJSON_NESTING_LIMIT
===============================================================================

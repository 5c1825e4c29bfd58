------------------------------ MODULE CJSONParse ------------------------------
(***************************************************************************)
(* The recursive descent of cJSON over a text of tokens: punctuation, an   *)
(* atom (a number, true, false or null), a sign that no number follows, a  *)
(* string, a quote that opens a string with no end, a blank, and NUL,      *)
(* which the parser takes for one.                                         *)
(* Tokens are read at offsets from 0, as bytes are; the bytes of a string  *)
(* are the subject of CJSONText.                                           *)
(*                                                                         *)
(* The parser's state is a record b: the offset and depth of parse_buffer, *)
(* how many allocations will still succeed, how many blocks it has, and    *)
(* whether it read at or beyond the length.  A function of the parser      *)
(* returns [b, ok, v], v being what it puts into the item it fills.        *)
(***************************************************************************)
EXTENDS Integers, Sequences, SequencesExt

CONSTANT CJSON_NESTING_LIMIT

Blanks == {" ", "NUL"}
Atoms == {"1", "null"}
Strings == {"'s'"}

\* An item: kind, the token it came from, the member name, the children.
Item(kind, token, name, kids) ==
  [kind |-> kind, token |-> token, name |-> name, kids |-> kids]
None == Item("invalid", "", "", <<>>)

can_access(text, b, k) == b.offset + k < Len(text)
at(text, b) == text[b.offset + 1]
Move(b, k) == [b EXCEPT !.offset = @ + k]

\* The next token, as code reads it that has not looked at the length.
Read(text, b) == [b EXCEPT !.outside = @ \/ ~can_access(text, b, 0)]
Reads(text, b, token) == can_access(text, b, 0) /\ at(text, b) = token

Done(b, v) == [b |-> b, ok |-> TRUE, v |-> v]
Fail(b) == [b |-> b, ok |-> FALSE, v |-> None]

-----------------------------------------------------------------------------
(* Memory: an item is one block, a name is one, the value of a string is   *)
(* one.                                                                    *)

Allocates(b) == b.budget > 0
Allocate(b) == [b EXCEPT !.budget = @ - 1, !.blocks = @ + 1]

RECURSIVE Blocks(_)
Blocks(v) == 1 + (IF v.name = "" THEN 0 ELSE 1) + (IF v.kind = "string" THEN 1 ELSE 0)
               + FoldLeft(LAMBDA sum, kid : sum + Blocks(kid), 0, v.kids)

\* cJSON_Delete of a list of items.
Delete(b, items) ==
  [b EXCEPT !.blocks = @ - FoldLeft(LAMBDA sum, i : sum + Blocks(i), 0, items)]

-----------------------------------------------------------------------------
(* The parser.                                                             *)

\* At the end of the text it steps back onto the last blank.
buffer_skip_whitespace(text, b) ==
  LET rest == {k \in b.offset..Len(text) - 1 : text[k + 1] \notin Blanks}
  IN  IF ~can_access(text, b, 0) THEN b
      ELSE [b EXCEPT !.offset = IF rest = {} THEN Len(text) - 1
                                ELSE CHOOSE k \in rest : \A j \in rest : k <= j]

\* The copy of a string is allocated once its end is found, and a failure
\* leaves the offset behind the quote.
parse_string(text, b0) ==
  LET b == Read(text, b0)
  IN  IF b.outside \/ at(text, b) \notin Strings \/ ~Allocates(b) THEN Fail(Move(b, 1))
      ELSE Done(Move(Allocate(b), 1), Item("string", at(text, b), "", <<>>))

\* The number is copied before strtod looks at it, which may find none.
parse_number(text, b) ==
  IF ~Allocates(b) THEN Fail(b)
  ELSE IF at(text, b) = "-" THEN Fail([b EXCEPT !.budget = @ - 1])
  ELSE Done(Move([b EXCEPT !.budget = @ - 1], 1), Item("atom", at(text, b), "", <<>>))

RECURSIVE parse_value(_, _), parse_elements(_, _, _), parse_members(_, _, _)

\* Behind a value: a comma and the next one, or the end of the container.
after_value(text, b, items, kind) ==
  IF Reads(text, b, ",")
  THEN IF kind = "array" THEN parse_elements(text, b, items) ELSE parse_members(text, b, items)
  ELSE IF Reads(text, b, IF kind = "array" THEN "]" ELSE "}") THEN Done(b, items)
  ELSE Fail(Delete(b, items))

\* A value was read, or not, for the item of that name.
add_value(text, r, name, items, kind) ==
  IF ~r.ok THEN Fail(Delete(r.b, Append(items, [None EXCEPT !.name = name])))
  ELSE after_value(text, buffer_skip_whitespace(text, r.b),
                   Append(items, [r.v EXCEPT !.name = name]), kind)

\* The next element of an array that has these, the offset in front of it.
parse_elements(text, b, items) ==
  IF ~Allocates(b) THEN Fail(Delete(b, items))
  ELSE add_value(text, parse_value(text, buffer_skip_whitespace(text, Move(Allocate(b), 1))),
                 "", items, "array")

\* Mutant: a failure behind the name forgets the name.
parse_colon_leak(text, b, name, items) ==
  IF ~Reads(text, b, ":") THEN Fail(Delete(b, Append(items, None)))
  ELSE add_value(text, parse_value(text, buffer_skip_whitespace(text, Move(b, 1))),
                 name, items, "object")

\* Behind the name of a member.
parse_colon(text, b, name, items) ==
  IF ~Reads(text, b, ":") THEN Fail(Delete(b, Append(items, [None EXCEPT !.name = name])))
  ELSE add_value(text, parse_value(text, buffer_skip_whitespace(text, Move(b, 1))),
                 name, items, "object")

parse_name(text, r, items) ==
  IF ~r.ok THEN Fail(Delete(r.b, Append(items, None)))
  ELSE parse_colon(text, buffer_skip_whitespace(text, r.b), r.v.token, items)

\* The next member of an object, the offset in front of it.
parse_members(text, b, items) ==
  IF ~Allocates(b) THEN Fail(Delete(b, items))
  ELSE IF ~can_access(text, b, 1) THEN Fail(Delete(Allocate(b), Append(items, None)))
  ELSE parse_name(text, parse_string(text, buffer_skip_whitespace(text, Move(Allocate(b), 1))),
                  items)

\* Behind the opening bracket and the blanks that follow it.
parse_inside(text, b, kind) ==
  IF Reads(text, b, IF kind = "array" THEN "]" ELSE "}") THEN Done(b, <<>>)
  ELSE IF ~can_access(text, b, 0) THEN Fail(Move(b, -1))
  ELSE IF kind = "array" THEN parse_elements(text, Move(b, -1), <<>>)
  ELSE parse_members(text, Move(b, -1), <<>>)

close_container(r, kind) ==
  IF r.ok THEN Done(Move([r.b EXCEPT !.depth = @ - 1], 1), Item(kind, "", "", r.v))
  ELSE Fail(r.b)

enter(text, b) ==
  buffer_skip_whitespace(text, Move(Read(text, [b EXCEPT !.depth = @ + 1]), 1))

\* Mutant: one level more than the limit.
parse_container_deep(text, b, kind) ==
  IF b.depth > CJSON_NESTING_LIMIT THEN Fail(b)
  ELSE close_container(parse_inside(text, enter(text, b), kind), kind)

parse_container(text, b, kind) ==
  IF b.depth >= CJSON_NESTING_LIMIT THEN Fail(b)
  ELSE close_container(parse_inside(text, enter(text, b), kind), kind)

parse_array(text, b) == parse_container(text, b, "array")
parse_object(text, b) == parse_container(text, b, "object")

parse_value(text, b) ==
  CASE Reads(text, b, "null") -> Done(Move(b, 1), Item("atom", "null", "", <<>>))
    [] can_access(text, b, 0) /\ at(text, b) \in Strings \cup {"'"} -> parse_string(text, b)
    [] Reads(text, b, "1") \/ Reads(text, b, "-") -> parse_number(text, b)
    [] Reads(text, b, "[") -> parse_array(text, b)
    [] Reads(text, b, "{") -> parse_object(text, b)
    [] OTHER -> Fail(b)

\* The root item was filled, or not; end is where the parser stands then.
finish(text, r, end, require_null_terminated) ==
  IF ~r.ok \/ (require_null_terminated /\ ~Reads(text, end, "NUL"))
  THEN Fail(Delete(r.b, <<r.v>>))
  ELSE Done(end, r.v)

parse_end(text, r, require_null_terminated) ==
  finish(text, r, IF require_null_terminated THEN buffer_skip_whitespace(text, r.b) ELSE r.b,
         require_null_terminated)

\* The result: the value or None, where it ended, and what is still allocated.
cJSON_ParseWithLengthOpts(text, budget, require_null_terminated) ==
  LET b == [offset |-> 0, depth |-> 0, budget |-> budget, blocks |-> 0, outside |-> FALSE]
  IN  IF text = <<>> \/ ~Allocates(b) THEN Fail(b)
      ELSE parse_end(text, parse_value(text, buffer_skip_whitespace(text, Allocate(b))),
                     require_null_terminated)

-----------------------------------------------------------------------------
(* What the parser is held to: an author that types a document of RFC 8259 *)
(* token by token, and may type one token that does not belong.  open has  *)
(* the containers not closed yet, each with the name its next member has.  *)

CONSTANTS MaxLen,      \* bound: the tokens of a text
          MaxBlanks    \* bound: the blanks of each kind among them
VARIABLES text,        \* what is typed
          open, expect,
          doc,         \* the value of the document, once it is complete
          junk,        \* something that is no blank follows it
          deepest      \* the most containers ever open
vars == <<text, open, expect, doc, junk, deepest>>

Init == /\ text = <<>> /\ open = <<>> /\ expect = "value"
        /\ doc = None /\ junk = FALSE /\ deepest = 0

Types(token) == Len(text) < MaxLen /\ text' = Append(text, token)

\* A value is complete: it goes into the innermost open container.
Complete(v, containers) ==
  IF containers = <<>>
  THEN open' = <<>> /\ doc' = v /\ expect' = "end"
  ELSE LET top == Last(containers)
       IN  /\ open' = Append(Front(containers),
                             [top EXCEPT !.kids = Append(@, [v EXCEPT !.name = top.name])])
           /\ expect' = "comma" /\ UNCHANGED doc

Blank == /\ \E c \in Blanks :
               Types(c) /\ Len(SelectSeq(text, LAMBDA t : t = c)) < MaxBlanks
         /\ UNCHANGED <<open, expect, doc, junk, deepest>>

Simple == /\ expect \in {"value", "first"}
          /\ \/ \E c \in Atoms : Types(c) /\ Complete(Item("atom", c, "", <<>>), open)
             \/ \E c \in Strings : Types(c) /\ Complete(Item("string", c, "", <<>>), open)
          /\ UNCHANGED <<junk, deepest>>

Open == /\ expect \in {"value", "first"}
        /\ Len(open) <= CJSON_NESTING_LIMIT
        /\ \/ Types("[") /\ open' = Append(open, Item("array", "", "", <<>>))
                         /\ expect' = "first"
           \/ Types("{") /\ open' = Append(open, Item("object", "", "", <<>>))
                         /\ expect' = "firstname"
        /\ deepest' = IF Len(open) + 1 > deepest THEN Len(open) + 1 ELSE deepest
        /\ UNCHANGED <<doc, junk>>

Name == /\ expect \in {"name", "firstname"}
        /\ \E c \in Strings : Types(c) /\ open' = Append(Front(open), [Last(open) EXCEPT !.name = c])
        /\ expect' = "colon" /\ UNCHANGED <<doc, junk, deepest>>

Colon == /\ expect = "colon" /\ Types(":") /\ expect' = "value"
         /\ UNCHANGED <<open, doc, junk, deepest>>

Comma == /\ expect = "comma" /\ Types(",")
         /\ expect' = IF Last(open).kind = "array" THEN "value" ELSE "name"
         /\ UNCHANGED <<open, doc, junk, deepest>>

Close == /\ \/ expect \in {"first", "comma"} /\ Last(open).kind = "array" /\ Types("]")
            \/ expect \in {"firstname", "comma"} /\ Last(open).kind = "object" /\ Types("}")
         /\ LET outer == Front(open)
                name == IF outer = <<>> THEN "" ELSE Last(outer).name
            IN  Complete([Last(open) EXCEPT !.name = ""], outer)
         /\ UNCHANGED <<junk, deepest>>

Fits(c) == CASE c \in Blanks -> TRUE
             [] c \in Atoms \cup {"[", "{"} -> expect \in {"value", "first"}
             [] c \in Strings -> expect \in {"value", "first", "name", "firstname"}
             [] c = ":" -> expect = "colon"
             [] c = "," -> expect = "comma"
             [] c = "]" -> expect \in {"first", "comma"} /\ Last(open).kind = "array"
             [] c = "}" -> expect \in {"firstname", "comma"} /\ Last(open).kind = "object"
             [] OTHER -> FALSE

Stray == /\ expect # "stray"
         /\ \E c \in Atoms \cup Strings \cup {"[", "]", "{", "}", ",", ":", "'", "-"} :
               ~Fits(c) /\ Types(c)
         /\ expect' = "stray" /\ junk' = (expect = "end")
         /\ UNCHANGED <<open, doc, deepest>>

Next == Blank \/ Simple \/ Open \/ Name \/ Colon \/ Comma \/ Close \/ Stray
Spec == Init /\ [][Next]_vars

-----------------------------------------------------------------------------
(* Properties.                                                             *)

Plenty == Len(text) + 2
Parsed == cJSON_ParseWithLengthOpts(text, Plenty, FALSE)
ParsedToEnd == cJSON_ParseWithLengthOpts(text, Plenty, TRUE)

\* The parser answers a complete document, not nested deeper than the limit,
\* with its value, whatever follows; it refuses everything else (parse_array,
\* parse_object and their steps back over blanks).
ParseExact ==
  Parsed.v = IF deepest <= CJSON_NESTING_LIMIT THEN doc ELSE None

\* With require_null_terminated, nothing but blanks may follow, the last a NUL.
ParseToEndExact ==
  ParsedToEnd.v =
    IF Parsed.v = doc /\ ~junk /\ doc # None /\ Last(text) = "NUL" THEN doc ELSE None

\* Whichever allocation fails, a parse that fails keeps nothing and one that
\* succeeds keeps what its value is made of.
AllOrNothing ==
  LET enough == Parsed
      needed == Plenty - enough.b.budget
  IN  \A r \in {enough, ParsedToEnd}
               \cup {cJSON_ParseWithLengthOpts(text, k, FALSE) : k \in 0..needed - 1} :
        r.b.blocks = IF r.ok THEN Blocks(r.v) ELSE 0

\* The parser reads below the length it was given, and leaves its position
\* there or just behind.
StaysInside ==
  \A r \in {Parsed, ParsedToEnd} : ~r.b.outside /\ r.b.offset \in 0..Len(text)
===============================================================================

------------------------------ MODULE CJSONMinify ------------------------------
(***************************************************************************)
(* cJSON_Minify, which drops the blanks and comments of a text in place:   *)
(* json is where it reads, into where it writes, in the same bytes.  "x"   *)
(* stands for every byte that has no part in the lexing.                   *)
(***************************************************************************)
EXTENDS Naturals, Sequences, SequencesExt

CONSTANT MaxLen        \* bound: the bytes of a text
VARIABLE text
vars == <<text>>

Blank == {" ", "\n"}
Bytes == Blank \cup {"\"", "\\", "/", "*", "x"}

Init == text = <<>>
Next == Len(text) < MaxLen /\ \E c \in Bytes : text' = Append(text, c)
Spec == Init /\ [][Next]_vars

\* The byte at offset k, NUL behind the last.
Byte(k) == IF k < Len(text) THEN text[k + 1] ELSE "NUL"

\* m is what was written so far, and where json points; copying a byte moves
\* both pointers, and the greatest lead of into over json is kept.
Copy(m, k) ==
  LET out == m.out \o [j \in 1..k |-> Byte(m.json + j - 1)]
  IN  [out |-> out, json |-> m.json + k,
       safe |-> m.safe /\ Len(out) <= m.json + k /\ m.json + k <= Len(text)]

To(m, k) == [m EXCEPT !.json = k, !.safe = @ /\ k <= Len(text)]

\* Where the first offset from k on is that ends a comment, the end otherwise.
FirstEnd(k, ends(_), width) ==
  LET E == {j \in k..Len(text) - 1 : ends(j)}
  IN  IF E = {} THEN Len(text) ELSE (CHOOSE j \in E : \A i \in E : j <= i) + width

skip_oneline_comment(m) ==
  To(m, FirstEnd(m.json + 2, LAMBDA j : Byte(j) = "\n", 1))

skip_multiline_comment(m) ==
  To(m, FirstEnd(m.json + 2, LAMBDA j : Byte(j) = "*" /\ Byte(j + 1) = "/", 2))

\* The bytes of a string behind its opening quote.  Of the escapes it knows
\* the quote's alone.
RECURSIVE minify_rest(_)

\* Mutant: of an escape only the backslash is copied.
minify_rest_half(m) ==
  CASE Byte(m.json) = "NUL" -> m
    [] Byte(m.json) = "\"" -> Copy(m, 1)
    [] Byte(m.json) = "\\" /\ Byte(m.json + 1) = "\"" -> minify_rest(To(Copy(m, 1), m.json + 2))
    [] OTHER -> minify_rest(Copy(m, 1))

minify_rest(m) ==
  CASE Byte(m.json) = "NUL" -> m
    [] Byte(m.json) = "\"" -> Copy(m, 1)
    [] Byte(m.json) = "\\" /\ Byte(m.json + 1) = "\"" -> minify_rest(Copy(m, 2))
    [] OTHER -> minify_rest(Copy(m, 1))

minify_string(m) == minify_rest(Copy(m, 1))

RECURSIVE Minified(_)
Minified(m) ==
  LET c == Byte(m.json)
      d == Byte(m.json + 1)
  IN  CASE c = "NUL" -> m
        [] c \in Blank -> Minified(To(m, m.json + 1))
        [] c = "/" /\ d = "/" -> Minified(skip_oneline_comment(m))
        [] c = "/" /\ d = "*" -> Minified(skip_multiline_comment(m))
        [] c = "/" /\ d \notin {"/", "*"} -> Minified(To(m, m.json + 1))
        [] c = "\"" -> Minified(minify_string(m))
        [] OTHER -> Minified(Copy(m, 1))

cJSON_Minify == Minified([out |-> <<>>, json |-> 0, safe |-> TRUE])

-----------------------------------------------------------------------------
(* What the text is: a lexer of JSON with comments.                        *)

Lexed(t) ==
  LET start == [mode |-> "json", kept |-> <<>>, sound |-> TRUE, backslash |-> FALSE]
      next(s, c) ==
        LET keep(mode) == [s EXCEPT !.mode = mode, !.kept = Append(@, c)]
            drop(mode) == [s EXCEPT !.mode = mode]
        IN  CASE s.mode = "json" -> (CASE c \in Blank -> s
                                       [] c = "/" -> drop("slash")
                                       [] c = "\"" -> keep("string")
                                       [] OTHER -> keep("json"))
              [] s.mode = "slash" -> (CASE c = "/" -> drop("line")
                                        [] c = "*" -> drop("block")
                                        [] OTHER -> [s EXCEPT !.sound = FALSE])
              [] s.mode = "line" -> drop(IF c = "\n" THEN "json" ELSE "line")
              [] s.mode = "block" -> drop(IF c = "*" THEN "star" ELSE "block")
              [] s.mode = "star" -> drop(CASE c = "/" -> "json" [] c = "*" -> "star"
                                           [] OTHER -> "block")
              [] s.mode = "escape" -> [keep("string") EXCEPT !.backslash = @ \/ c = "\\"]
              [] s.mode = "string" -> keep(CASE c = "\"" -> "json" [] c = "\\" -> "escape"
                                             [] OTHER -> "string")
  IN  FoldLeft(next, start, t)

\* A text whose strings and comments are closed, and that has no other slash.
WellFormed == Lexed(text).sound /\ Lexed(text).mode \in {"json", "line"}

-----------------------------------------------------------------------------
(* Properties.                                                             *)

\* What is not blank and no comment is kept, byte for byte, and blanks inside
\* strings with it.  A text with an escaped backslash is left out: minify_string
\* takes its second half for the escape of a quote that follows.
MinifyExact ==
  WellFormed /\ ~Lexed(text).backslash => cJSON_Minify.out = Lexed(text).kept

\* For any text, closed or not: reading stops at the NUL, and writing never
\* overtakes reading, or it would read what it wrote.
InPlace == cJSON_Minify.safe
===============================================================================

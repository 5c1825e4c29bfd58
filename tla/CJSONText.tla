------------------------------ MODULE CJSONText ------------------------------
(***************************************************************************)
(* The strings of cJSON, byte by byte: parse_string turns a quoted literal *)
(* into bytes, print_string_ptr turns bytes into a literal again.  A text  *)
(* is a sequence of bytes, read at offsets from 0.  The literal is written *)
(* by an author that puts pieces of JSON behind an opening quote.          *)
(***************************************************************************)
EXTENDS Integers, Sequences, SequencesExt

CONSTANT MaxPieces     \* bound: the pieces of a literal
VARIABLES pieces,      \* what the author wrote between the quotes
          closed       \* the closing quote is written
vars == <<pieces, closed>>

Quote == 34
Backslash == 92
Slash == 47
Letter_u == 117
Short == [b |-> 8, f |-> 12, n |-> 10, r |-> 13, t |-> 9]   \* \b \f \n \r \t
ShortLetter == [b |-> 98, f |-> 102, n |-> 110, r |-> 114, t |-> 116]

Byte(text, i) == text[i + 1]

Ok(b, next) == [ok |-> TRUE, bytes |-> b, next |-> next]
NotOk(b, next) == [ok |-> FALSE, bytes |-> b, next |-> next]

-----------------------------------------------------------------------------
(* Reading a literal.                                                      *)

\* A digit that is none makes the number 0, not an error.
parse_hex4(text, i) ==
  LET digit(c) == CASE c \in 48..57 -> c - 48
                    [] c \in 65..70 -> c - 55
                    [] c \in 97..102 -> c - 87
                    [] OTHER -> -1
      d(k) == digit(Byte(text, i + k))
  IN  IF \E k \in 0..3 : d(k) = -1 THEN 0
      ELSE ((d(0) * 16 + d(1)) * 16 + d(2)) * 16 + d(3)

\* The UTF-8 bytes of a code point.
encode(point) ==
  LET tail(k) == 128 + ((point \div 64^k) % 64)
  IN  CASE point < 128 -> <<point>>
        [] point \in 128..2047 -> <<192 + point \div 64, tail(0)>>
        [] point \in 2048..65535 -> <<224 + point \div 64^2, tail(1), tail(0)>>
        [] OTHER -> <<240 + point \div 64^3, tail(2), tail(1), tail(0)>>

\* The bytes of the escape at i, and the offset behind it.  end is the offset
\* of the closing quote.
utf16_literal_to_utf8(text, i, end) ==
  LET first == parse_hex4(text, i + 2)
      second == parse_hex4(text, i + 8)
      paired == end - (i + 6) >= 6 /\ Byte(text, i + 6) = Backslash
                /\ Byte(text, i + 7) = Letter_u
  IN  IF end - i < 6 \/ first \in 56320..57343 THEN NotOk(<<>>, i)
      ELSE IF first \notin 55296..56319 THEN Ok(encode(first), i + 6)
      ELSE IF ~paired \/ second \notin 56320..57343 THEN NotOk(<<>>, i)
      ELSE Ok(encode(65536 + (first % 1024) * 1024 + (second % 1024)), i + 12)

RECURSIVE find_end(_, _, _)

\* Mutant: the byte behind a backslash is not counted either.
find_end_less(text, i, skipped) ==
  IF i >= Len(text) THEN <<-1, skipped>>
  ELSE IF Byte(text, i) = Quote THEN <<i, skipped>>
  ELSE IF Byte(text, i) # Backslash THEN find_end(text, i + 1, skipped)
  ELSE IF i + 1 >= Len(text) THEN <<-1, skipped>>
  ELSE find_end(text, i + 2, skipped + 2)

\* The first pass: the offset of the closing quote from i on, and the escapes
\* it skipped; -1 when the text ends first.
find_end(text, i, skipped) ==
  IF i >= Len(text) THEN <<-1, skipped>>
  ELSE IF Byte(text, i) = Quote THEN <<i, skipped>>
  ELSE IF Byte(text, i) # Backslash THEN find_end(text, i + 1, skipped)
  ELSE IF i + 1 >= Len(text) THEN <<-1, skipped>>
  ELSE find_end(text, i + 2, skipped + 1)

\* The second pass, from i up to the closing quote.
RECURSIVE unescape(_, _, _, _)
unescape(text, i, end, out) ==
  LET c == Byte(text, i + 1)
      utf == utf16_literal_to_utf8(text, i, end)
      short == {x \in DOMAIN Short : ShortLetter[x] = c}
  IN  IF i >= end THEN Ok(out, end + 1)
      ELSE IF Byte(text, i) # Backslash THEN unescape(text, i + 1, end, Append(out, Byte(text, i)))
      ELSE IF short # {} THEN unescape(text, i + 2, end, Append(out, Short[CHOOSE x \in short : TRUE]))
      ELSE IF c \in {Quote, Backslash, Slash} THEN unescape(text, i + 2, end, Append(out, c))
      ELSE IF c = Letter_u /\ utf.ok THEN unescape(text, utf.next, end, out \o utf.bytes)
      ELSE NotOk(out, i)

\* The result, and the bytes allocated for the output, its NUL included.
parse_string(text) ==
  LET found == find_end(text, 1, 0)
      size == found[1] - found[2] + 1
  IN  IF found[1] = -1 THEN NotOk(<<>>, 1) @@ [size |-> 1]
      ELSE unescape(text, 1, found[1], <<>>) @@ [size |-> size]

-----------------------------------------------------------------------------
(* Writing one.                                                            *)

HexLetter(d) == IF d < 10 THEN 48 + d ELSE 87 + d

escaped(c) ==
  LET short == {x \in DOMAIN Short : Short[x] = c}
  IN  IF c \in {Quote, Backslash} THEN <<Backslash, c>>
      ELSE IF c > 31 THEN <<c>>
      ELSE IF short # {} THEN <<Backslash, ShortLetter[CHOOSE x \in short : TRUE]>>
      ELSE <<Backslash, Letter_u, 48, 48, HexLetter(c \div 16), HexLetter(c % 16)>>

\* The bytes written, and the length counted before.
print_string_ptr(s) ==
  LET more(c) == IF c \in {Quote, Backslash} \/ \E x \in DOMAIN Short : Short[x] = c THEN 1
                 ELSE IF c < 32 THEN 5 ELSE 0
  IN  [text |-> <<Quote>> \o FlattenSeq([k \in 1..Len(s) |-> escaped(s[k])]) \o <<Quote>>,
       output_length |-> FoldLeft(LAMBDA n, c : n + 1 + more(c), 0, s)]

-----------------------------------------------------------------------------
(* The author.  A piece has its bytes and what RFC 8259 says they mean: a  *)
(* byte that stands for itself, a code point, a half of a surrogate pair,  *)
(* or nothing (broken: the parser refuses it; lax: it takes what is not    *)
(* JSON, four digits that are none, and goes on somehow).                  *)

Digits == <<48, 49, 50, 51, 52, 53, 54, 55, 56, 57, 65, 66, 67, 68, 69, 70>>

Hex(n) == LET d(k) == Digits[((n \div 16^k) % 16) + 1] IN <<d(3), d(2), d(1), d(0)>>

Piece(bytes, is, point) == [bytes |-> bytes, is |-> is, point |-> point]

Plain(c) == Piece(<<c>>, "byte", c)
Escape(c, point) == Piece(<<Backslash, c>>, "byte", point)
Unit(n) ==
  Piece(<<Backslash, Letter_u>> \o Hex(n),
        CASE n \in 55296..56319 -> "high" [] n \in 56320..57343 -> "low" [] OTHER -> "point", n)

Pieces ==
  {Plain(65), Plain(31), Piece(<<195, 169>>, "byte", 233),
   Escape(Quote, Quote), Escape(Backslash, Backslash), Escape(Slash, Slash), Escape(110, 10),
   Unit(31), Unit(127), Unit(128), Unit(2047), Unit(2048), Unit(55295), Unit(65535),
   Unit(55296), Unit(56319), Unit(56320), Unit(57343),
   Piece(<<Backslash, 120>>, "broken", 0),
   Piece(<<Backslash, Letter_u, 48, 48, 52, Backslash, Backslash>>, "lax", 0),
   Piece(<<Backslash, Letter_u, 48, 48, 52>>, "short", 0)}

Init == pieces = <<>> /\ closed = FALSE

Write == /\ ~closed /\ Len(pieces) < MaxPieces
         /\ \E p \in Pieces : pieces' = Append(pieces, p)
         /\ UNCHANGED closed

CloseQuote == closed' = TRUE /\ ~closed /\ UNCHANGED pieces

Next == Write \/ CloseQuote
Spec == Init /\ [][Next]_vars

Text == <<Quote>> \o FlattenSeq([k \in 1..Len(pieces) |-> pieces[k].bytes])
                  \o (IF closed THEN <<Quote>> ELSE <<>>)

Is(k) == IF k \in DOMAIN pieces THEN pieces[k].is ELSE "none"

\* What JSON has no meaning for: an unknown escape, half a pair of surrogates.
Refused ==
  \E k \in DOMAIN pieces : \/ Is(k) = "broken"
                           \/ Is(k) = "high" /\ Is(k + 1) # "low"
                           \/ Is(k) = "low" /\ Is(k - 1) # "high"

Lax == \E k \in DOMAIN pieces : Is(k) \in {"lax", "short"}

\* The code points of a literal that has a meaning; a pair is one.
Meaning ==
  LET of(k) == CASE Is(k) = "high" -> <<65536 + (pieces[k].point - 55296) * 1024
                                              + pieces[k + 1].point - 56320>>
                 [] Is(k) = "low" -> <<>>
                 [] OTHER -> <<pieces[k].point>>
  IN  FlattenSeq([k \in DOMAIN pieces |-> of(k)])

\* The code points of a text in UTF-8, <<-1>> in place of what is none: a byte
\* out of place or a longer form than needed.
RECURSIVE CodePoints(_)
CodePoints(b) ==
  LET lead == Head(b)
      n == CASE lead < 128 -> 1 [] lead \in 192..223 -> 2 [] lead \in 224..239 -> 3
             [] lead \in 240..247 -> 4 [] OTHER -> 0
      tail == SubSeq(b, 2, n)
      start == CASE n = 1 -> lead [] n = 2 -> lead - 192 [] n = 3 -> lead - 224 [] OTHER -> lead - 240
      point == FoldLeft(LAMBDA v, c : v * 64 + c - 128, start, tail)
      least == <<0, 128, 2048, 65536>>
  IN  IF b = <<>> THEN <<>>
      ELSE IF n = 0 \/ Len(b) < n THEN <<-1>>
      ELSE IF point < least[n] \/ \E c \in ToSet(tail) : c \notin 128..191 THEN <<-1>>
      ELSE <<point>> \o CodePoints(SubSeq(b, n + 1, Len(b)))

-----------------------------------------------------------------------------
(* Properties.                                                             *)

Read == parse_string(Text)

\* The value is what the author meant: each escape is its character, each pair
\* of surrogates one, all in UTF-8 of the shortest form; half a pair, an unknown
\* escape and a missing quote are refused (parse_string, utf16_literal_to_utf8).
\* A control character that is not escaped stands for itself, as in the code;
\* RFC 8259 has it escaped.
LiteralExact ==
  ~Lax => /\ Read.ok <=> (closed /\ ~Refused)
          /\ Read.ok => CodePoints(Read.bytes) = Meaning /\ Read.next = Len(Text)

\* The output was allocated before it was known: what the first pass counts is
\* enough for the second, for texts that are no JSON too, where the two do not
\* agree on what is an escape.
OutputFits == Len(Read.bytes) + 1 <= Read.size

\* What is read can be written and read again: the literal print_string_ptr
\* makes of any bytes without a NUL has those bytes for its value, and exactly
\* the length it reserved.
RoundTrip ==
  LET value == SelectSeq(Read.bytes, LAMBDA c : c # 0)
      printed == print_string_ptr(value)
      again == parse_string(printed.text)
  IN  /\ again.ok /\ again.bytes = value
      /\ Len(printed.text) = printed.output_length + 2
===============================================================================

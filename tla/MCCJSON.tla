------------------------------- MODULE MCCJSON -------------------------------
(***************************************************************************)
(* The calls of cJSON that take a text or items and share nothing with     *)
(* each other: cJSON_Parse, the reading and writing of string literals,    *)
(* cJSON_Minify, the cJSON_Print functions, and cJSON_Compare with         *)
(* cJSON_Duplicate.  A behaviour is about one of them; the variables of    *)
(* the others rest.                                                        *)
(***************************************************************************)
EXTENDS Integers, Sequences, SequencesExt

CONSTANTS MaxLen, MaxBlanks,       \* bounds of CJSONParse
          MaxPieces,               \* bound of CJSONText
          MaxBytes,                \* bound of CJSONMinify
          Lengths, INT_MAX,        \* of CJSONPrint
          CJSON_NESTING_LIMIT,     \* of CJSONParse and CJSONPrint
          CJSON_CIRCULAR_LIMIT     \* of CJSONCompare

ASSUME Limits == {CJSON_NESTING_LIMIT, CJSON_CIRCULAR_LIMIT} \subseteq Nat \ {0}
ASSUME Sizes == Lengths \subseteq Nat /\ INT_MAX \in Nat

VARIABLES call,                                              \* which call it is
          text, open, expect, doc, junk, deepest,            \* CJSONParse
          pieces, closed,                                    \* CJSONText
          item, mode, format, depth, todo, mem, length, offset, pc,  \* CJSONPrint
          a, b                                               \* CJSONCompare

-----------------------------------------------------------------------------
(* What is printed: values of at most three levels.                        *)

Null == [kind |-> "literal", text |-> <<"n", "u", "l", "l">>]
One == [kind |-> "number", text |-> <<"1">>]
Str == [kind |-> "string", text |-> <<"quote", "a", "control">>]
Empty == [kind |-> "string", text |-> <<>>]
Leaves == {Null, One, Str, Empty}

Arrays(S) == {[kind |-> "array", kids |-> l] : l \in SeqOf(S, 2)}
Objects(S) ==
  {[kind |-> "object", kids |-> l, keys |-> [i \in DOMAIN l |-> <<"k">>]] : l \in SeqOf(S, 2)}
Flat == Arrays({One, Str}) \cup Objects({One, Str})
AllItems == Leaves \cup Arrays(Leaves) \cup Objects(Leaves)
            \cup Arrays({Null} \cup Flat) \cup Objects({Null} \cup Flat)
            \cup Arrays(Arrays(Arrays({})))

(* What is compared and copied: values with two levels of children, the    *)
(* most that is copied, with names in two cases, a name in constant        *)
(* memory, and members without a name; and some a level too deep.          *)

Names == {"k", "K", "m", "none"}
LowerCase == [n \in Names |-> IF n = "K" THEN "k" ELSE n]

Leaf(kind, value) == [kind |-> kind, value |-> value, name |-> "none", const |-> FALSE,
                      kids |-> <<>>]
Tree(kind, kids) == [Leaf(kind, "none") EXCEPT !.kids = kids]
Member(name, v) == [v EXCEPT !.name = name, !.const = name = "m"]

Inner == {Leaf("number", 0), Leaf("number", 1), Leaf("number", 2)}
           \cup {Tree("array", <<>>), Tree("array", <<Tree("object", <<>>)>>),
                 Tree("object", <<Member("K", Leaf("string", "s"))>>)}

\* Deeper than CJSON_CIRCULAR_LIMIT, with and without a sibling copied before
TooDeep ==
  LET innermost == {Tree("array", <<Leaf("null", "none")>>),
                    Tree("object", <<Member("K", Leaf("string", "s"))>>)}
  IN  {Tree("array", <<Tree("array", <<v>>)>>) : v \in innermost}
        \cup {Tree("object", <<Member("m", Leaf("string", "s")),
                               Member("k", Tree("array", <<Leaf("number", 0), v>>))>>) :
                v \in innermost}

AllValues ==
  TooDeep \cup Inner \cup {Leaf("null", "none"), Leaf("string", "s"), Leaf("invalid", "none")}
        \cup {Tree("array", s) : s \in SeqOf(Inner, 2)}
        \cup {Tree("object", s) : s \in SeqOf({Member(n, v) : n \in Names, v \in Inner}, 2)}

-----------------------------------------------------------------------------

Parser == INSTANCE CJSONParse
Literal == INSTANCE CJSONText
Minifier == INSTANCE CJSONMinify WITH MaxLen <- MaxBytes
Printer == INSTANCE CJSONPrint WITH Items <- AllItems
Comparer == INSTANCE CJSONCompare WITH Values <- AllValues, Lower <- LowerCase

restOfParser == <<open, expect, doc, junk, deepest>>
literalVars == <<pieces, closed>>
printerVars == <<item, mode, format, depth, todo, mem, length, offset, pc>>
comparerVars == <<a, b>>
vars == <<call, text, restOfParser, literalVars, printerVars, comparerVars>>

PrintRests == /\ item = "none" /\ mode = "none" /\ format = FALSE /\ depth = 0
              /\ todo = <<>> /\ mem = <<>> /\ length = 0 /\ offset = 0 /\ pc = "none"
CompareRests == a = "none" /\ b = "none"

Init ==
  /\ call \in {"parse", "literal", "minify", "print", "compare"}
  /\ Parser!Init /\ Literal!Init
  /\ IF call = "print" THEN Printer!Init ELSE PrintRests
  /\ IF call = "compare" THEN Comparer!Init ELSE CompareRests

Next ==
  /\ UNCHANGED call
  /\ \/ /\ call = "parse" /\ Parser!Next
        /\ UNCHANGED <<literalVars, printerVars, comparerVars>>
     \/ /\ call = "literal" /\ Literal!Next
        /\ UNCHANGED <<text, restOfParser, printerVars, comparerVars>>
     \/ /\ call = "minify" /\ Minifier!Next
        /\ UNCHANGED <<restOfParser, literalVars, printerVars, comparerVars>>
     \/ /\ call = "print" /\ Printer!Next
        /\ UNCHANGED <<text, restOfParser, literalVars, comparerVars>>
     \/ /\ call = "compare" /\ Comparer!Next
        /\ UNCHANGED <<text, restOfParser, literalVars, printerVars>>

Spec == Init /\ [][Next]_vars

-----------------------------------------------------------------------------
(* The properties of the five modules, each about its own calls.           *)

\* A document in, its value out; anything else is refused, and with
\* require_null_terminated whatever else follows (cJSON_ParseWithLengthOpts).
ParseExact == call = "parse" => Parser!ParseExact /\ Parser!ParseToEndExact

\* Whichever allocation fails, nothing is kept of a parse that fails, and no
\* byte outside the given length is read (parse_array, parse_object).
ParseClean == call = "parse" => Parser!AllOrNothing /\ Parser!StaysInside

\* A literal's value is what RFC 8259 makes of it, fits in what the first pass
\* of parse_string counted, and is read again as print_string_ptr writes it.
LiteralExact ==
  call = "literal" => Literal!LiteralExact /\ Literal!OutputFits /\ Literal!RoundTrip

\* What is not blank and no comment is kept, and writing never overtakes
\* reading (cJSON_Minify, minify_string).
MinifyExact == call = "minify" => Minifier!MinifyExact /\ Minifier!InPlace

\* No piece of text is written past the end of the buffer (ensure), what was
\* printed is the text of the value (update_offset), and five bytes more than
\* the text are enough (cJSON_PrintPreallocated).
PrintExact ==
  call = "print" => Printer!InBuffer /\ Printer!Rendered /\ Printer!PreallocatedSuffices

\* With names that differ, cJSON_Compare is equality of JSON values; whatever
\* the names, the answer does not depend on which item comes first.
CompareExact == call = "compare" => Comparer!CompareExact /\ Comparer!CompareSymmetric

\* A copy is the item again, or there is none and nothing stays allocated
\* (cJSON_Duplicate).  Asked once for each value.
DuplicateWhole == call = "compare" /\ a = b => Comparer!DuplicateWhole
===============================================================================

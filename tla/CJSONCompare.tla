------------------------------ MODULE CJSONCompare ------------------------------
(***************************************************************************)
(* cJSON_Compare and cJSON_Duplicate, on items taken as trees: kind, value *)
(* (a number, or a string), name (None: no name), const (StringIsConst)    *)
(* and children.  Numbers lie on a grid on which neighbours are as close   *)
(* as compare_double allows: equal, though not the same.                   *)
(***************************************************************************)
EXTENDS Integers, Sequences, SequencesExt

CONSTANTS Values,                  \* the items compared and copied
          Lower,                   \* tolower, on names
          CJSON_CIRCULAR_LIMIT

None == "none"

VARIABLES a, b
vars == <<a, b>>

\* A caller with one item picks another.
Init == a \in Values /\ b = a
Next == b = a /\ b' \in Values /\ UNCHANGED a
Spec == Init /\ [][Next]_vars

-----------------------------------------------------------------------------
(* Comparing.                                                              *)

compare_double(x, y) == x - y \in -1..1

same_name(s, t, case_sensitive) ==
  s # None /\ t # None /\ IF case_sensitive THEN s = t ELSE Lower[s] = Lower[t]

\* The index of the member found, 0 without one: no name finds nothing, and the
\* case sensitive search ends at a child that has none.
get_object_item(object, name, case_sensitive) ==
  LET stops == {k \in DOMAIN object.kids :
                  \/ same_name(object.kids[k].name, name, case_sensitive)
                  \/ case_sensitive /\ object.kids[k].name = None}
      first == CHOOSE k \in stops : \A j \in stops : k <= j
  IN  IF name = None \/ stops = {} THEN 0
      ELSE IF object.kids[first].name = None THEN 0 ELSE first

RECURSIVE cJSON_Compare(_, _, _)

\* Every member of x has its equal in y.
members_found(x, y, case_sensitive) ==
  \A k \in DOMAIN x.kids :
    LET found == get_object_item(y, x.kids[k].name, case_sensitive)
    IN  found # 0 /\ cJSON_Compare(x.kids[k], y.kids[found], case_sensitive)

\* Mutant: a subset of the members is enough.
cJSON_Compare_oneway(x, y, case_sensitive) ==
  /\ x.kind = y.kind
  /\ CASE x.kind = "null" -> TRUE
       [] x.kind = "number" -> compare_double(x.value, y.value)
       [] x.kind = "string" -> x.value = y.value
       [] x.kind = "array" ->
            /\ Len(x.kids) = Len(y.kids)
            /\ \A k \in DOMAIN x.kids : cJSON_Compare(x.kids[k], y.kids[k], case_sensitive)
       [] x.kind = "object" -> members_found(x, y, case_sensitive)
       [] OTHER -> FALSE

\* Of two items at different addresses.
cJSON_Compare(x, y, case_sensitive) ==
  /\ x.kind = y.kind
  /\ CASE x.kind = "null" -> TRUE
       [] x.kind = "number" -> compare_double(x.value, y.value)
       [] x.kind = "string" -> x.value = y.value
       [] x.kind = "array" ->
            /\ Len(x.kids) = Len(y.kids)
            /\ \A k \in DOMAIN x.kids : cJSON_Compare(x.kids[k], y.kids[k], case_sensitive)
       [] x.kind = "object" ->
            /\ members_found(x, y, case_sensitive)
            /\ members_found(y, x, case_sensitive)
       [] OTHER -> FALSE

-----------------------------------------------------------------------------
(* Copying.  m is the allocator: how many blocks it will still give, and   *)
(* how many it gave and did not get back.                                  *)

Invalid == [kind |-> "invalid", value |-> None, name |-> None, const |-> FALSE, kids |-> <<>>]

Own(item) == <<item.kind = "string", item.name # None /\ ~item.const>>

RECURSIVE Blocks(_)
Blocks(item) == 1 + Len(SelectSeq(Own(item), LAMBDA x : x))
                  + FoldLeft(LAMBDA n, kid : n + Blocks(kid), 0, item.kids)

Take(m, n) == [budget |-> m.budget - n, blocks |-> m.blocks + n]
Failed(m) == [m |-> m, ok |-> FALSE, item |-> Invalid]
Copied(m, item) == [m |-> m, ok |-> TRUE, item |-> item]

RECURSIVE cJSON_Duplicate_rec(_, _, _, _)

\* The children copied behind those in kids, k being the next one.  What was
\* allocated for the item and its copies so far is freed when one fails.
RECURSIVE duplicate_kids(_, _, _, _)

\* Mutant: a level too many is copied.
duplicate_kids_deep(item, depth, m, kids) ==
  LET k == Len(kids) + 1
      kid == cJSON_Duplicate_rec(item.kids[k], depth + 1, TRUE, m)
      undo(n) == [n EXCEPT !.blocks = @ - Blocks([item EXCEPT !.kids = kids])]
  IN  IF k > Len(item.kids) THEN Copied(m, [item EXCEPT !.kids = kids])
      ELSE IF depth > CJSON_CIRCULAR_LIMIT THEN Failed(undo(m))
      ELSE IF ~kid.ok THEN Failed(undo(kid.m))
      ELSE duplicate_kids(item, depth, kid.m, Append(kids, kid.item))

duplicate_kids(item, depth, m, kids) ==
  LET k == Len(kids) + 1
      kid == cJSON_Duplicate_rec(item.kids[k], depth + 1, TRUE, m)
      undo(n) == [n EXCEPT !.blocks = @ - Blocks([item EXCEPT !.kids = kids])]
  IN  IF k > Len(item.kids) THEN Copied(m, [item EXCEPT !.kids = kids])
      ELSE IF depth >= CJSON_CIRCULAR_LIMIT THEN Failed(undo(m))
      ELSE IF ~kid.ok THEN Failed(undo(kid.m))
      ELSE duplicate_kids(item, depth, kid.m, Append(kids, kid.item))

cJSON_Duplicate_rec(item, depth, recurse, m) ==
  LET bare == [item EXCEPT !.kids = <<>>]
      got == IF Blocks(bare) <= m.budget THEN Blocks(bare) ELSE m.budget
  IN  IF got < Blocks(bare) THEN Failed([m EXCEPT !.budget = 0])
      ELSE IF ~recurse THEN Copied(Take(m, got), bare)
      ELSE duplicate_kids(item, depth, Take(m, got), <<>>)

cJSON_Duplicate(item, recurse, budget) ==
  cJSON_Duplicate_rec(item, 0, recurse, [budget |-> budget, blocks |-> 0])

-----------------------------------------------------------------------------
(* Properties.                                                             *)

\* Objects whose members all have names that differ, at every level.
RECURSIVE Distinct(_, _)
Distinct(x, case_sensitive) ==
  /\ x.kind = "object" =>
       \A j, k \in DOMAIN x.kids :
          same_name(x.kids[j].name, x.kids[k].name, case_sensitive) <=> j = k
  /\ \A k \in DOMAIN x.kids : Distinct(x.kids[k], case_sensitive)

\* Equality of JSON values: arrays element by element, objects as functions of
\* their names, in any order.
RECURSIVE Equal(_, _, _)
Equal(x, y, case_sensitive) ==
  LET pairs(how(_, _)) ==
        /\ Len(x.kids) = Len(y.kids)
        /\ \E f \in [DOMAIN x.kids -> DOMAIN y.kids] :
             /\ IsInjective(f)
             /\ \A k \in DOMAIN f : /\ how(k, f[k])
                                    /\ Equal(x.kids[k], y.kids[f[k]], case_sensitive)
  IN  /\ x.kind = y.kind
      /\ CASE x.kind = "null" -> TRUE
           [] x.kind = "number" -> compare_double(x.value, y.value)
           [] x.kind = "string" -> x.value = y.value
           [] x.kind = "array" -> pairs(LAMBDA j, k : j = k)
           [] x.kind = "object" ->
                pairs(LAMBDA j, k : same_name(x.kids[j].name, y.kids[k].name, case_sensitive))
           [] OTHER -> FALSE

\* On objects whose names differ, cJSON_Compare is equality, though it looks
\* names up one by one and stops at the first it finds.
CompareExact ==
  \A case_sensitive \in BOOLEAN :
    Distinct(a, case_sensitive) /\ Distinct(b, case_sensitive) =>
      (cJSON_Compare(a, b, case_sensitive) <=> Equal(a, b, case_sensitive))

\* The answer does not depend on which item comes first, whatever the names.
CompareSymmetric ==
  \A case_sensitive \in BOOLEAN :
    cJSON_Compare(a, b, case_sensitive) <=> cJSON_Compare(b, a, case_sensitive)

RECURSIVE Depth(_)
Depth(x) == FoldLeft(LAMBDA d, kid : IF Depth(kid) + 1 > d THEN Depth(kid) + 1 ELSE d, 0, x.kids)

\* With memory for it, and not deeper than the limit, a copy is the item again;
\* with less, or deeper, there is none and nothing stays allocated.
DuplicateWhole ==
  \A budget \in 0..Blocks(a) :
    LET d == cJSON_Duplicate(a, TRUE, budget)
    IN  /\ d.ok <=> budget = Blocks(a) /\ Depth(a) <= CJSON_CIRCULAR_LIMIT
        /\ d.ok => d.item = a
        /\ d.m.blocks = IF d.ok THEN Blocks(a) ELSE 0
===============================================================================

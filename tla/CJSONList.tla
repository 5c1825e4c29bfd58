------------------------------ MODULE CJSONList ------------------------------
(***************************************************************************)
(* The child lists of cJSON.  The children of an item are a chain of next  *)
(* pointers from its child pointer; prev runs the other way, except that   *)
(* the first child's prev is the last child.  A member's name is a copy in *)
(* allocated memory, or the caller's own string when StringIsConst is set. *)
(* A reference shares the children of the item it was made of.             *)
(*                                                                         *)
(* The heap is a record h.  An operation of the library is an operator     *)
(* that returns [h, r], the heap it leaves and its answer; its last        *)
(* parameters are what the allocator returns.  The caller follows the      *)
(* rule of cJSON.h: it adds only items it holds, never below themselves,   *)
(* and does not change a list through a reference.                         *)
(***************************************************************************)
EXTENDS Naturals, Sequences, FiniteSets, SequencesExt

CONSTANTS Item,        \* the items that can be allocated
          Key,         \* the member names
          Lower,       \* tolower, on names
          NULL,
          Few          \* bound: the live items while there are names or references
ASSUME NullIsNothing == NULL \notin Item \cup Key
ASSUME ItemsAreFinite == IsFiniteSet(Item)
ASSUME LowerMapsKeys == Lower \in [Key -> Key]

VARIABLES heap, held, lost    \* held and lost: as in CJSONTree
vars == <<heap, held, lost>>

Zero == [child |-> NULL, next |-> NULL, prev |-> NULL,
         string |-> NULL, copied |-> FALSE,      \* copied: string is allocated
         IsReference |-> FALSE, StringIsConst |-> FALSE]

\* What deallocate must not be given: freed memory, or a caller's string.
Init == /\ heap = [live |-> {}, keys |-> 0, badfree |-> FALSE,
                   f |-> [i \in Item |-> Zero]]
        /\ held = {} /\ lost = {}

Size == Cardinality(Item)

-----------------------------------------------------------------------------
(* Reading a list.                                                         *)

\* The walk from the child pointer along next: NULL beyond the last child.
Walk(h, a) ==
  LET at[n \in 0..Size] == IF n = 0 THEN h.f[a].child
                           ELSE IF at[n - 1] = NULL THEN NULL
                           ELSE h.f[at[n - 1]].next
  IN  at

\* The k-th child from 0.
get_array_item(h, a, k) == Walk(h, a)[k]

Children(h, a) ==
  LET at == Walk(h, a)
  IN  [k \in 1..Cardinality({n \in 0..Size - 1 : at[n] # NULL}) |-> at[k - 1]]

\* Where a loop over the items of c ends that stops at the places K, NULL when
\* it runs off the end.
FirstOf(c, K) == IF K = {} THEN NULL ELSE c[CHOOSE k \in K : \A j \in K : k <= j]

\* Mutant: every search stops at a child without a name.
get_object_item_stop(h, a, name, sensitive) ==
  LET c == Children(h, a)
      name_of(i) == h.f[i].string
      stops(i) == \/ name_of(i) \in {NULL, name}
                  \/ ~sensitive /\ Lower[name_of(i)] = Lower[name]
      hit == FirstOf(c, {k \in DOMAIN c : stops(c[k])})
  IN  IF hit = NULL \/ name_of(hit) = NULL THEN NULL ELSE hit

\* The search stops at the first match; the case sensitive one also stops at
\* a child that has no name.
get_object_item(h, a, name, sensitive) ==
  LET c == Children(h, a)
      name_of(i) == h.f[i].string
      stops(i) == IF sensitive THEN name_of(i) \in {NULL, name}
                  ELSE name_of(i) # NULL /\ Lower[name_of(i)] = Lower[name]
      hit == FirstOf(c, {k \in DOMAIN c : stops(c[k])})
  IN  IF hit = NULL \/ name_of(hit) = NULL THEN NULL ELSE hit

-----------------------------------------------------------------------------
(* Memory.                                                                 *)

cJSON_New_Item(h, n) ==
  IF n = NULL THEN h ELSE [h EXCEPT !.live = @ \cup {n}, !.f[n] = Zero]

\* Mutant: a name is freed whoever owns it.
free_string_any(h, i) ==
  IF h.f[i].string = NULL THEN h
  ELSE [h EXCEPT !.keys = @ - 1, !.badfree = @ \/ ~h.f[i].copied,
                 !.f[i].string = NULL, !.f[i].copied = FALSE]

free_string(h, i) ==
  IF h.f[i].StringIsConst \/ h.f[i].string = NULL THEN h
  ELSE [h EXCEPT !.keys = @ - 1, !.badfree = @ \/ ~h.f[i].copied,
                 !.f[i].string = NULL, !.f[i].copied = FALSE]

\* cJSON_Delete frees the item, its later siblings, and what is below each of
\* them that is not a reference.
Doomed(h, i) ==
  LET near(x) == {h.f[x].next} \cup IF h.f[x].IsReference THEN {} ELSE {h.f[x].child}
      level[n \in 0..Size] ==
        IF n = 0 THEN {i} \ {NULL}
        ELSE level[n - 1] \cup ((UNION {near(x) : x \in level[n - 1]}) \ {NULL})
  IN  level[Size]

\* An item reached along two ways is freed twice.
FreedTwice(h, i) ==
  LET D == Doomed(h, i)
      ways(x) == (IF x = i THEN 1 ELSE 0)
                 + Cardinality({y \in D : h.f[y].next = x})
                 + Cardinality({y \in D : ~h.f[y].IsReference /\ h.f[y].child = x})
  IN  \E x \in D : ways(x) > 1

cJSON_Delete(h, i) ==
  LET D == Doomed(h, i)
      named == {x \in D : h.f[x].string # NULL /\ ~h.f[x].StringIsConst}
  IN  [live |-> h.live \ D, keys |-> h.keys - Cardinality(named),
       badfree |-> \/ h.badfree \/ ~(D \subseteq h.live) \/ FreedTwice(h, i)
                   \/ \E x \in named : ~h.f[x].copied,
       f |-> [x \in Item |-> IF x \in D THEN Zero ELSE h.f[x]]]

-----------------------------------------------------------------------------
(* Adding.                                                                 *)

Answer(h, r) == [h |-> h, r |-> r]

\* One pointer of one item is written.
set_child(h, x, i) == [h EXCEPT !.f[x].child = i]
set_next(h, x, i) == [h EXCEPT !.f[x].next = i]
set_prev(h, x, i) == [h EXCEPT !.f[x].prev = i]

suffix_object(h, p, i) == set_prev(set_next(h, p, i), i, p)

add_item_to_array(h, a, i) ==
  LET first == h.f[a].child
      last == h.f[first].prev
  IN  IF i = NULL \/ a = i THEN Answer(h, FALSE)
      ELSE IF first = NULL
      THEN Answer(set_next(set_prev(set_child(h, a, i), i, i), i, NULL), TRUE)
      ELSE IF last = NULL THEN Answer(h, TRUE)
      ELSE Answer(set_prev(suffix_object(h, last, i), first, i), TRUE)

\* A name is written: copied when it is allocated, constant when StringIsConst.
set_name(h, i, name, copied, constant) ==
  [h EXCEPT !.f[i] = [h.f[i] EXCEPT !.string = name, !.copied = copied,
                                    !.StringIsConst = constant]]

\* copy: cJSON_strdup of the name succeeds.
add_item_to_object(h, a, name, i, constant_key, copy) ==
  IF i = NULL \/ a = i \/ (~constant_key /\ ~copy) THEN Answer(h, FALSE)
  ELSE LET allocated == IF constant_key THEN h ELSE [h EXCEPT !.keys = @ + 1]
           unnamed == free_string(allocated, i)
       IN  add_item_to_array(set_name(unnamed, i, name, ~constant_key, constant_key), a, i)

\* Mutant: the reference claims the children as its own.
create_reference_owner(h, i, n) ==
  IF n = NULL THEN h
  ELSE [cJSON_New_Item(h, n) EXCEPT
          !.f[n] = [h.f[i] EXCEPT !.string = NULL, !.copied = FALSE,
                                  !.next = NULL, !.prev = NULL]]

create_reference(h, i, n) ==
  IF n = NULL THEN h
  ELSE [cJSON_New_Item(h, n) EXCEPT
          !.f[n] = [h.f[i] EXCEPT !.string = NULL, !.copied = FALSE,
                                  !.IsReference = TRUE,
                                  !.next = NULL, !.prev = NULL]]

\* cJSON_AddNullToObject and its eight fellows: create, add, delete on failure.
AddNewToObject(h, a, name, n, copy) ==
  LET added == add_item_to_object(cJSON_New_Item(h, n), a, name, n, FALSE, copy)
  IN  IF added.r THEN Answer(added.h, n)
      ELSE Answer(cJSON_Delete(added.h, n), NULL)

\* The loop of cJSON_CreateIntArray and its fellows has linked k items of s.
Chain(new, a, s) ==
  LET linked[k \in 0..Len(s)] ==
        IF k = 0 THEN new
        ELSE LET made == cJSON_New_Item(linked[k - 1], s[k])
             IN  IF k = 1 THEN set_child(made, a, s[k])
                 ELSE suffix_object(made, s[k - 1], s[k])
  IN  linked

\* cJSON_CreateIntArray and its fellows, of the items in s (NULL: the
\* allocator failed there).
CreateArray(h, a, s) ==
  LET new == cJSON_New_Item(h, a)
      linked == Chain(new, a, s)
      failed == {k \in 1..Len(s) : s[k] = NULL}
      stop == CHOOSE k \in failed : \A j \in failed : k <= j
  IN  IF a = NULL THEN Answer(h, NULL)
      ELSE IF failed # {} THEN Answer(cJSON_Delete(linked[stop - 1], a), NULL)
      ELSE IF s = <<>> THEN Answer(new, a)
      ELSE Answer(set_prev(linked[Len(s)], s[1], s[Len(s)]), a)

cJSON_InsertItemInArray(h, a, which, i) ==
  LET after == get_array_item(h, a, which)
      before == h.f[after].prev
      put == set_prev(set_prev(set_next(h, i, after), i, before), after, i)
  IN  IF after = NULL THEN add_item_to_array(h, a, i)
      ELSE IF after # h.f[a].child /\ before = NULL THEN Answer(h, FALSE)
      ELSE Answer(IF after = h.f[a].child THEN set_child(put, a, i)
                  ELSE set_next(put, before, i), TRUE)

-----------------------------------------------------------------------------
(* Removing and replacing.                                                 *)

\* Mutant: the first item's prev stays when the last item goes.
cJSON_DetachItemViaPointer_last(h, a, i) ==
  IF i = NULL \/ (i # h.f[a].child /\ h.f[i].prev = NULL) THEN Answer(h, NULL)
  ELSE LET first == h.f[a].child
           next == h.f[i].next
           prev == h.f[i].prev
           bypassed == IF i # first THEN set_next(h, prev, next) ELSE h
           back == IF next # NULL THEN set_prev(bypassed, next, prev) ELSE bypassed
           ends == IF i = first THEN set_child(back, a, next) ELSE back
       IN  Answer(set_next(set_prev(ends, i, NULL), i, NULL), i)

cJSON_DetachItemViaPointer(h, a, i) ==
  IF i = NULL \/ (i # h.f[a].child /\ h.f[i].prev = NULL) THEN Answer(h, NULL)
  ELSE LET first == h.f[a].child
           next == h.f[i].next
           prev == h.f[i].prev
           bypassed == IF i # first THEN set_next(h, prev, next) ELSE h
           back == IF next # NULL THEN set_prev(bypassed, next, prev) ELSE bypassed
           ends == IF i = first THEN set_child(back, a, next)
                   ELSE IF next = NULL THEN set_prev(back, first, prev)
                   ELSE back
       IN  Answer(set_next(set_prev(ends, i, NULL), i, NULL), i)

cJSON_ReplaceItemViaPointer(h, a, i, new) ==
  IF h.f[a].child = NULL \/ new = NULL \/ i = NULL THEN Answer(h, FALSE)
  ELSE IF new = i THEN Answer(h, TRUE)
  ELSE LET first == h.f[a].child
           next == h.f[i].next
           prev == h.f[i].prev
           put == set_prev(set_next(h, new, next), new, prev)
           back == IF next # NULL THEN set_prev(put, next, new) ELSE put
           only == back.f[first].prev = first
           asfirst == set_prev(set_child(back, a, new), new,
                               IF only THEN new ELSE back.f[new].prev)
           after == IF prev # NULL THEN set_next(back, prev, new) ELSE back
           aslast == IF next = NULL THEN set_prev(after, first, new) ELSE after
           linked == IF i = first THEN asfirst ELSE aslast
           alone == set_prev(set_next(linked, i, NULL), i, NULL)
       IN  Answer(cJSON_Delete(alone, i), TRUE)

replace_item_in_object(h, a, name, new, sensitive, copy) ==
  LET freed == free_string(h, new)
      named == set_name([freed EXCEPT !.keys = @ + 1], new, name, TRUE, FALSE)
  IN  IF ~copy
      THEN Answer(set_name(freed, new, NULL, FALSE, freed.f[new].StringIsConst), FALSE)
      ELSE cJSON_ReplaceItemViaPointer(named, a, get_object_item(named, a, name, sensitive),
                                       new)

-----------------------------------------------------------------------------
(* The caller.                                                             *)

Lists == {a \in heap.live : ~heap.f[a].IsReference}

\* The allocator gives one free item, which one does not matter, or fails: items
\* differ in nothing but their names.
calloc(used) == IF Item \subseteq used THEN NULL ELSE CHOOSE i \in Item : i \notin used
Fresh == {calloc(heap.live), NULL}
\* An array and its elements, of every number: one free item after another, and
\* where the allocator fails, NULL is the last.
Rows == LET free == SetToSeq(Item \ heap.live)
            row(n) == SubSeq(free, 1, n)
        IN  {row(n) : n \in 1..Len(free)} \cup {Append(row(n), NULL) : n \in 0..Len(free)}
Name == IF Cardinality(heap.live) <= Few THEN Key ELSE {}
MayAdd(a, i) == i \in held /\ (a = i \/ a \notin Doomed(heap, i))

\* The heap a call leaves, within the bounds; and what the caller makes of the
\* answer: an item that was added is no longer its own, an item that was
\* returned is.
Becomes(h) ==
  /\ heap' = h
  /\ \/ Cardinality(h.live) <= Few
     \/ lost = {} /\ \A i \in h.live :
          h.f[i].string = NULL /\ ~h.f[i].StringIsConst /\ ~h.f[i].IsReference

Gives(i, answer) ==
  /\ Becomes(answer.h)
  /\ held' = IF answer.r THEN held \ {i} ELSE held
  /\ UNCHANGED lost

Gets(answer) ==
  /\ Becomes(answer.h)
  /\ held' = held \cup ({answer.r} \ {NULL})
  /\ UNCHANGED lost

Create(n) == Gets(Answer(cJSON_New_Item(heap, n), n))

CreateXArray(a, s) == Gets(CreateArray(heap, a, s))

AddItemToArray(a, i) == MayAdd(a, i) /\ Gives(i, add_item_to_array(heap, a, i))

AddItemToObject(a, name, i, constant_key, copy) ==
  MayAdd(a, i) /\ Gives(i, add_item_to_object(heap, a, name, i, constant_key, copy))

\* The reference is made first, and only the list could find it again.
AddReference(i, n, answer) ==
  /\ Becomes(answer.h)
  /\ lost' = IF answer.r \/ n = NULL THEN lost ELSE lost \cup {n}
  /\ UNCHANGED held

AddItemReferenceToArray(a, i, n) ==
  AddReference(i, n, add_item_to_array(create_reference(heap, i, n), a, n))

AddItemReferenceToObject(a, name, i, n, copy) ==
  AddReference(i, n, add_item_to_object(create_reference(heap, i, n), a, name, n, FALSE, copy))

AddXToObject(a, name, n, copy) ==
  /\ Becomes(AddNewToObject(heap, a, name, n, copy).h)
  /\ UNCHANGED <<held, lost>>

InsertItemInArray(a, which, i) ==
  MayAdd(a, i) /\ a # i /\ Gives(i, cJSON_InsertItemInArray(heap, a, which, i))

DetachItemFromArray(a, which) ==
  Gets(cJSON_DetachItemViaPointer(heap, a, get_array_item(heap, a, which)))

DetachItemFromObject(a, name, sensitive) ==
  Gets(cJSON_DetachItemViaPointer(heap, a, get_object_item(heap, a, name, sensitive)))

\* A pointer the caller holds and that is in no list.
DetachStray(a, i) == i \in held \ {a} /\ Gets(cJSON_DetachItemViaPointer(heap, a, i))

DeleteItemFromArray(a, which) ==
  LET detached == cJSON_DetachItemViaPointer(heap, a, get_array_item(heap, a, which))
  IN  Becomes(cJSON_Delete(detached.h, detached.r)) /\ UNCHANGED <<held, lost>>

ReplaceItemInArray(a, which, new) ==
  /\ MayAdd(a, new) /\ a # new
  /\ Gives(new, cJSON_ReplaceItemViaPointer(heap, a, get_array_item(heap, a, which), new))

ReplaceItemInObject(a, name, new, sensitive, copy) ==
  /\ MayAdd(a, new) /\ a # new
  /\ Gives(new, replace_item_in_object(heap, a, name, new, sensitive, copy))

Delete(i) ==
  /\ i \in held
  /\ Becomes(cJSON_Delete(heap, i)) /\ held' = held \ {i} /\ UNCHANGED lost

Next ==
  \/ \E n \in Fresh : Create(n)
  \/ \E r \in Rows : CreateXArray(Head(r), Tail(r))
  \/ \E i \in held : Delete(i)
  \/ \E a \in Lists :
       \/ \E i \in held : AddItemToArray(a, i) \/ DetachStray(a, i)
       \/ \E i \in held, name \in Name, constant_key, copy \in BOOLEAN :
             AddItemToObject(a, name, i, constant_key, copy)
       \/ \E i \in heap.live, n \in Fresh : AddItemReferenceToArray(a, i, n)
       \/ \E i \in heap.live, n \in Fresh, name \in Name, copy \in BOOLEAN :
             AddItemReferenceToObject(a, name, i, n, copy)
       \/ \E n \in Fresh, name \in Name, copy \in BOOLEAN : AddXToObject(a, name, n, copy)
       \/ \E which \in 0..Len(Children(heap, a)) :
            \/ DetachItemFromArray(a, which) \/ DeleteItemFromArray(a, which)
            \/ \E i \in held : InsertItemInArray(a, which, i) \/ ReplaceItemInArray(a, which, i)
       \/ \E name \in Name, sensitive \in BOOLEAN :
            \/ DetachItemFromObject(a, name, sensitive)
            \/ \E i \in held, copy \in BOOLEAN :
                 ReplaceItemInObject(a, name, i, sensitive, copy)

Spec == Init /\ [][Next]_vars

-----------------------------------------------------------------------------
(* Properties.                                                             *)

\* Nothing is freed that was not allocated, and nothing twice; as many keys are
\* allocated as items that own theirs; the siblings a live item points to and the
\* first child of one that owns its children are live (cJSON_Delete,
\* add_item_to_object and replace_item_in_object decide by StringIsConst and
\* IsReference). A reference may point to children that were deleted with the
\* item that owned them.
MemoryInStep ==
  /\ ~heap.badfree
  /\ heap.keys = Cardinality({i \in heap.live : heap.f[i].string # NULL /\ heap.f[i].copied})
  /\ \A i \in heap.live : {heap.f[i].next, heap.f[i].prev} \subseteq heap.live \cup {NULL}
  /\ \A a \in Lists : heap.f[a].child \in heap.live \cup {NULL}

\* Every list is linked both ways, its first item's prev is its last item, and
\* an item in the caller's hands points nowhere.
WellLinked ==
  /\ \A a \in Lists : LET c == Children(heap, a) IN
       \A k \in DOMAIN c :
          /\ heap.f[c[k]].prev = IF k = 1 THEN c[Len(c)] ELSE c[k - 1]
          /\ heap.f[c[k]].next = IF k = Len(c) THEN NULL ELSE c[k + 1]
  /\ \A i \in held \cup lost : heap.f[i].next = NULL /\ heap.f[i].prev = NULL

\* Nothing is lost track of, and nothing is in two places: an item that exists
\* is held by the caller, or lost, or the child of exactly one list; only a
\* reference whose key could not be copied is ever lost.
OneOwner ==
  /\ \A i \in heap.live :
       LET lists == {a \in Lists : i \in ToSet(Children(heap, a))}
       IN  IF i \in held \cup lost THEN lists = {} ELSE Cardinality(lists) = 1
  /\ held \cup lost \subseteq heap.live /\ held \cap lost = {}
  /\ \A i \in lost : heap.f[i].IsReference

\* After every call, whichever allocation failed in it, the lists can be walked
\* both ways and every item can still be deleted, by one owner.
WellFormed == WellLinked /\ OneOwner

\* A lookup finds the first child of that name; the case sensitive one does
\* as long as every child has a name.
LookupsAgree ==
  \A a \in Lists, name \in Key :
    LET c == Children(heap, a)
        named(k) == heap.f[c[k]].string
        firstof(same(_)) ==
          LET K == {k \in DOMAIN c : named(k) # NULL /\ same(named(k))}
          IN  IF K = {} THEN NULL ELSE c[CHOOSE k \in K : \A j \in K : k <= j]
    IN  /\ get_object_item(heap, a, name, FALSE)
             = firstof(LAMBDA s : Lower[s] = Lower[name])
        /\ (\A k \in DOMAIN c : named(k) # NULL) =>
             get_object_item(heap, a, name, TRUE) = firstof(LAMBDA s : s = name)

\* Each call changes the children at the place it names, and nowhere else: what
\* goes in at index which is found at index which, beyond the end it is last.
PlacesExact ==
  \A a \in Lists, which \in 0..Size - 1 :
    LET c == Children(heap, a)
        inside == which < Len(c)
        kids(answer) == Children(answer.h, a)
        nth == get_array_item(heap, a, which)
    IN  /\ kids(cJSON_DetachItemViaPointer(heap, a, nth))
             = IF inside THEN RemoveAt(c, which + 1) ELSE c
        /\ \A i \in held : a \notin Doomed(heap, i) =>
             /\ kids(cJSON_InsertItemInArray(heap, a, which, i))
                  = IF inside THEN InsertAt(c, which + 1, i) ELSE Append(c, i)
             /\ kids(cJSON_ReplaceItemViaPointer(heap, a, nth, i))
                  = IF inside THEN ReplaceAt(c, which + 1, i) ELSE c

\* What get_object_item and get_array_item find, and where the calls that insert,
\* detach and replace change the list.
AnswersExact == LookupsAgree /\ PlacesExact

Tree == INSTANCE CJSONTree WITH
  kids <- [i \in heap.live |-> IF heap.f[i].IsReference THEN <<>> ELSE Children(heap, i)]

\* The pointer lists do what the tree of CJSONTree does, call by call.
IsTree == Tree!Spec
===============================================================================

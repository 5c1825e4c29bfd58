------------------------------ MODULE CJSONTree ------------------------------
(***************************************************************************)
(* What the tree operations of cJSON promise their caller: every item has  *)
(* a sequence of children, an item is either in the caller's hands or the  *)
(* child of exactly one other, and a call moves one item, or destroys one  *)
(* with everything below it.  CJSONList is shown to implement this module. *)
(***************************************************************************)
EXTENDS Naturals, Sequences, FiniteSets, SequencesExt

CONSTANT Item          \* the items that can be allocated

VARIABLES kids,        \* the children of each item that exists
          held,        \* the items the caller holds
          lost         \* the items nobody can reach any more
tvars == <<kids, held, lost>>

Exists == DOMAIN kids
\* The items that appear in a step.
New == Exists' \ Exists

\* The items below i, i included.
Below(i) ==
  LET level[n \in 0..Cardinality(Item)] ==
        IF n = 0 THEN {i}
        ELSE level[n - 1] \cup UNION {ToSet(kids[x]) : x \in level[n - 1]}
  IN  level[Cardinality(Item)]

Without(f, S) == [x \in DOMAIN f \ S |-> f[x]]

With(f, x, s) == [y \in DOMAIN f \cup {x} |-> IF y = x THEN s ELSE f[y]]

Init == kids = [x \in {} |-> <<>>] /\ held = {} /\ lost = {}

\* An item appears, in the caller's hands, with children that appear with it.
Make(i, s) ==
  /\ IsInjective(s)
  /\ held' = held \cup {i} /\ UNCHANGED lost
  /\ kids' = [y \in Exists \cup {i} \cup ToSet(s) |->
                IF y = i THEN s ELSE IF y \in Exists THEN kids[y] ELSE <<>>]

\* An item the caller holds becomes the k-th child of a.
Give(a, k, i) ==
  /\ held' = held \ {i} /\ UNCHANGED lost
  /\ kids' = [kids EXCEPT ![a] = InsertAt(@, k, i)]
  /\ a \notin Below(i)

\* A new item becomes the last child of a.
MakeLast(a, i) ==
  /\ UNCHANGED <<held, lost>>
  /\ kids' = With([kids EXCEPT ![a] = Append(@, i)], i, <<>>)

\* The k-th child of a comes back to the caller.
Take(a, k) ==
  /\ held' = held \cup {kids[a][k]} /\ UNCHANGED lost
  /\ kids' = [kids EXCEPT ![a] = RemoveAt(@, k)]

\* The k-th child of a is destroyed.
Drop(a, k) ==
  /\ UNCHANGED <<held, lost>>
  /\ kids' = Without([kids EXCEPT ![a] = RemoveAt(@, k)], Below(kids[a][k]))

\* An item the caller holds takes the place of the k-th child of a, which is
\* destroyed.
Swap(a, k, i) ==
  /\ held' = held \ {i} /\ UNCHANGED lost
  /\ kids' = Without([kids EXCEPT ![a] = ReplaceAt(@, k, i)], Below(kids[a][k]))
  /\ a \notin Below(i)

\* An item the caller holds is destroyed.
Destroy(i) ==
  /\ held' = held \ {i} /\ UNCHANGED lost
  /\ kids' = Without(kids, Below(i))

\* A reference that could not be added is lost: no one holds it.
Lose(i) ==
  /\ lost' = lost \cup {i} /\ UNCHANGED held
  /\ kids' = With(kids, i, <<>>)

Next ==
  \/ \E i \in New :
       \/ Lose(i) \/ \E a \in Exists : MakeLast(a, i)
       \/ Make(i, kids'[i])
  \/ \E a \in Exists : \E k \in 1..Len(kids[a]) : Take(a, k) \/ Drop(a, k)
  \/ \E i \in held, a \in Exists :
       \/ \E k \in 1..Len(kids[a]) + 1 : Give(a, k, i)
       \/ \E k \in 1..Len(kids[a]) : Swap(a, k, i)
  \/ \E i \in held : Destroy(i)

Spec == Init /\ [][Next]_tvars
===============================================================================

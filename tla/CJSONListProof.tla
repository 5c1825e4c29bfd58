---------------------------- MODULE CJSONListProof -----------------------------
(***************************************************************************)
(* The child lists of cJSON stay linked both ways and every item keeps one *)
(* owner, names and items are freed once and by who owns them, no item     *)
(* gets below itself, each call does to the tree of the items what         *)
(* CJSONTree says, and look-ups, insertions, removals and exchanges hit    *)
(* the item they name: for every number of items and names, and whichever  *)
(* allocation fails.                                                       *)
(***************************************************************************)
EXTENDS CJSONList, SeqLemmas, FiniteSetTheorems, Integers

Ptr == Item \cup {NULL}
Node == [child : Ptr, next : Ptr, prev : Ptr, string : Key \cup {NULL},
         copied : BOOLEAN, IsReference : BOOLEAN, StringIsConst : BOOLEAN]
Heap == [live : SUBSET Item, keys : Int, badfree : BOOLEAN, f : [Item -> Node]]

-------------------------------------------------------------------------------
(* Recursion                                                                   *)

\* A step taken again and again
Iterated(S, base, step, N) ==
  \E f \in [0..N -> S] : f[0] = base /\ \A n \in 1..N : f[n] = step[f[n-1]]

LEMMA Iterates ==
  ASSUME NEW S, NEW base \in S, NEW step \in [S -> S], NEW N \in Nat
  PROVE  Iterated(S, base, step, N)
<1> DEFINE solves(f, n) == /\ f \in [0..n -> S] /\ f[0] = base
                           /\ \A j \in 1..n : f[j] = step[f[j-1]]
           unsolved == {n \in Nat : ~ \E f : solves(f, n)}
<1>1. unsolved = {}
  <2> SUFFICES ASSUME unsolved # {} PROVE FALSE
    OBVIOUS
  <2>1. PICK m \in unsolved : \A n \in unsolved : m <= n
    <3>1. unsolved \subseteq Nat
      OBVIOUS
    <3> HIDE DEF unsolved
    <3> QED BY <3>1, MinExists
  <2>2. m \in Nat /\ ~ \E f : solves(f, m)
    OBVIOUS
  <2>3. CASE m = 0
    <3> DEFINE f == [k \in 0..0 |-> base]
    <3>1. solves(f, 0)
      OBVIOUS
    <3> HIDE DEF solves
    <3> QED BY <2>2, <2>3, <3>1
  <2>4. CASE m # 0
    <3>1. m-1 \in Nat /\ m-1 \notin unsolved
      <4> HIDE DEF unsolved
      <4>1. m-1 \in Nat /\ ~(m <= m-1)
        BY <2>2, <2>4
      <4> QED BY <4>1, <2>1
    <3>2. PICK f : solves(f, m-1)
      BY <3>1
    <3> DEFINE g == [k \in 0..m |-> IF k = m THEN step[f[m-1]] ELSE f[k]]
    <3>3. \A k \in 0..m : k # m => k \in 0..(m-1)
      BY <2>2
    <3>4. m-1 \in 0..(m-1) /\ 0 \in 0..(m-1) /\ 0 # m
      BY <3>1, <2>4
    <3>5. g \in [0..m -> S]
      BY <3>2, <3>3, <3>4
    <3>6. g[0] = base
      BY <3>2, <3>3, <3>4
    <3>7. ASSUME NEW j \in 1..m PROVE g[j] = step[g[j-1]]
      <4>1. j \in 0..m /\ j-1 \in 0..m /\ j-1 # m /\ j-1 \in 0..(m-1)
        BY <2>2
      <4>2. g[j-1] = f[j-1]
        BY <4>1
      <4>3. CASE j = m
        BY <4>1, <4>2, <4>3
      <4>4. CASE j # m
        <5>1. j \in 1..(m-1)
          BY <4>1, <4>4, <2>2
        <5> QED BY <4>1, <4>2, <4>4, <5>1, <3>2
      <4> QED BY <4>3, <4>4
    <3>8. solves(g, m)
      BY <3>5, <3>6, <3>7
    <3> HIDE DEF solves
    <3> QED BY <2>2, <3>8
  <2> QED BY <2>3, <2>4
<1>2. N \notin unsolved
  BY <1>1
<1> QED BY <1>2 DEF Iterated

LEMMA SizeType == Size \in Nat
  BY ItemsAreFinite, FS_CardinalityType DEF Size

LEMMA HeapFields ==
  ASSUME NEW h \in Heap
  PROVE  /\ h.live \subseteq Item /\ h.keys \in Int /\ h.badfree \in BOOLEAN
         /\ h.f \in [Item -> Node]
         /\ NULL \notin Item
         /\ \A x \in Item : /\ h.f[x] \in Node
                            /\ h.f[x].child \in Ptr /\ h.f[x].next \in Ptr
                            /\ h.f[x].prev \in Ptr /\ h.f[x].string \in Key \cup {NULL}
                            /\ h.f[x].copied \in BOOLEAN
                            /\ h.f[x].IsReference \in BOOLEAN
                            /\ h.f[x].StringIsConst \in BOOLEAN
  BY NullIsNothing DEF Heap, Node

\* Following a pointer again and again
LEMMA WalkUnfolds ==
  ASSUME NEW h \in Heap, NEW a \in Item
  PROVE  /\ Walk(h, a) \in [0..Size -> Ptr]
         /\ Walk(h, a)[0] = h.f[a].child
         /\ \A n \in 1..Size : Walk(h, a)[n] = IF Walk(h, a)[n-1] = NULL THEN NULL
                                               ELSE h.f[Walk(h, a)[n-1]].next
<1> DEFINE body(f, n) == IF n = 0 THEN h.f[a].child
                         ELSE IF f[n-1] = NULL THEN NULL ELSE h.f[f[n-1]].next
           step == [x \in Ptr |-> IF x = NULL THEN NULL ELSE h.f[x].next]
<1>1. Size \in Nat
  BY SizeType
<1>2. h.f[a].child \in Ptr /\ step \in [Ptr -> Ptr]
  BY HeapFields DEF Ptr
<1>3. PICK f \in [0..Size -> Ptr] :
        f[0] = h.f[a].child /\ \A n \in 1..Size : f[n] = step[f[n-1]]
  <2> HIDE DEF step
  <2>1. Iterated(Ptr, h.f[a].child, step, Size)
    BY <1>1, <1>2, Iterates, Zenon
  <2> QED BY <2>1 DEF Iterated
<1>4. ASSUME NEW n \in 0..Size PROVE f[n] = body(f, n)
  <2>1. CASE n = 0
    BY <2>1, <1>3
  <2>2. CASE n # 0
    <3>1. n \in 1..Size /\ n-1 \in 0..Size
      BY <2>2, <1>1
    <3>2. f[n-1] \in Ptr
      BY <3>1
    <3> QED BY <3>1, <3>2, <2>2, <1>3
  <2> QED BY <2>1, <2>2
<1>5. f = [n \in 0..Size |-> body(f, n)]
  <2> HIDE DEF body
  <2> QED BY <1>4
<1>6. \E g : g = [n \in 0..Size |-> body(g, n)]
  BY <1>5
<1>7. Walk(h, a) = CHOOSE g : g = [n \in 0..Size |-> body(g, n)]
  BY DEF Walk
<1> DEFINE w == Walk(h, a)
<1>8. w = [n \in 0..Size |-> body(w, n)]
  <2> HIDE DEF body
  <2> QED BY <1>6, <1>7
<1> HIDE DEF w
<1>9. DOMAIN w = 0..Size /\ \A n \in 0..Size : w[n] = body(w, n)
  <2> HIDE DEF body
  <2> QED BY <1>8
<1>10. w[0] = h.f[a].child /\ \A n \in 1..Size : w[n] = body(w, n)
  BY <1>1, <1>9
<1>11. w = f
  <2> DEFINE apart == {n \in 0..Size : w[n] # f[n]}
  <2>0. w = [n \in 0..Size |-> w[n]] /\ f = [n \in 0..Size |-> f[n]]
    <3>1. w = [n \in 0..Size |-> w[n]]
      <4> HIDE DEF body
      <4> QED BY <1>8
    <3> QED BY <3>1
  <2>1. SUFFICES ASSUME apart # {} PROVE FALSE
    <3>1. CASE apart = {}
      <4>1. \A n \in 0..Size : w[n] = f[n]
        BY <3>1
      <4>2. [n \in 0..Size |-> w[n]] = [n \in 0..Size |-> f[n]]
        BY <4>1
      <4> QED BY <2>0, <4>2
    <3> QED BY <3>1
  <2>2. PICK m \in apart : \A n \in apart : m <= n
    <3>1. apart \subseteq Nat
      BY <1>1
    <3> HIDE DEF apart
    <3> QED BY <2>1, <3>1, MinExists
  <2>3. m \in 0..Size /\ w[m] # f[m] /\ m # 0
    BY <1>3, <1>10
  <2>4. m \in 1..Size /\ m-1 \in 0..Size /\ ~(m <= m-1)
    BY <2>3, <1>1
  <2>5. w[m-1] = f[m-1]
    BY <2>2, <2>4
  <2>6. w[m] = f[m]
    BY <2>4, <2>5, <1>4, <1>10
  <2> QED BY <2>3, <2>6
<1> QED BY <1>10, <1>11 DEF w

\* What a pointer that cJSON_Delete follows from an item of S leads to is in S.
Closed(h, S) ==
  \A x \in S : /\ h.f[x].next \in S \cup {NULL}
               /\ ~h.f[x].IsReference => h.f[x].child \in S \cup {NULL}

\* What cJSON_Delete frees: the item and all that it leads to, and no more.
LEMMA DoomedProperties ==
  ASSUME NEW h \in Heap, NEW i \in Item
  PROVE  /\ Doomed(h, i) \subseteq Item /\ i \in Doomed(h, i)
         /\ Closed(h, Doomed(h, i))
         /\ \A S : i \in S /\ Closed(h, S) => Doomed(h, i) \subseteq S
<1> DEFINE near(x) == {h.f[x].next} \cup IF h.f[x].IsReference THEN {} ELSE {h.f[x].child}
           reach(T) == UNION {near(x) : x \in T}
           more(T) == T \cup (reach(T) \ {NULL})
           body(f, n) == IF n = 0 THEN {i} \ {NULL} ELSE more(f[n-1])
           step == [T \in SUBSET Item |-> more(T)]
           lvl == CHOOSE g : g = [n \in 0..Size |-> body(g, n)]
<1>1. Size \in Nat /\ NULL \notin Item
  BY SizeType, HeapFields
<1>0. ASSUME NEW T, NEW y
      PROVE  y \in more(T) <=> y \in T \/ (y # NULL /\ \E x \in T : y \in near(x))
  <2>1. y \in reach(T) <=> \E x \in T : y \in near(x)
    <3> HIDE DEF near
    <3> QED BY Zenon
  <2> HIDE DEF near, reach
  <2> QED BY <2>1
<1>2. ASSUME NEW T \in SUBSET Item PROVE more(T) \in SUBSET Item
  <2>1. \A x \in T : near(x) \subseteq Ptr
    BY HeapFields DEF Ptr
  <2> HIDE DEF near, more
  <2> QED BY <2>1, <1>0 DEF Ptr
<1>3. step \in [SUBSET Item -> SUBSET Item]
  <2> HIDE DEF more
  <2> QED BY <1>2
<1>4. {i} \ {NULL} = {i} /\ {i} \in SUBSET Item
  BY <1>1
<1>5. PICK f \in [0..Size -> SUBSET Item] :
        f[0] = {i} /\ \A n \in 1..Size : f[n] = step[f[n-1]]
  <2> HIDE DEF step, more
  <2>1. Iterated(SUBSET Item, {i}, step, Size)
    BY <1>1, <1>3, <1>4, Iterates, Zenon
  <2> QED BY <2>1 DEF Iterated
<1>6. ASSUME NEW n \in 0..Size PROVE f[n] = body(f, n)
  <2> HIDE DEF more
  <2>1. CASE n = 0
    BY <2>1, <1>4, <1>5
  <2>2. CASE n # 0
    <3>1. n \in 1..Size /\ n-1 \in 0..Size
      BY <2>2, <1>1
    <3>2. f[n-1] \in SUBSET Item
      BY <3>1
    <3> QED BY <3>1, <3>2, <2>2, <1>5
  <2> QED BY <2>1, <2>2
<1>7. \E g : g = [n \in 0..Size |-> body(g, n)]
  <2>1. f = [n \in 0..Size |-> body(f, n)]
    <3> HIDE DEF body
    <3> QED BY <1>6
  <2> QED BY <2>1
<1>8. lvl = [n \in 0..Size |-> body(lvl, n)]
  <2> HIDE DEF body
  <2> QED BY <1>7
<1>9. Doomed(h, i) = lvl[Size]
  BY Zenon DEF Doomed
<1> HIDE DEF lvl
<1>10. DOMAIN lvl = 0..Size /\ \A n \in 0..Size : lvl[n] = body(lvl, n)
  <2> HIDE DEF body
  <2> QED BY <1>8
<1>11. lvl[0] = {i} /\ \A n \in 1..Size : lvl[n] = more(lvl[n-1])
  <2> HIDE DEF more
  <2> QED BY <1>1, <1>4, <1>10
<1>12. \A n \in 0..Size : lvl[n] \in SUBSET Item
  <2> DEFINE wrong == {n \in 0..Size : lvl[n] \notin SUBSET Item}
  <2>1. SUFFICES ASSUME wrong # {} PROVE FALSE
    OBVIOUS
  <2>2. PICK m \in wrong : \A n \in wrong : m <= n
    <3>1. wrong \subseteq Nat
      BY <1>1
    <3> HIDE DEF wrong
    <3> QED BY <2>1, <3>1, MinExists
  <2>3. m \in 0..Size /\ lvl[m] \notin SUBSET Item /\ m # 0
    BY <1>4, <1>11
  <2>4. m \in 1..Size /\ m-1 \in 0..Size /\ ~(m <= m-1)
    BY <2>3, <1>1
  <2>5. lvl[m-1] \in SUBSET Item
    BY <2>2, <2>4
  <2>6. lvl[m] = more(lvl[m-1])
    BY <2>4, <1>11
  <2> HIDE DEF more, wrong
  <2> QED BY <2>3, <2>5, <2>6, <1>2
<1>13. \A n \in 1..Size : n-1 \in 0..Size /\ n \in 0..Size /\ lvl[n-1] \subseteq lvl[n]
  BY <1>1, <1>11
<1>14. ASSUME NEW T \in SUBSET Item, more(T) = T PROVE Closed(h, T)
  <2>1. ASSUME NEW x \in T PROVE near(x) \subseteq T \cup {NULL}
    <3> HIDE DEF near, more
    <3> QED BY <1>14, <1>0
  <2> QED BY <2>1 DEF Closed
<1>15. ASSUME NEW T, Closed(h, T), NULL \notin T PROVE more(T) = T
  <2>1. ASSUME NEW x \in T PROVE near(x) \subseteq T \cup {NULL}
    BY <1>15 DEF Closed
  <2>2. \A y : y \in more(T) <=> y \in T
    <3> HIDE DEF near, more
    <3> QED BY <2>1, <1>15, <1>0
  <2> HIDE DEF more
  <2> QED BY <2>2
<1> HIDE DEF more, step, body
<1>16. PICK m \in 1..Size : lvl[m] = lvl[m-1]
  <2> DEFINE small == {n \in 0..Size : Cardinality(lvl[n]) < n + 1}
  <2>0. ASSUME NEW n \in 0..Size
        PROVE  IsFiniteSet(lvl[n]) /\ Cardinality(lvl[n]) \in Nat /\ Cardinality(lvl[n]) <= Size
    <3>1. lvl[n] \in SUBSET Item
      BY <1>12
    <3> QED BY <3>1, ItemsAreFinite, FS_Subset, FS_CardinalityType DEF Size
  <2>1. small # {}
    <3>1. Size \in 0..Size /\ Cardinality(lvl[Size]) < Size + 1
      BY <2>0, <1>1
    <3> QED BY <3>1
  <2>2. PICK m \in small : \A n \in small : m <= n
    <3>1. small \subseteq Nat
      BY <1>1
    <3> HIDE DEF small
    <3> QED BY <2>1, <3>1, MinExists
  <2>3. m \in 0..Size /\ Cardinality(lvl[m]) < m + 1
    OBVIOUS
  <2>4. m # 0
    <3>1. Cardinality({i}) = 1
      BY FS_Singleton
    <3>2. CASE m = 0
      BY <3>1, <3>2, <2>3, <1>11
    <3> QED BY <3>2
  <2>5. m \in 1..Size /\ m-1 \in 0..Size /\ ~(m <= m-1)
    BY <2>3, <2>4, <1>1
  <2>6. ~(Cardinality(lvl[m-1]) < (m - 1) + 1)
    BY <2>2, <2>5
  <2>7. lvl[m-1] \subseteq lvl[m] /\ IsFiniteSet(lvl[m])
    BY <2>0, <2>3, <2>5, <1>13
  <2>8. Cardinality(lvl[m-1]) <= Cardinality(lvl[m])
    BY <2>7, FS_Subset
  <2>9. Cardinality(lvl[m-1]) \in Nat /\ Cardinality(lvl[m]) \in Nat
    BY <2>0, <2>5
  <2>10. Cardinality(lvl[m]) = Cardinality(lvl[m-1])
    BY <2>3, <2>5, <2>6, <2>8, <2>9
  <2>11. lvl[m] = lvl[m-1]
    BY <2>7, <2>10, FS_Subset
  <2> QED BY <2>5, <2>11
<1>17. lvl[Size] = lvl[m]
  <2> DEFINE moved == {n \in m..Size : lvl[n] # lvl[m]}
  <2>1. SUFFICES ASSUME moved # {} PROVE FALSE
    BY <1>1
  <2>2. PICK n \in moved : \A j \in moved : n <= j
    <3>1. moved \subseteq Nat
      BY <1>1
    <3> HIDE DEF moved
    <3> QED BY <2>1, <3>1, MinExists
  <2>3. n \in m..Size /\ lvl[n] # lvl[m] /\ n # m
    OBVIOUS
  <2>4. n \in 1..Size /\ n-1 \in m..Size /\ ~(n <= n-1)
    BY <2>3, <1>1
  <2>5. lvl[n-1] = lvl[m]
    BY <2>2, <2>4
  <2>6. lvl[n] = more(lvl[n-1]) /\ lvl[m] = more(lvl[m-1])
    BY <2>4, <1>11
  <2> QED BY <2>3, <2>5, <2>6, <1>16
<1>18. more(lvl[Size]) = lvl[Size] /\ lvl[Size] \in SUBSET Item
  BY <1>1, <1>11, <1>12, <1>16, <1>17
<1>19. Closed(h, Doomed(h, i))
  BY <1>9, <1>14, <1>18
<1>20. ASSUME NEW n \in 0..Size PROVE i \in lvl[n]
  <2> DEFINE out == {k \in 0..Size : i \notin lvl[k]}
  <2>1. SUFFICES ASSUME out # {} PROVE FALSE
    OBVIOUS
  <2>2. PICK k \in out : \A j \in out : k <= j
    <3>1. out \subseteq Nat
      BY <1>1
    <3> HIDE DEF out
    <3> QED BY <2>1, <3>1, MinExists
  <2>3. k \in 1..Size /\ k-1 \in 0..Size /\ ~(k <= k-1)
    BY <2>2, <1>1, <1>11
  <2>4. i \in lvl[k-1]
    BY <2>2, <2>3
  <2> QED BY <2>2, <2>3, <2>4, <1>13
<1>21. ASSUME NEW S, i \in S, Closed(h, S) PROVE lvl[Size] \subseteq S
  <2> DEFINE T == S \ {NULL}
             out == {k \in 0..Size : ~(lvl[k] \subseteq T)}
  <2>1. SUFFICES ASSUME out # {} PROVE FALSE
    BY <1>1
  <2>2. PICK k \in out : \A j \in out : k <= j
    <3>1. out \subseteq Nat
      BY <1>1
    <3> HIDE DEF out
    <3> QED BY <2>1, <3>1, MinExists
  <2>3. k \in 1..Size /\ k-1 \in 0..Size /\ ~(k <= k-1)
    BY <2>2, <1>1, <1>11, <1>21
  <2>4. lvl[k-1] \subseteq T
    BY <2>2, <2>3
  <2>5. Closed(h, T)
    BY <1>21 DEF Closed
  <2>6. more(T) = T
    BY <2>5, <1>15
  <2>7. more(lvl[k-1]) \subseteq more(T)
    BY <2>4 DEF more
  <2> QED BY <2>2, <2>3, <2>6, <2>7, <1>11
<1> QED BY <1>1, <1>9, <1>18, <1>19, <1>20, <1>21

-------------------------------------------------------------------------------
(* The invariant: every item that is not a root has an owner and a position    *)
(* in its owner's list, and the pointers are what the positions prescribe.     *)

ListsOf(h) == {a \in h.live : ~h.f[a].IsReference}

\* The items of a stand at the positions 1 to len[a].
Ranked(own, pos, len) ==
  /\ own \in [Item -> Ptr] /\ pos \in [Item -> Nat] /\ len \in [Item -> Nat]
  /\ \A x \in Item : own[x] # NULL => pos[x] \in 1..len[own[x]]
  /\ \A x, y \in Item : own[x] # NULL /\ own[x] = own[y] /\ pos[x] = pos[y] => x = y
  /\ \A a \in Item : \A p \in 1..len[a] : \E x \in Item : own[x] = a /\ pos[x] = p

\* The list of a from its child pointer along next
Linked(h, own, pos, len) ==
  /\ \A x \in Item : own[x] # NULL => x \in h.live /\ own[x] \in ListsOf(h)
  /\ \A a \in ListsOf(h) : len[a] = 0 => h.f[a].child = NULL
  /\ \A x \in Item : own[x] # NULL =>
       /\ pos[x] = 1 => h.f[own[x]].child = x
       /\ pos[x] = len[own[x]] => h.f[x].next = NULL
  /\ \A x, y \in Item :
       own[x] # NULL /\ own[y] = own[x] /\ pos[y] = pos[x] + 1 => h.f[x].next = y

\* The way back along prev, and from the first child to the last; of the list e
\* that is being made the first child is left out.
Backed(h, own, pos, len, e) ==
  \A x, y \in Item : own[x] # NULL /\ own[y] = own[x] =>
    /\ pos[y] = pos[x] + 1 => h.f[y].prev = x
    /\ pos[x] = 1 /\ pos[y] = len[own[x]] /\ own[x] # e => h.f[x].prev = y

\* A root points to no sibling.
Loose(h, own) == \A x \in h.live : own[x] = NULL => h.f[x].next = NULL /\ h.f[x].prev = NULL

Shaped(h, own, pos, len, e) ==
  /\ h \in Heap /\ Ranked(own, pos, len)
  /\ Linked(h, own, pos, len) /\ Backed(h, own, pos, len, e) /\ Loose(h, own)

-------------------------------------------------------------------------------
(* Reading a list                                                              *)

\* No list is longer than there are items.
LEMMA LengthBounded ==
  ASSUME NEW own, NEW pos, NEW len, Ranked(own, pos, len), NEW a \in Item
  PROVE  len[a] \in 0..Size
<1>1. len[a] \in Nat /\ Size \in Nat
  BY SizeType DEF Ranked
<1> DEFINE e == [p \in 1..len[a] |-> CHOOSE x \in Item : own[x] = a /\ pos[x] = p]
<1>2. \A p \in 1..len[a] : e[p] \in Item /\ own[e[p]] = a /\ pos[e[p]] = p
  BY DEF Ranked
<1>3. e \in [1..len[a] -> Item]
  BY <1>2
<1>4. \A p, q \in 1..len[a] : e[p] = e[q] => p = q
  BY <1>2
<1> HIDE DEF e
<1>5. e \in Injection(1..len[a], Item)
  BY <1>3, <1>4 DEF Injection, IsInjective
<1>6. Cardinality(1..len[a]) <= Size
  BY <1>5, ItemsAreFinite, FS_Injection DEF Size
<1>7. Cardinality(1..len[a]) = len[a]
  BY <1>1, FS_Interval
<1> QED BY <1>1, <1>6, <1>7

\* What the walk along next finds
LEMMA WalkSpells ==
  ASSUME NEW h \in Heap, NEW own, NEW pos, NEW len, Ranked(own, pos, len),
         Linked(h, own, pos, len), NEW a \in ListsOf(h), NEW n \in 0..Size
  PROVE  /\ n < len[a] => /\ Walk(h, a)[n] \in Item
                          /\ own[Walk(h, a)[n]] = a /\ pos[Walk(h, a)[n]] = n + 1
         /\ n >= len[a] => Walk(h, a)[n] = NULL
<1>1. a \in Item /\ Size \in Nat /\ len[a] \in Nat /\ NULL \notin Item
  BY SizeType, HeapFields DEF Ranked, ListsOf
<1>2. /\ \A k \in 0..Size : Walk(h, a)[k] \in Ptr
      /\ Walk(h, a)[0] = h.f[a].child
      /\ \A k \in 1..Size : Walk(h, a)[k] = IF Walk(h, a)[k-1] = NULL THEN NULL
                                           ELSE h.f[Walk(h, a)[k-1]].next
  BY <1>1, WalkUnfolds
<1> DEFINE w == Walk(h, a)
           Right(k) == /\ k < len[a] => w[k] \in Item /\ own[w[k]] = a /\ pos[w[k]] = k + 1
                       /\ k >= len[a] => w[k] = NULL
           wrong == {k \in 0..Size : ~Right(k)}
<1> HIDE DEF w
<1>3. SUFFICES ASSUME wrong # {} PROVE FALSE
  BY DEF w
<1>4. PICK m \in wrong : \A k \in wrong : m <= k
  <2>1. wrong \subseteq Nat
    BY <1>1
  <2> HIDE DEF wrong
  <2> QED BY <1>3, <2>1, MinExists
<1>5. m \in 0..Size /\ ~Right(m)
  OBVIOUS
<1>6. CASE m = 0
  <2>1. CASE len[a] = 0
    BY <1>1, <1>2, <1>5, <1>6, <2>1 DEF Linked, w
  <2>2. CASE len[a] # 0
    <3>1. 1 \in 1..len[a]
      BY <1>1, <2>2
    <3>2. PICK x \in Item : own[x] = a /\ pos[x] = 1
      BY <3>1, <1>1 DEF Ranked
    <3>3. h.f[a].child = x
      BY <3>2, <1>1 DEF Linked
    <3> QED BY <1>1, <1>2, <1>5, <1>6, <2>2, <3>2, <3>3 DEF w
  <2> QED BY <2>1, <2>2
<1>7. CASE m # 0
  <2>1. m \in 1..Size /\ m-1 \in 0..Size /\ ~(m <= m-1)
    BY <1>1, <1>5, <1>7
  <2>2. Right(m-1)
    <3>1. m-1 \notin wrong
      BY <1>4, <2>1
    <3> QED BY <3>1, <2>1
  <2>3. w[m] = IF w[m-1] = NULL THEN NULL ELSE h.f[w[m-1]].next
    BY <2>1, <1>2 DEF w
  <2>4. CASE m - 1 >= len[a]
    BY <2>1, <2>2, <2>3, <2>4, <1>1, <1>5
  <2>5. CASE m - 1 < len[a]
    <3>1. w[m-1] \in Item /\ own[w[m-1]] = a /\ pos[w[m-1]] = m /\ w[m-1] # NULL
      BY <2>1, <2>2, <2>5, <1>1
    <3>2. CASE m = len[a]
      <4>1. w[m] = NULL
        BY <3>1, <3>2, <2>3, <1>1 DEF Linked
      <4> QED BY <4>1, <3>2, <1>1, <1>5
    <3>3. CASE m < len[a]
      <4>1. m + 1 \in 1..len[a]
        BY <3>3, <2>1, <1>1
      <4>2. PICK y \in Item : own[y] = a /\ pos[y] = m + 1
        BY <4>1, <1>1 DEF Ranked
      <4>3. w[m] = y
        BY <4>2, <3>1, <2>3, <1>1 DEF Linked
      <4> QED BY <4>2, <4>3, <3>3, <1>1, <1>5, <2>1
    <3> QED BY <3>2, <3>3, <2>1, <2>5, <1>1
  <2> QED BY <2>4, <2>5, <2>1, <1>1
<1> QED BY <1>6, <1>7

\* The children, in the order of their positions
LEMMA ChildrenSpelled ==
  ASSUME NEW h \in Heap, NEW own, NEW pos, NEW len, Ranked(own, pos, len),
         Linked(h, own, pos, len), NEW a \in ListsOf(h)
  PROVE  /\ Children(h, a) \in Seq(Item) /\ Len(Children(h, a)) = len[a]
         /\ DOMAIN Children(h, a) = 1..len[a]
         /\ \A k \in 1..len[a] : /\ Children(h, a)[k] \in Item
                                 /\ own[Children(h, a)[k]] = a /\ pos[Children(h, a)[k]] = k
         /\ \A k \in 1..len[a] : Children(h, a)[k] = get_array_item(h, a, k - 1)
<1>1. a \in Item /\ Size \in Nat /\ len[a] \in 0..Size /\ NULL \notin Item
  BY SizeType, HeapFields, LengthBounded DEF ListsOf
<1> DEFINE w == Walk(h, a)
<1>2. ASSUME NEW n \in 0..Size
      PROVE  /\ n < len[a] => w[n] \in Item /\ own[w[n]] = a /\ pos[w[n]] = n + 1
             /\ n >= len[a] => w[n] = NULL
  BY WalkSpells
<1> HIDE DEF w
<1>3. {n \in 0..Size - 1 : w[n] # NULL} = 0..len[a] - 1
  <2>1. ASSUME NEW n \in 0..Size - 1 PROVE w[n] # NULL <=> n < len[a]
    <3>1. n \in 0..Size
      BY <1>1
    <3> QED BY <3>1, <1>1, <1>2
  <2> QED BY <2>1, <1>1
<1>4. Cardinality(0..len[a] - 1) = len[a]
  <2>1. /\ len[a] \in Nat /\ len[a] - 1 \in Int /\ 0 \in Int /\ (len[a] - 1) - 0 + 1 = len[a]
        /\ 0 > len[a] - 1 => len[a] = 0
    BY <1>1
  <2>2. Cardinality(0..len[a] - 1) = IF 0 > len[a] - 1 THEN 0 ELSE (len[a] - 1) - 0 + 1
    BY <2>1, FS_Interval
  <2> QED BY <2>1, <2>2
<1>5. Children(h, a) = [k \in 1..len[a] |-> w[k - 1]]
  BY <1>3, <1>4 DEF Children, w
<1>6. ASSUME NEW k \in 1..len[a]
      PROVE  w[k-1] \in Item /\ own[w[k-1]] = a /\ pos[w[k-1]] = k /\ Children(h, a)[k] = w[k-1]
  <2>1. k-1 \in 0..Size /\ k-1 < len[a] /\ (k-1)+1 = k
    BY <1>1
  <2> QED BY <2>1, <1>2, <1>5
<1>7. Children(h, a) \in [1..len[a] -> Item]
  BY <1>5, <1>6
<1>8. Children(h, a) \in Seq(Item) /\ Len(Children(h, a)) = len[a]
  BY <1>1, <1>7, FunctionIsSeq
<1> QED BY <1>5, <1>6, <1>8 DEF get_array_item, w

\* The child at an index, or NULL when there are not so many
LEMMA ItemAtIndex ==
  ASSUME NEW h \in Heap, NEW own, NEW pos, NEW len, Ranked(own, pos, len),
         Linked(h, own, pos, len), NEW a \in ListsOf(h), NEW which \in 0..len[a]
  PROVE  /\ which < len[a] => /\ get_array_item(h, a, which) \in Item
                              /\ own[get_array_item(h, a, which)] = a
                              /\ pos[get_array_item(h, a, which)] = which + 1
         /\ which = len[a] => get_array_item(h, a, which) = NULL
<1>1. len[a] \in 0..Size /\ which \in 0..Size /\ Size \in Nat
  <2>1. a \in Item
    BY HeapFields DEF ListsOf
  <2> QED BY <2>1, SizeType, LengthBounded
<1> QED BY <1>1, WalkSpells DEF get_array_item

\* Where the pointers of a live item lead
LEMMA PointersLead ==
  ASSUME NEW h, NEW own, NEW pos, NEW len, NEW e, Shaped(h, own, pos, len, e)
  PROVE  /\ \A x \in h.live : h.f[x].next # NULL =>
               /\ own[x] # NULL /\ h.f[x].next \in Item
               /\ own[h.f[x].next] = own[x] /\ pos[h.f[x].next] = pos[x] + 1
         /\ \A a \in ListsOf(h) : h.f[a].child # NULL =>
               h.f[a].child \in Item /\ own[h.f[a].child] = a /\ pos[h.f[a].child] = 1
         /\ \A x \in h.live : h.f[x].prev # NULL /\ own[x] # e =>
               /\ own[x] # NULL /\ h.f[x].prev \in Item /\ own[h.f[x].prev] = own[x]
               /\ \/ pos[x] = pos[h.f[x].prev] + 1
                  \/ pos[x] = 1 /\ pos[h.f[x].prev] = len[own[x]]
<1> USE DEF Shaped
<1>1. h \in Heap /\ h.live \subseteq Item /\ NULL \notin Item
  BY HeapFields
<1>2. \A x \in Item : own[x] # NULL =>
        pos[x] \in 1..len[own[x]] /\ own[x] \in Item /\ len[own[x]] \in Nat /\ own[x] \in ListsOf(h)
  BY DEF Ranked, Linked, Ptr
<1>3. ASSUME NEW x \in h.live, h.f[x].next # NULL
      PROVE  /\ own[x] # NULL /\ h.f[x].next \in Item
             /\ own[h.f[x].next] = own[x] /\ pos[h.f[x].next] = pos[x] + 1
  <2>1. own[x] # NULL /\ x \in Item
    BY <1>1, <1>3 DEF Loose
  <2>2. pos[x] # len[own[x]]
    BY <1>3, <2>1 DEF Linked
  <2>3. pos[x] + 1 \in 1..len[own[x]]
    BY <2>1, <2>2, <1>2
  <2>4. PICK y \in Item : own[y] = own[x] /\ pos[y] = pos[x] + 1
    BY <2>1, <2>3, <1>2 DEF Ranked
  <2>5. h.f[x].next = y
    BY <2>1, <2>4 DEF Linked
  <2> QED BY <2>1, <2>4, <2>5
<1>4. ASSUME NEW a \in ListsOf(h), h.f[a].child # NULL
      PROVE  h.f[a].child \in Item /\ own[h.f[a].child] = a /\ pos[h.f[a].child] = 1
  <2>1. a \in Item /\ len[a] # 0 /\ len[a] \in Nat
    BY <1>1, <1>4 DEF Linked, ListsOf, Ranked
  <2>2. 1 \in 1..len[a]
    BY <2>1
  <2>3. PICK y \in Item : own[y] = a /\ pos[y] = 1
    BY <2>1, <2>2 DEF Ranked
  <2>4. h.f[a].child = y
    BY <2>1, <2>3, <1>1 DEF Linked
  <2> QED BY <2>3, <2>4
<1>5. ASSUME NEW x \in h.live, h.f[x].prev # NULL, own[x] # e
      PROVE  /\ own[x] # NULL /\ h.f[x].prev \in Item /\ own[h.f[x].prev] = own[x]
             /\ \/ pos[x] = pos[h.f[x].prev] + 1
                \/ pos[x] = 1 /\ pos[h.f[x].prev] = len[own[x]]
  <2>1. own[x] # NULL /\ x \in Item /\ pos[x] \in 1..len[own[x]] /\ own[x] \in Item
    BY <1>1, <1>2, <1>5 DEF Loose
  <2>2. len[own[x]] \in Nat
    BY <1>2, <2>1
  <2>3. CASE pos[x] = 1
    <3>1. len[own[x]] \in 1..len[own[x]]
      BY <2>1, <2>2
    <3>2. PICK y \in Item : own[y] = own[x] /\ pos[y] = len[own[x]]
      BY <2>1, <3>1 DEF Ranked
    <3>3. h.f[x].prev = y
      BY <2>1, <2>3, <3>2, <1>5 DEF Backed
    <3> QED BY <2>1, <2>3, <3>2, <3>3
  <2>4. CASE pos[x] # 1
    <3>1. pos[x] - 1 \in 1..len[own[x]]
      BY <2>1, <2>2, <2>4
    <3>2. PICK y \in Item : own[y] = own[x] /\ pos[y] = pos[x] - 1
      BY <2>1, <3>1 DEF Ranked
    <3>3. pos[x] = pos[y] + 1
      BY <2>1, <2>2, <3>2
    <3>4. h.f[x].prev = y
      BY <2>1, <3>2, <3>3 DEF Backed
    <3> QED BY <2>1, <3>2, <3>3, <3>4
  <2> QED BY <2>3, <2>4
<1> QED BY <1>3, <1>4, <1>5

-------------------------------------------------------------------------------
(* Deleting                                                                    *)

\* Deleting a root frees what is below it, and all of what is below it.
LEMMA DoomedBelow ==
  ASSUME NEW h, NEW own, NEW pos, NEW len, NEW e, Shaped(h, own, pos, len, e),
         NEW i \in h.live, own[i] = NULL
  PROVE  /\ Doomed(h, i) \subseteq h.live /\ i \in Doomed(h, i)
         /\ \A x \in Doomed(h, i) : x # i => own[x] \in Doomed(h, i)
         /\ \A x \in Item : own[x] \in Doomed(h, i) => x \in Doomed(h, i)
<1> DEFINE D == Doomed(h, i)
<1>1. h \in Heap /\ h.live \subseteq Item /\ NULL \notin Item /\ i \in Item
  BY HeapFields DEF Shaped
<1>2. /\ D \subseteq Item /\ i \in D /\ Closed(h, D)
      /\ \A S : i \in S /\ Closed(h, S) => D \subseteq S
  BY <1>1, DoomedProperties
<1> HIDE DEF D
<1>3. /\ \A x \in h.live : h.f[x].next # NULL =>
            /\ own[x] # NULL /\ h.f[x].next \in Item
            /\ own[h.f[x].next] = own[x] /\ pos[h.f[x].next] = pos[x] + 1
      /\ \A a \in ListsOf(h) : h.f[a].child # NULL =>
            h.f[a].child \in Item /\ own[h.f[a].child] = a /\ pos[h.f[a].child] = 1
  BY PointersLead
<1>4. \A x \in Item : own[x] # NULL => x \in h.live /\ own[x] \in ListsOf(h) /\ own[x] \in Item
  BY DEF Shaped, Ranked, Linked, Ptr
<1>5. D \subseteq h.live
  <2>1. Closed(h, h.live)
    BY <1>1, <1>3, <1>4 DEF Closed, ListsOf
  <2> QED BY <2>1, <1>2
<1>6. \A x \in D : x # i => own[x] \in D
  <2> DEFINE S == {x \in D : x # i => own[x] \in D}
  <2>1. ASSUME NEW x \in S PROVE h.f[x].next \in S \cup {NULL}
    <3>1. x \in h.live /\ x \in D
      BY <1>5
    <3>2. CASE h.f[x].next = NULL
      BY <3>2
    <3>3. CASE h.f[x].next # NULL
      <4>1. own[x] # NULL /\ own[h.f[x].next] = own[x] /\ x # i
        BY <3>1, <3>3, <1>3
      <4>2. h.f[x].next \in D
        BY <3>1, <3>3, <1>2 DEF Closed
      <4> QED BY <4>1, <4>2
    <3> QED BY <3>2, <3>3
  <2>2. ASSUME NEW x \in S, ~h.f[x].IsReference PROVE h.f[x].child \in S \cup {NULL}
    <3>1. x \in h.live /\ x \in D /\ x \in ListsOf(h)
      BY <1>5, <2>2 DEF ListsOf
    <3>2. CASE h.f[x].child = NULL
      BY <3>2
    <3>3. CASE h.f[x].child # NULL
      <4>1. own[h.f[x].child] = x
        BY <3>1, <3>3, <1>3
      <4>2. h.f[x].child \in D
        BY <3>1, <3>3, <2>2, <1>2 DEF Closed
      <4> QED BY <3>1, <4>1, <4>2
    <3> QED BY <3>2, <3>3
  <2>3. Closed(h, S)
    BY <2>1, <2>2 DEF Closed
  <2>4. D \subseteq S
    BY <2>3, <1>2
  <2> QED BY <2>4
<1>7. ASSUME NEW a \in D
      PROVE  \A x \in Item : own[x] = a => x \in D
  <2> DEFINE out == {p \in Nat : \E x \in Item : own[x] = a /\ pos[x] = p /\ x \notin D}
  <2>0. \A x \in Item : pos[x] \in Nat
    BY DEF Shaped, Ranked
  <2>1. SUFFICES ASSUME out # {} PROVE FALSE
    BY <2>0
  <2>2. PICK p \in out : \A q \in out : p <= q
    <3>1. out \subseteq Nat
      OBVIOUS
    <3> HIDE DEF out
    <3> QED BY <2>1, <3>1, MinExists
  <2>3. PICK x \in Item : own[x] = a /\ pos[x] = p /\ x \notin D
    OBVIOUS
  <2>4. own[x] # NULL /\ a \in ListsOf(h) /\ a \in Item /\ ~h.f[a].IsReference
    BY <2>3, <1>1, <1>2, <1>4 DEF ListsOf
  <2>5. p \in 1..len[a] /\ len[a] \in Nat
    BY <2>3, <2>4 DEF Shaped, Ranked
  <2>6. CASE p = 1
    <3>1. h.f[a].child = x
      BY <2>3, <2>4, <2>6 DEF Shaped, Linked
    <3>2. x \in D
      BY <3>1, <2>3, <2>4, <1>1, <1>2 DEF Closed
    <3> QED BY <3>2, <2>3
  <2>7. CASE p # 1
    <3>1. p - 1 \in 1..len[a] /\ p - 1 \in Nat /\ ~(p <= p - 1) /\ p = (p - 1) + 1
      BY <2>5, <2>7
    <3>2. PICK y \in Item : own[y] = a /\ pos[y] = p - 1
      BY <2>4, <3>1 DEF Shaped, Ranked
    <3>3. y \in D
      <4>1. p - 1 \notin out
        BY <3>1, <2>2
      <4> QED BY <4>1, <3>1, <3>2
    <3>4. h.f[y].next = x
      BY <2>3, <2>4, <3>1, <3>2 DEF Shaped, Linked
    <3>5. x \in D
      BY <3>3, <3>4, <2>3, <1>1, <1>2 DEF Closed
    <3> QED BY <3>5, <2>3
  <2> QED BY <2>6, <2>7
<1> QED BY <1>2, <1>5, <1>6, <1>7 DEF D

\* No item is reached along two ways.
LEMMA FreedOnce ==
  ASSUME NEW h, NEW own, NEW pos, NEW len, NEW e, Shaped(h, own, pos, len, e),
         NEW i \in h.live, own[i] = NULL
  PROVE  ~FreedTwice(h, i)
<1> DEFINE D == Doomed(h, i)
           before(x) == {y \in D : h.f[y].next = x}
           above(x) == {y \in D : ~h.f[y].IsReference /\ h.f[y].child = x}
           ways(x) == (IF x = i THEN 1 ELSE 0) + Cardinality(before(x)) + Cardinality(above(x))
<1>1. h \in Heap /\ h.live \subseteq Item /\ NULL \notin Item /\ i \in Item
  BY HeapFields DEF Shaped
<1>2. D \subseteq h.live
  BY DoomedBelow
<1> HIDE DEF D
<1>3. /\ \A x \in h.live : h.f[x].next # NULL =>
            /\ own[x] # NULL /\ h.f[x].next \in Item
            /\ own[h.f[x].next] = own[x] /\ pos[h.f[x].next] = pos[x] + 1
      /\ \A a \in ListsOf(h) : h.f[a].child # NULL =>
            h.f[a].child \in Item /\ own[h.f[a].child] = a /\ pos[h.f[a].child] = 1
  BY PointersLead
<1>4. /\ \A x \in Item : own[x] # NULL => pos[x] \in 1..len[own[x]] /\ own[x] \in Item
      /\ \A x, y \in Item : own[x] # NULL /\ own[x] = own[y] /\ pos[x] = pos[y] => x = y
      /\ \A x \in Item : pos[x] \in Nat /\ len[x] \in Nat
  BY DEF Shaped, Ranked, Linked, Ptr, ListsOf, Heap
<1>5. Cardinality({}) = 0 /\ \A x : Cardinality({x}) = 1
  BY FS_EmptySet, FS_Singleton
<1>6. ASSUME NEW x \in D PROVE ~(ways(x) > 1)
  <2>0. x \in h.live /\ x \in Item /\ x # NULL
    BY <1>1, <1>2
  <2>1. \A y \in before(x) : y \in Item /\ own[y] # NULL /\ own[x] = own[y] /\ pos[x] = pos[y] + 1
    BY <2>0, <1>1, <1>2, <1>3
  <2>2. \A y \in above(x) : y \in Item /\ own[x] = y /\ pos[x] = 1
    BY <2>0, <1>1, <1>2, <1>3 DEF ListsOf
  <2>3. \A y, z \in before(x) : y = z
    <3> TAKE y, z \in before(x)
    <3>1. pos[y] \in Nat /\ pos[z] \in Nat /\ own[y] = own[z] /\ pos[y] = pos[z]
      BY <2>1, <1>4
    <3> QED BY <3>1, <2>1, <1>4
  <2>4. \A y, z \in above(x) : y = z
    BY <2>2
  <2>5. before(x) = {} \/ above(x) = {}
    <3>1. ASSUME NEW y \in before(x), NEW z \in above(x) PROVE FALSE
      <4>1. pos[y] \in 1..len[own[y]] /\ own[y] \in Item /\ pos[x] = pos[y] + 1 /\ pos[x] = 1
        BY <2>1, <2>2, <1>4
      <4> QED BY <4>1, <1>4
    <3> HIDE DEF before, above
    <3> QED BY <3>1
  <2>6. x = i => before(x) = {} /\ above(x) = {}
    <3>1. ASSUME x = i PROVE (\A y \in before(x) : FALSE) /\ \A y \in above(x) : FALSE
      BY <2>1, <2>2, <3>1, <1>1
    <3> HIDE DEF before, above
    <3> QED BY <3>1
  <2> HIDE DEF before, above
  <2>7. before(x) = {} \/ \E y : before(x) = {y}
    BY <2>3
  <2>8. above(x) = {} \/ \E y : above(x) = {y}
    BY <2>4
  <2>9. Cardinality(before(x)) \in {0, 1} /\ (before(x) = {} => Cardinality(before(x)) = 0)
    BY <2>7, <1>5
  <2>10. Cardinality(above(x)) \in {0, 1} /\ (above(x) = {} => Cardinality(above(x)) = 0)
    BY <2>8, <1>5
  <2> QED BY <2>5, <2>6, <2>9, <2>10
<1>7. FreedTwice(h, i) <=> \E x \in D : ways(x) > 1
  BY DEF FreedTwice, D
<1> QED BY <1>6, <1>7

\* What is left is what it was: the lists that stay keep their items.
LEMMA DeleteKeeps ==
  ASSUME NEW h, NEW own, NEW pos, NEW len, NEW e, Shaped(h, own, pos, len, e),
         NEW i \in h.live, own[i] = NULL, e = NULL \/ e \in Doomed(h, i)
  PROVE  LET D == Doomed(h, i)
         IN  Shaped(cJSON_Delete(h, i), [x \in Item |-> IF x \in D THEN NULL ELSE own[x]], pos,
                    [x \in Item |-> IF x \in D THEN 0 ELSE len[x]], NULL)
<1> DEFINE D == Doomed(h, i)
           own2 == [x \in Item |-> IF x \in D THEN NULL ELSE own[x]]
           len2 == [x \in Item |-> IF x \in D THEN 0 ELSE len[x]]
           h2 == cJSON_Delete(h, i)
<1>1. h \in Heap /\ h.live \subseteq Item /\ NULL \notin Item /\ i \in Item
  BY HeapFields DEF Shaped
<1>2. D \subseteq h.live /\ i \in D
  BY DoomedBelow
<1>3. \A x \in D : x # i => own[x] \in D
  BY DoomedBelow
<1>4. \A x \in Item : own[x] \in D => x \in D
  BY DoomedBelow
<1>5. /\ h2.live = h.live \ D
      /\ \A x \in Item : h2.f[x] = IF x \in D THEN Zero ELSE h.f[x]
  BY DEF cJSON_Delete
<1>6. h2 \in Heap
  <2> DEFINE named == {x \in D : h.f[x].string # NULL /\ ~h.f[x].StringIsConst}
  <2>1. IsFiniteSet(named)
    <3>1. named \subseteq Item
      BY <1>1, <1>2
    <3> HIDE DEF named
    <3> QED BY <3>1, ItemsAreFinite, FS_Subset
  <2>2. Cardinality(named) \in Nat
    <3> HIDE DEF named
    <3> QED BY <2>1, FS_CardinalityType
  <2>3. h.keys - Cardinality(named) \in Int
    <3> HIDE DEF named
    <3> QED BY <2>2, <1>1, HeapFields
  <2>4. Zero \in Node
    BY DEF Zero, Node, Ptr
  <2>5. [x \in Item |-> IF x \in D THEN Zero ELSE h.f[x]] \in [Item -> Node]
    <3> HIDE DEF D
    <3> QED BY <2>4, <1>1, HeapFields
  <2>6. h.live \ D \in SUBSET Item
    BY <1>1
  <2>7. /\ h2.live = h.live \ D /\ h2.keys = h.keys - Cardinality(named)
        /\ h2.f = [x \in Item |-> IF x \in D THEN Zero ELSE h.f[x]]
        /\ h2.badfree \in BOOLEAN
        /\ h2 = [live |-> h2.live, keys |-> h2.keys, badfree |-> h2.badfree, f |-> h2.f]
    BY DEF cJSON_Delete
  <2> HIDE DEF D, named, h2
  <2> QED BY <2>3, <2>5, <2>6, <2>7 DEF Heap
<1> HIDE DEF D, h2
<1>7. Ranked(own2, pos, len2)
  <2>1. own2 \in [Item -> Ptr] /\ pos \in [Item -> Nat] /\ len2 \in [Item -> Nat]
    BY DEF Shaped, Ranked, Ptr
  <2>2. \A x \in Item : own2[x] # NULL => pos[x] \in 1..len2[own2[x]]
    BY <1>1, <1>4 DEF Shaped, Ranked, Ptr
  <2>3. \A x, y \in Item : own2[x] # NULL /\ own2[x] = own2[y] /\ pos[x] = pos[y] => x = y
    BY DEF Shaped, Ranked
  <2>4. ASSUME NEW a \in Item, NEW p \in 1..len2[a] PROVE \E x \in Item : own2[x] = a /\ pos[x] = p
    <3>1. a \notin D /\ p \in 1..len[a]
      OBVIOUS
    <3>2. PICK x \in Item : own[x] = a /\ pos[x] = p
      BY <3>1 DEF Shaped, Ranked
    <3>3. x \notin D
      BY <3>1, <3>2, <1>3, <1>1
    <3> QED BY <3>2, <3>3
  <2> QED BY <2>1, <2>2, <2>3, <2>4 DEF Ranked
<1>8. \A a : a \in ListsOf(h2) <=> a \in ListsOf(h) /\ a \notin D
  BY <1>1, <1>5 DEF ListsOf
<1>9. Linked(h2, own2, pos, len2)
  <2>1. \A x \in Item : own2[x] # NULL => x \in h2.live /\ own2[x] \in ListsOf(h2)
    BY <1>4, <1>5, <1>8 DEF Shaped, Linked
  <2>2. \A a \in ListsOf(h2) : len2[a] = 0 => h2.f[a].child = NULL
    BY <1>1, <1>5, <1>8 DEF Shaped, Linked, ListsOf
  <2>3. \A x \in Item : own2[x] # NULL =>
          /\ own[x] = own2[x] /\ own2[x] \in Item /\ own2[x] \notin D
          /\ len2[own2[x]] = len[own[x]] /\ h2.f[x] = h.f[x] /\ h2.f[own2[x]] = h.f[own[x]]
    BY <1>1, <1>4, <1>5 DEF Shaped, Ranked, Ptr
  <2>4. \A x \in Item : own2[x] # NULL =>
          /\ pos[x] = 1 => h2.f[own2[x]].child = x
          /\ pos[x] = len2[own2[x]] => h2.f[x].next = NULL
    BY <2>3 DEF Shaped, Linked
  <2>5. ASSUME NEW x \in Item, NEW y \in Item,
               own2[x] # NULL, own2[y] = own2[x], pos[y] = pos[x] + 1
        PROVE  h2.f[x].next = y
    <3>1. own[x] # NULL /\ own[y] = own[x] /\ h2.f[x] = h.f[x]
      <4> HIDE DEF own2, len2
      <4> QED BY <2>3, <2>5
    <3> QED BY <3>1, <2>5 DEF Shaped, Linked
  <2> QED BY <2>1, <2>2, <2>4, <2>5 DEF Linked
<1>10. Backed(h2, own2, pos, len2, NULL)
  <2>1. \A x \in Item : own2[x] # NULL =>
          /\ own[x] = own2[x] /\ own[x] # e
          /\ len2[own2[x]] = len[own[x]] /\ h2.f[x] = h.f[x]
    BY <1>1, <1>4, <1>5 DEF Shaped, Ranked, Ptr, D
  <2> QED BY <2>1 DEF Shaped, Backed
<1>11. Loose(h2, own2)
  BY <1>1, <1>5 DEF Shaped, Loose
<1> QED BY <1>6, <1>7, <1>9, <1>10, <1>11 DEF Shaped, D, h2

-------------------------------------------------------------------------------
(* Putting an item into a list and taking it out again                         *)

\* i becomes the item at position p of a.
PutPos(own, pos, a, i, p) ==
  [x \in Item |-> IF x = i THEN p
                  ELSE IF own[x] = a /\ pos[x] >= p THEN pos[x] + 1 ELSE pos[x]]

LEMMA RankedPut ==
  ASSUME NEW own, NEW pos, NEW len, Ranked(own, pos, len), NULL \notin Item,
         NEW a \in Item, NEW i \in Item, own[i] = NULL, NEW p \in 1..len[a] + 1
  PROVE  Ranked([own EXCEPT ![i] = a], PutPos(own, pos, a, i, p), [len EXCEPT ![a] = @ + 1])
<1> DEFINE own2 == [own EXCEPT ![i] = a]
           pos2 == PutPos(own, pos, a, i, p)
           len2 == [len EXCEPT ![a] = @ + 1]
<1>1. /\ own \in [Item -> Ptr] /\ pos \in [Item -> Nat] /\ len \in [Item -> Nat]
      /\ \A x \in Item : own[x] # NULL => pos[x] \in 1..len[own[x]] /\ own[x] \in Item
      /\ \A x, y \in Item : own[x] # NULL /\ own[x] = own[y] /\ pos[x] = pos[y] => x = y
      /\ \A b \in Item : \A q \in 1..len[b] : \E x \in Item : own[x] = b /\ pos[x] = q
      /\ a # NULL /\ p \in Nat /\ p >= 1 /\ p <= len[a] + 1
  BY DEF Ranked, Ptr
<1>2. own2 \in [Item -> Ptr] /\ pos2 \in [Item -> Nat] /\ len2 \in [Item -> Nat]
  BY <1>1 DEF PutPos, Ptr
<1>3. /\ own2[i] = a /\ pos2[i] = p /\ len2[a] = len[a] + 1
      /\ \A x \in Item : x # i => own2[x] = own[x]
      /\ \A x \in Item : x # i => pos2[x] = IF own[x] = a /\ pos[x] >= p THEN pos[x] + 1 ELSE pos[x]
      /\ \A b \in Item : b # a => len2[b] = len[b]
  BY <1>1 DEF PutPos
<1> HIDE DEF own2, pos2, len2
<1>4. ASSUME NEW x \in Item, own2[x] # NULL PROVE pos2[x] \in 1..len2[own2[x]]
  <2>1. CASE x = i
    BY <2>1, <1>1, <1>3
  <2>2. CASE x # i
    <3>1. own[x] # NULL /\ own[x] \in Item /\ pos[x] \in 1..len[own[x]] /\ len[own[x]] \in Nat
      BY <2>2, <1>1, <1>3, <1>4
    <3> QED BY <3>1, <2>2, <1>1, <1>3
  <2> QED BY <2>1, <2>2
<1>5. ASSUME NEW x \in Item, NEW y \in Item, own2[x] # NULL, own2[x] = own2[y], pos2[x] = pos2[y]
      PROVE  x = y
  <2>1. pos[x] \in Nat /\ pos[y] \in Nat
    BY <1>1
  <2>2. CASE x # i /\ y # i
    <3>1. own[x] # NULL /\ own[x] = own[y]
      BY <2>2, <1>3, <1>5
    <3>2. pos[x] = pos[y]
      BY <2>1, <2>2, <3>1, <1>1, <1>3, <1>5
    <3> QED BY <3>1, <3>2, <1>1
  <2>3. CASE x = i /\ y # i
    BY <2>1, <2>3, <1>1, <1>3, <1>5
  <2>4. CASE x # i /\ y = i
    BY <2>1, <2>4, <1>1, <1>3, <1>5
  <2> QED BY <2>2, <2>3, <2>4
<1>6. ASSUME NEW b \in Item, NEW q \in 1..len2[b] PROVE \E x \in Item : own2[x] = b /\ pos2[x] = q
  <2>1. len[b] \in Nat /\ len[a] \in Nat /\ q \in Nat
    BY <1>1, <1>2
  <2>2. CASE b # a
    <3>1. PICK x \in Item : own[x] = b /\ pos[x] = q
      BY <2>2, <1>1, <1>3
    <3>2. x # i
      BY <3>1, <1>1
    <3> QED BY <3>1, <3>2, <2>2, <1>3
  <2>3. CASE b = a /\ q = p
    BY <2>3, <1>3
  <2>4. CASE b = a /\ q < p
    <3>1. q \in 1..len[a]
      BY <2>1, <2>4, <1>1
    <3>2. PICK x \in Item : own[x] = a /\ pos[x] = q
      BY <3>1, <1>1
    <3>3. x # i
      BY <3>2, <1>1
    <3> QED BY <3>2, <3>3, <2>1, <2>4, <1>1, <1>3
  <2>5. CASE b = a /\ q > p
    <3>1. q - 1 \in 1..len[a] /\ q - 1 \in Nat /\ q - 1 >= p /\ (q - 1) + 1 = q
      BY <2>1, <2>5, <1>1, <1>3
    <3>2. PICK x \in Item : own[x] = a /\ pos[x] = q - 1
      BY <3>1, <1>1
    <3>3. x # i
      BY <3>2, <1>1
    <3>4. own2[x] = a /\ pos2[x] = q
      BY <3>1, <3>2, <3>3, <1>1, <1>3
    <3> QED BY <3>4, <2>5
  <2> QED BY <2>1, <2>2, <2>3, <2>4, <2>5, <1>1
<1> QED BY <1>2, <1>4, <1>5, <1>6 DEF Ranked, own2, pos2, len2

\* The pointers around position p of a, where i is put
PutPointers(h, h2, own, pos, len, a, i, p) ==
  /\ h2 \in Heap /\ h2.live = h.live
  /\ \A x \in Item : h2.f[x].IsReference = h.f[x].IsReference
  /\ \A x \in Item : x # a => h2.f[x].child = h.f[x].child
  /\ h2.f[a].child = IF p = 1 THEN i ELSE h.f[a].child
  /\ \A x \in Item : x # i =>
       h2.f[x].next = IF own[x] = a /\ pos[x] + 1 = p THEN i ELSE h.f[x].next
  /\ p = len[a] + 1 => h2.f[i].next = NULL
  /\ \A x \in Item : own[x] = a /\ pos[x] = p => h2.f[i].next = x
  /\ \A x \in Item : x # i =>
       h2.f[x].prev = IF own[x] = a /\ (pos[x] = p \/ (pos[x] = 1 /\ p = len[a] + 1)) THEN i
                      ELSE h.f[x].prev
  /\ len[a] = 0 => h2.f[i].prev = i
  /\ \A x \in Item : own[x] = a /\ (pos[x] + 1 = p \/ (p = 1 /\ pos[x] = len[a])) =>
       h2.f[i].prev = x

LEMMA PutShapes ==
  ASSUME NEW h, NEW own, NEW pos, NEW len, Shaped(h, own, pos, len, NULL),
         NEW a \in ListsOf(h), NEW i \in h.live, own[i] = NULL, NEW p \in 1..len[a] + 1,
         NEW h2, PutPointers(h, h2, own, pos, len, a, i, p)
  PROVE  Shaped(h2, [own EXCEPT ![i] = a], PutPos(own, pos, a, i, p), [len EXCEPT ![a] = @ + 1],
                NULL)
<1> DEFINE own2 == [own EXCEPT ![i] = a]
           pos2 == PutPos(own, pos, a, i, p)
           len2 == [len EXCEPT ![a] = @ + 1]
<1>0. h \in Heap /\ h.live \subseteq Item /\ NULL \notin Item /\ i \in Item /\ a \in Item /\ a # NULL
  BY HeapFields DEF Shaped, ListsOf
<1>1. /\ own \in [Item -> Ptr] /\ pos \in [Item -> Nat] /\ len \in [Item -> Nat]
      /\ \A x \in Item : own[x] # NULL =>
           /\ pos[x] \in Nat /\ len[own[x]] \in Nat /\ own[x] \in Item
           /\ pos[x] >= 1 /\ pos[x] <= len[own[x]]
      /\ \A x, y \in Item : own[x] # NULL /\ own[x] = own[y] /\ pos[x] = pos[y] => x = y
      /\ p \in Nat /\ p >= 1 /\ p <= len[a] + 1 /\ len[a] \in Nat
  BY <1>0 DEF Shaped, Ranked, Ptr
<1>2. Ranked(own2, pos2, len2)
  BY <1>0, RankedPut DEF Shaped
<1>3. /\ own2[i] = a /\ pos2[i] = p /\ len2[a] = len[a] + 1
      /\ \A x \in Item : x # i => own2[x] = own[x]
      /\ \A x \in Item : x # i => pos2[x] = IF own[x] = a /\ pos[x] >= p THEN pos[x] + 1 ELSE pos[x]
      /\ \A b \in Item : b # a => len2[b] = len[b]
  BY <1>0, <1>1 DEF PutPos
<1> HIDE DEF own2, pos2, len2
<1>4. /\ \A x \in Item : own[x] # NULL => x \in h.live /\ own[x] \in ListsOf(h)
      /\ \A b \in ListsOf(h) : len[b] = 0 => h.f[b].child = NULL
      /\ \A x \in Item : own[x] # NULL =>
           /\ pos[x] = 1 => h.f[own[x]].child = x
           /\ pos[x] = len[own[x]] => h.f[x].next = NULL
      /\ \A x, y \in Item :
           own[x] # NULL /\ own[y] = own[x] /\ pos[y] = pos[x] + 1 => h.f[x].next = y
  BY DEF Shaped, Linked
<1>5. \A x, y \in Item : own[x] # NULL /\ own[y] = own[x] =>
        /\ pos[y] = pos[x] + 1 => h.f[y].prev = x
        /\ pos[x] = 1 /\ pos[y] = len[own[x]] => h.f[x].prev = y
  BY DEF Shaped, Backed
<1>6. \A b : b \in ListsOf(h2) <=> b \in ListsOf(h)
  BY <1>0 DEF ListsOf, PutPointers
<1>7. Linked(h2, own2, pos2, len2)
  <2>1. \A x \in Item : own2[x] # NULL => x \in h2.live /\ own2[x] \in ListsOf(h2)
    BY <1>3, <1>4, <1>6 DEF PutPointers
  <2>2. ASSUME NEW b \in ListsOf(h2), len2[b] = 0 PROVE h2.f[b].child = NULL
    <3>1. b \in ListsOf(h) /\ b # a /\ b \in Item
      BY <2>2, <1>0, <1>1, <1>3, <1>6 DEF ListsOf
    <3> QED BY <3>1, <2>2, <1>3, <1>4 DEF PutPointers
  <2>3. ASSUME NEW x \in Item, own2[x] # NULL, pos2[x] = 1 PROVE h2.f[own2[x]].child = x
    <3>1. CASE x = i
      BY <3>1, <2>3, <1>3 DEF PutPointers
    <3>2. CASE x # i
      <4>1. own[x] # NULL /\ own2[x] = own[x] /\ own[x] \in Item
        BY <3>2, <2>3, <1>1, <1>3
      <4>2. CASE own[x] = a
        BY <4>1, <4>2, <3>2, <2>3, <1>1, <1>3, <1>4 DEF PutPointers
      <4>3. CASE own[x] # a
        BY <4>1, <4>3, <3>2, <2>3, <1>1, <1>3, <1>4 DEF PutPointers
      <4> QED BY <4>2, <4>3
    <3> QED BY <3>1, <3>2
  <2>4. ASSUME NEW x \in Item, own2[x] # NULL, pos2[x] = len2[own2[x]] PROVE h2.f[x].next = NULL
    <3>1. CASE x = i
      BY <3>1, <2>4, <1>1, <1>3 DEF PutPointers
    <3>2. CASE x # i
      <4>1. own[x] # NULL /\ own2[x] = own[x] /\ own[x] \in Item
        BY <3>2, <2>4, <1>1, <1>3
      <4>2. CASE own[x] = a
        <5>1. pos[x] >= p /\ pos[x] = len[a]
          BY <4>1, <4>2, <3>2, <2>4, <1>1, <1>3
        <5>2. ~(pos[x] + 1 = p)
          BY <5>1, <4>1, <1>1
        <5> QED BY <5>1, <5>2, <4>1, <4>2, <3>2, <1>4 DEF PutPointers
      <4>3. CASE own[x] # a
        BY <4>1, <4>3, <3>2, <2>4, <1>1, <1>3, <1>4 DEF PutPointers
      <4> QED BY <4>2, <4>3
    <3> QED BY <3>1, <3>2
  <2>5. ASSUME NEW x \in Item, NEW y \in Item,
               own2[x] # NULL, own2[y] = own2[x], pos2[y] = pos2[x] + 1
        PROVE  h2.f[x].next = y
    <3>1. CASE x = i
      <4>1. y # i /\ own[y] = a /\ pos[y] = p
        BY <3>1, <2>5, <1>0, <1>1, <1>3
      <4> QED BY <4>1, <3>1 DEF PutPointers
    <3>2. CASE x # i /\ y = i
      <4>1. own[x] = a /\ pos[x] + 1 = p
        BY <3>2, <2>5, <1>0, <1>1, <1>3
      <4> QED BY <4>1, <3>2 DEF PutPointers
    <3>3. CASE x # i /\ y # i
      <4>1. own[x] # NULL /\ own[y] = own[x]
        BY <3>3, <2>5, <1>3
      <4>2. pos[y] = pos[x] + 1 /\ ~(own[x] = a /\ pos[x] + 1 = p)
        BY <4>1, <3>3, <2>5, <1>1, <1>3
      <4> QED BY <4>1, <4>2, <3>3, <1>4 DEF PutPointers
    <3> QED BY <3>1, <3>2, <3>3
  <2> QED BY <2>1, <2>2, <2>3, <2>4, <2>5 DEF Linked
<1>8. Backed(h2, own2, pos2, len2, NULL)
  <2>1. ASSUME NEW x \in Item, NEW y \in Item,
               own2[x] # NULL, own2[y] = own2[x], pos2[y] = pos2[x] + 1
        PROVE  h2.f[y].prev = x
    <3>1. CASE x = i
      <4>1. y # i /\ own[y] = a /\ pos[y] = p
        BY <3>1, <2>1, <1>0, <1>1, <1>3
      <4> QED BY <4>1, <3>1 DEF PutPointers
    <3>2. CASE x # i /\ y = i
      <4>1. own[x] = a /\ pos[x] + 1 = p
        BY <3>2, <2>1, <1>0, <1>1, <1>3
      <4> QED BY <4>1, <3>2 DEF PutPointers
    <3>3. CASE x # i /\ y # i
      <4>1. own[x] # NULL /\ own[y] = own[x]
        BY <3>3, <2>1, <1>3
      <4>2. pos[y] = pos[x] + 1 /\ ~(own[x] = a /\ pos[x] + 1 = p)
        BY <4>1, <3>3, <2>1, <1>1, <1>3
      <4>3. pos[x] >= 1 /\ pos[x] \in Nat /\ pos[y] # 1
        BY <4>1, <4>2, <1>1
      <4> QED BY <4>1, <4>2, <4>3, <3>3, <1>5 DEF PutPointers
    <3> QED BY <3>1, <3>2, <3>3
  <2>2. ASSUME NEW x \in Item, NEW y \in Item,
               own2[x] # NULL, own2[y] = own2[x], pos2[x] = 1, pos2[y] = len2[own2[x]]
        PROVE  h2.f[x].prev = y
    <3>1. CASE x = i /\ y = i
      <4>1. len[a] = 0
        BY <3>1, <2>2, <1>1, <1>3
      <4> QED BY <4>1, <3>1 DEF PutPointers
    <3>2. CASE x = i /\ y # i
      <4>1. own[y] = a /\ p = 1 /\ pos[y] = len[a]
        BY <3>2, <2>2, <1>0, <1>1, <1>3
      <4> QED BY <4>1, <3>2 DEF PutPointers
    <3>3. CASE x # i /\ y = i
      <4>1. own[x] = a /\ p = len[a] + 1 /\ pos[x] = 1
        BY <3>3, <2>2, <1>0, <1>1, <1>3
      <4> QED BY <4>1, <3>3 DEF PutPointers
    <3>4. CASE x # i /\ y # i
      <4>1. own[x] # NULL /\ own[y] = own[x] /\ own[x] \in Item
        BY <3>4, <2>2, <1>1, <1>3
      <4>2. CASE own[x] = a
        <5>1. pos[x] = 1 /\ p # 1 /\ pos[y] = len[a] /\ pos[y] >= p
          BY <4>1, <4>2, <3>4, <2>2, <1>1, <1>3
        <5>2. pos[x] # p /\ p # len[a] + 1
          BY <5>1, <1>1
        <5> QED BY <4>1, <4>2, <5>1, <5>2, <3>4, <1>5 DEF PutPointers
      <4>3. CASE own[x] # a
        <5>1. pos[x] = 1 /\ pos[y] = len[own[x]]
          BY <4>1, <4>3, <3>4, <2>2, <1>1, <1>3
        <5> QED BY <4>1, <4>3, <5>1, <3>4, <1>5 DEF PutPointers
      <4> QED BY <4>2, <4>3
    <3> QED BY <3>1, <3>2, <3>3, <3>4
  <2> QED BY <2>1, <2>2 DEF Backed
<1>9. Loose(h2, own2)
  <2>1. ASSUME NEW x \in h2.live, own2[x] = NULL PROVE h2.f[x].next = NULL /\ h2.f[x].prev = NULL
    <3>1. x \in h.live /\ x \in Item /\ x # i /\ own[x] = NULL
      BY <2>1, <1>0, <1>3 DEF PutPointers
    <3>2. h.f[x].next = NULL /\ h.f[x].prev = NULL
      BY <3>1 DEF Shaped, Loose
    <3> QED BY <3>1, <3>2, <1>0 DEF PutPointers
  <2> QED BY <2>1 DEF Loose
<1>10. h2 \in Heap
  BY DEF PutPointers
<1> QED BY <1>2, <1>7, <1>8, <1>9, <1>10 DEF Shaped, own2, pos2, len2

\* i leaves its list.
CutPos(own, pos, i) ==
  [x \in Item |-> IF own[x] = own[i] /\ pos[x] > pos[i] THEN pos[x] - 1 ELSE pos[x]]

LEMMA RankedCut ==
  ASSUME NEW own, NEW pos, NEW len, Ranked(own, pos, len), NULL \notin Item,
         NEW a \in Item, NEW i \in Item, own[i] = a
  PROVE  Ranked([own EXCEPT ![i] = NULL], CutPos(own, pos, i), [len EXCEPT ![a] = @ - 1])
<1> DEFINE own2 == [own EXCEPT ![i] = NULL]
           pos2 == CutPos(own, pos, i)
           len2 == [len EXCEPT ![a] = @ - 1]
<1>1. /\ own \in [Item -> Ptr] /\ pos \in [Item -> Nat] /\ len \in [Item -> Nat]
      /\ \A x \in Item : own[x] # NULL =>
           /\ pos[x] \in Nat /\ len[own[x]] \in Nat /\ own[x] \in Item
           /\ pos[x] >= 1 /\ pos[x] <= len[own[x]]
      /\ \A x, y \in Item : own[x] # NULL /\ own[x] = own[y] /\ pos[x] = pos[y] => x = y
      /\ \A b \in Item : \A q \in 1..len[b] : \E x \in Item : own[x] = b /\ pos[x] = q
      /\ a # NULL
  BY DEF Ranked, Ptr
<1>2. own2 \in [Item -> Ptr] /\ pos2 \in [Item -> Nat] /\ len2 \in [Item -> Nat]
  <2>1. \A x \in Item : pos[x] > pos[i] => pos[x] - 1 \in Nat
    BY <1>1
  <2>2. len[a] - 1 \in Nat
    BY <1>1
  <2> QED BY <1>1, <2>1, <2>2 DEF CutPos, Ptr
<1>3. /\ own2[i] = NULL /\ len2[a] = len[a] - 1
      /\ \A x \in Item : x # i => own2[x] = own[x]
      /\ \A x \in Item : pos2[x] = IF own[x] = a /\ pos[x] > pos[i] THEN pos[x] - 1 ELSE pos[x]
      /\ \A b \in Item : b # a => len2[b] = len[b]
  BY <1>1 DEF CutPos
<1> HIDE DEF own2, pos2, len2
<1>4. ASSUME NEW x \in Item, own2[x] # NULL PROVE pos2[x] \in 1..len2[own2[x]]
  <2>1. x # i /\ own2[x] = own[x] /\ own[x] # NULL
    BY <1>3, <1>4
  <2>2. own[x] = a => pos[x] # pos[i]
    BY <2>1, <1>1
  <2> QED BY <2>1, <2>2, <1>1, <1>3
<1>5. ASSUME NEW x \in Item, NEW y \in Item, own2[x] # NULL, own2[x] = own2[y], pos2[x] = pos2[y]
      PROVE  x = y
  <2>1. x # i /\ y # i /\ own[x] # NULL /\ own[x] = own[y]
    BY <1>3, <1>5
  <2>2. own[x] = a => pos[x] # pos[i] /\ pos[y] # pos[i]
    <3>1. \A z \in Item : own[z] # NULL /\ own[z] = own[i] /\ pos[z] = pos[i] => z = i
      BY <1>1
    <3> QED BY <2>1, <3>1
  <2>3. pos[x] \in Nat /\ pos[y] \in Nat /\ pos[i] \in Nat
    BY <1>1
  <2>4. CASE own[x] = a
    <3>1. pos[x] = pos[y]
      BY <2>1, <2>2, <2>3, <2>4, <1>3, <1>5
    <3> QED BY <2>1, <3>1, <1>1
  <2>5. CASE own[x] # a
    <3>1. pos[x] = pos[y]
      BY <2>1, <2>5, <1>3, <1>5
    <3> QED BY <2>1, <3>1, <1>1
  <2> QED BY <2>4, <2>5
<1>6. ASSUME NEW b \in Item, NEW q \in 1..len2[b] PROVE \E x \in Item : own2[x] = b /\ pos2[x] = q
  <2>1. len[b] \in Nat /\ len[a] \in Nat /\ q \in Nat /\ pos[i] \in Nat /\ pos[i] >= 1
    BY <1>1, <1>2
  <2>2. CASE b # a
    <3>1. PICK x \in Item : own[x] = b /\ pos[x] = q
      BY <2>2, <1>1, <1>3
    <3>2. x # i
      BY <3>1, <2>2
    <3> QED BY <3>1, <3>2, <2>2, <1>3
  <2>3. CASE b = a /\ q < pos[i]
    <3>1. q \in 1..len[a]
      BY <2>1, <2>3, <1>1, <1>3
    <3>2. PICK x \in Item : own[x] = a /\ pos[x] = q
      BY <3>1, <1>1
    <3>3. x # i
      BY <3>2, <2>3, <2>1
    <3> QED BY <3>2, <3>3, <2>1, <2>3, <1>1, <1>3
  <2>4. CASE b = a /\ q >= pos[i]
    <3>1. q + 1 \in 1..len[a] /\ q + 1 > pos[i] /\ (q + 1) - 1 = q
      BY <2>1, <2>4, <1>1, <1>3
    <3>2. PICK x \in Item : own[x] = a /\ pos[x] = q + 1
      BY <3>1, <1>1
    <3>3. x # i
      BY <3>1, <3>2, <2>1
    <3>4. own2[x] = a /\ pos2[x] = q
      BY <3>1, <3>2, <3>3, <2>1, <1>1, <1>3
    <3> QED BY <3>4, <2>4
  <2> QED BY <2>1, <2>2, <2>3, <2>4
<1> QED BY <1>2, <1>4, <1>5, <1>6 DEF Ranked, own2, pos2, len2

\* The pointers around i, which leaves the list of a
CutPointers(h, h2, own, pos, len, a, i) ==
  /\ h2 \in Heap /\ h2.live = h.live
  /\ \A x \in Item : h2.f[x].IsReference = h.f[x].IsReference
  /\ \A x \in Item : x # a => h2.f[x].child = h.f[x].child
  /\ h2.f[a].child = IF pos[i] = 1 THEN h.f[i].next ELSE h.f[a].child
  /\ h2.f[i].next = NULL /\ h2.f[i].prev = NULL
  /\ \A x \in Item : x # i =>
       h2.f[x].next = IF own[x] = a /\ pos[x] + 1 = pos[i] THEN h.f[i].next ELSE h.f[x].next
  /\ \A x \in Item : x # i =>
       h2.f[x].prev = IF own[x] = a /\ (pos[x] = pos[i] + 1 \/ (pos[x] = 1 /\ pos[i] = len[a]))
                      THEN h.f[i].prev ELSE h.f[x].prev

LEMMA CutShapes ==
  ASSUME NEW h, NEW own, NEW pos, NEW len, Shaped(h, own, pos, len, NULL),
         NEW a \in Item, NEW i \in Item, own[i] = a,
         NEW h2, CutPointers(h, h2, own, pos, len, a, i)
  PROVE  Shaped(h2, [own EXCEPT ![i] = NULL], CutPos(own, pos, i), [len EXCEPT ![a] = @ - 1], NULL)
<1> DEFINE own2 == [own EXCEPT ![i] = NULL]
           pos2 == CutPos(own, pos, i)
           len2 == [len EXCEPT ![a] = @ - 1]
<1>0. h \in Heap /\ h.live \subseteq Item /\ NULL \notin Item /\ a # NULL
  BY HeapFields DEF Shaped
<1>1. /\ own \in [Item -> Ptr] /\ pos \in [Item -> Nat] /\ len \in [Item -> Nat]
      /\ \A x \in Item : own[x] # NULL =>
           /\ pos[x] \in Nat /\ len[own[x]] \in Nat /\ own[x] \in Item
           /\ pos[x] >= 1 /\ pos[x] <= len[own[x]]
      /\ \A x, y \in Item : own[x] # NULL /\ own[x] = own[y] /\ pos[x] = pos[y] => x = y
      /\ pos[i] \in Nat /\ pos[i] >= 1 /\ pos[i] <= len[a] /\ len[a] \in Nat
  BY <1>0 DEF Shaped, Ranked, Ptr
<1>2. Ranked(own2, pos2, len2)
  BY <1>0, RankedCut DEF Shaped
<1>3. /\ own2[i] = NULL /\ len2[a] = len[a] - 1
      /\ \A x \in Item : x # i => own2[x] = own[x]
      /\ \A x \in Item : pos2[x] = IF own[x] = a /\ pos[x] > pos[i] THEN pos[x] - 1 ELSE pos[x]
      /\ \A b \in Item : b # a => len2[b] = len[b]
  BY <1>0, <1>1 DEF CutPos
<1> HIDE DEF own2, pos2, len2
<1>4. /\ \A x \in Item : own[x] # NULL => x \in h.live /\ own[x] \in ListsOf(h)
      /\ \A b \in ListsOf(h) : len[b] = 0 => h.f[b].child = NULL
      /\ \A x \in Item : own[x] # NULL =>
           /\ pos[x] = 1 => h.f[own[x]].child = x
           /\ pos[x] = len[own[x]] => h.f[x].next = NULL
      /\ \A x, y \in Item :
           own[x] # NULL /\ own[y] = own[x] /\ pos[y] = pos[x] + 1 => h.f[x].next = y
  BY DEF Shaped, Linked
<1>5. \A x, y \in Item : own[x] # NULL /\ own[y] = own[x] =>
        /\ pos[y] = pos[x] + 1 => h.f[y].prev = x
        /\ pos[x] = 1 /\ pos[y] = len[own[x]] => h.f[x].prev = y
  BY DEF Shaped, Backed
<1>6. \A b : b \in ListsOf(h2) <=> b \in ListsOf(h)
  BY <1>0 DEF ListsOf, CutPointers
<1>7. ASSUME NEW x \in Item, own2[x] # NULL
      PROVE  x # i /\ own2[x] = own[x] /\ own[x] # NULL /\ (own[x] = a => pos[x] # pos[i])
  <2>1. x # i /\ own2[x] = own[x] /\ own[x] # NULL
    BY <1>3, <1>7
  <2> QED BY <2>1, <1>0, <1>1
<1>8. Linked(h2, own2, pos2, len2)
  <2>1. \A x \in Item : own2[x] # NULL => x \in h2.live /\ own2[x] \in ListsOf(h2)
    BY <1>3, <1>4, <1>6 DEF CutPointers
  <2>2. ASSUME NEW b \in ListsOf(h2), len2[b] = 0 PROVE h2.f[b].child = NULL
    <3>1. b \in ListsOf(h) /\ b \in Item
      BY <1>0, <1>6 DEF ListsOf
    <3>2. CASE b = a
      <4>1. len[a] = 1 /\ pos[i] = 1
        BY <3>2, <2>2, <1>1, <1>3
      <4>2. h.f[i].next = NULL
        BY <4>1, <1>0, <1>4
      <4> QED BY <4>1, <4>2, <3>2 DEF CutPointers
    <3>3. CASE b # a
      BY <3>1, <3>3, <2>2, <1>3, <1>4 DEF CutPointers
    <3> QED BY <3>2, <3>3
  <2>3. ASSUME NEW x \in Item, own2[x] # NULL, pos2[x] = 1 PROVE h2.f[own2[x]].child = x
    <3>1. x # i /\ own2[x] = own[x] /\ own[x] # NULL /\ (own[x] = a => pos[x] # pos[i])
      BY <2>3, <1>7
    <3>2. CASE own[x] = a /\ pos[i] = 1
      <4>1. pos[x] = pos[i] + 1
        BY <3>1, <3>2, <2>3, <1>1, <1>3
      <4> QED BY <4>1, <3>1, <3>2, <1>0, <1>4 DEF CutPointers
    <3>3. CASE own[x] = a /\ pos[i] # 1
      <4>1. pos[x] = 1
        BY <3>1, <3>3, <2>3, <1>1, <1>3
      <4> QED BY <4>1, <3>1, <3>3, <1>4 DEF CutPointers
    <3>4. CASE own[x] # a
      <4>1. pos[x] = 1 /\ own[x] \in Item
        BY <3>1, <3>4, <2>3, <1>1, <1>3
      <4> QED BY <4>1, <3>1, <3>4, <1>4 DEF CutPointers
    <3> QED BY <3>2, <3>3, <3>4
  <2>4. ASSUME NEW x \in Item, own2[x] # NULL, pos2[x] = len2[own2[x]] PROVE h2.f[x].next = NULL
    <3>1. /\ x # i /\ own2[x] = own[x] /\ own[x] # NULL /\ (own[x] = a => pos[x] # pos[i])
          /\ own[x] \in Item
      BY <2>4, <1>1, <1>7
    <3>2. CASE own[x] = a /\ pos[x] > pos[i]
      <4>1. pos[x] = len[a] /\ ~(pos[x] + 1 = pos[i])
        BY <3>1, <3>2, <2>4, <1>1, <1>3
      <4> QED BY <4>1, <3>1, <3>2, <1>4 DEF CutPointers
    <3>3. CASE own[x] = a /\ ~(pos[x] > pos[i])
      <4>1. pos[x] + 1 = pos[i] /\ pos[i] = len[a]
        BY <3>1, <3>3, <2>4, <1>1, <1>3
      <4>2. h.f[i].next = NULL
        BY <4>1, <1>0, <1>4
      <4> QED BY <4>1, <4>2, <3>1, <3>3 DEF CutPointers
    <3>4. CASE own[x] # a
      BY <3>1, <3>4, <2>4, <1>3, <1>4 DEF CutPointers
    <3> QED BY <3>2, <3>3, <3>4
  <2>5. ASSUME NEW x \in Item, NEW y \in Item,
               own2[x] # NULL, own2[y] = own2[x], pos2[y] = pos2[x] + 1
        PROVE  h2.f[x].next = y
    <3>1. x # i /\ own2[x] = own[x] /\ own[x] # NULL /\ (own[x] = a => pos[x] # pos[i])
      BY <2>5, <1>7
    <3>2. y # i /\ own2[y] = own[y] /\ own[y] # NULL /\ (own[y] = a => pos[y] # pos[i])
      BY <2>5, <1>7
    <3>3. CASE own[x] = a /\ pos[x] + 1 = pos[i]
      <4>1. pos[y] = pos[i] + 1 /\ own[y] = a
        BY <3>1, <3>2, <3>3, <2>5, <1>1, <1>3
      <4>2. h.f[i].next = y
        BY <4>1, <1>0, <1>4
      <4> QED BY <4>2, <3>1, <3>3 DEF CutPointers
    <3>4. CASE ~(own[x] = a /\ pos[x] + 1 = pos[i])
      <4>1. pos[y] = pos[x] + 1
        BY <3>1, <3>2, <3>4, <2>5, <1>1, <1>3
      <4>2. h.f[x].next = y
        BY <4>1, <3>1, <3>2, <2>5, <1>4
      <4> QED BY <4>2, <3>1, <3>4 DEF CutPointers
    <3> QED BY <3>3, <3>4
  <2> QED BY <2>1, <2>2, <2>3, <2>4, <2>5 DEF Linked
<1>9. Backed(h2, own2, pos2, len2, NULL)
  <2>1. ASSUME NEW x \in Item, NEW y \in Item,
               own2[x] # NULL, own2[y] = own2[x], pos2[y] = pos2[x] + 1
        PROVE  h2.f[y].prev = x
    <3>1. x # i /\ own2[x] = own[x] /\ own[x] # NULL /\ (own[x] = a => pos[x] # pos[i])
      BY <2>1, <1>7
    <3>2. y # i /\ own2[y] = own[y] /\ own[y] # NULL /\ (own[y] = a => pos[y] # pos[i])
      BY <2>1, <1>7
    <3>3. CASE own[x] = a /\ pos[x] + 1 = pos[i]
      <4>1. pos[y] = pos[i] + 1 /\ own[y] = a
        BY <3>1, <3>2, <3>3, <2>1, <1>1, <1>3
      <4>2. h.f[i].prev = x
        BY <3>1, <3>3, <1>0, <1>5
      <4> QED BY <4>1, <4>2, <3>2 DEF CutPointers
    <3>4. CASE ~(own[x] = a /\ pos[x] + 1 = pos[i])
      <4>1. pos[y] = pos[x] + 1 /\ pos[x] >= 1 /\ pos[x] \in Nat
        BY <3>1, <3>2, <3>4, <2>1, <1>1, <1>3
      <4>2. h.f[y].prev = x
        <5>1. own[y] = own[x]
          BY <3>1, <3>2, <2>1
        <5> QED BY <5>1, <4>1, <3>1, <1>5
      <4>3. pos[y] # 1
        BY <4>1
      <4>4. ~(own[y] = a /\ pos[y] = pos[i] + 1)
        BY <4>1, <3>1, <3>2, <2>1, <1>1
      <4> QED BY <4>2, <4>3, <4>4, <3>2 DEF CutPointers
    <3> QED BY <3>3, <3>4
  <2>2. ASSUME NEW x \in Item, NEW y \in Item,
               own2[x] # NULL, own2[y] = own2[x], pos2[x] = 1, pos2[y] = len2[own2[x]]
        PROVE  h2.f[x].prev = y
    <3>1. x # i /\ own2[x] = own[x] /\ own[x] # NULL /\ (own[x] = a => pos[x] # pos[i])
      BY <2>2, <1>7
    <3>2. y # i /\ own2[y] = own[y] /\ own[y] # NULL /\ (own[y] = a => pos[y] # pos[i])
      BY <2>2, <1>7
    <3>3. CASE own[x] = a /\ pos[i] = 1
      <4>1. pos[x] = pos[i] + 1 /\ pos[y] = len[a] /\ own[y] = a
        BY <3>1, <3>2, <3>3, <2>2, <1>1, <1>3
      <4>2. h.f[i].prev = y
        BY <4>1, <3>2, <3>3, <1>0, <1>5
      <4> QED BY <4>1, <4>2, <3>1, <3>3 DEF CutPointers
    <3>4. CASE own[x] = a /\ pos[i] # 1 /\ pos[i] = len[a]
      <4>1. pos[x] = 1 /\ pos[i] = pos[y] + 1 /\ own[y] = a
        BY <3>1, <3>2, <3>4, <2>2, <1>1, <1>3
      <4>2. h.f[i].prev = y
        BY <4>1, <3>2, <1>0, <1>5
      <4> QED BY <4>1, <4>2, <3>1, <3>4 DEF CutPointers
    <3>5. CASE own[x] = a /\ pos[i] # 1 /\ pos[i] # len[a]
      <4>1. pos[x] = 1 /\ pos[y] = len[a] /\ own[y] = a /\ pos[x] # pos[i] + 1
        BY <3>1, <3>2, <3>5, <2>2, <1>1, <1>3
      <4>2. h.f[x].prev = y
        BY <4>1, <3>1, <3>5, <1>5
      <4> QED BY <4>1, <4>2, <3>1, <3>5 DEF CutPointers
    <3>6. CASE own[x] # a
      <4>1. own[x] \in Item /\ pos[x] = 1 /\ pos[y] = len[own[x]] /\ own[y] = own[x]
        BY <3>1, <3>2, <3>6, <2>2, <1>1, <1>3
      <4>2. h.f[x].prev = y
        BY <4>1, <3>1, <1>5
      <4> QED BY <4>2, <3>1, <3>6 DEF CutPointers
    <3> QED BY <3>3, <3>4, <3>5, <3>6
  <2> QED BY <2>1, <2>2 DEF Backed
<1>10. Loose(h2, own2)
  <2>1. ASSUME NEW x \in h2.live, own2[x] = NULL PROVE h2.f[x].next = NULL /\ h2.f[x].prev = NULL
    <3>1. x \in h.live /\ x \in Item
      BY <1>0 DEF CutPointers
    <3>2. CASE x = i
      BY <3>2 DEF CutPointers
    <3>3. CASE x # i
      <4>1. own[x] = NULL
        BY <3>1, <3>3, <2>1, <1>3
      <4>2. h.f[x].next = NULL /\ h.f[x].prev = NULL
        BY <3>1, <4>1 DEF Shaped, Loose
      <4> QED BY <4>1, <4>2, <3>1, <3>3, <1>0 DEF CutPointers
    <3> QED BY <3>2, <3>3
  <2> QED BY <2>1 DEF Loose
<1>11. h2 \in Heap
  BY DEF CutPointers
<1> QED BY <1>2, <1>8, <1>9, <1>10, <1>11 DEF Shaped, own2, pos2, len2

\* The pointers around i, whose place in the list of a the root n takes
SwapPointers(h, h2, own, pos, len, a, i, n) ==
  /\ h2 \in Heap /\ h2.live = h.live
  /\ \A x \in Item : h2.f[x].IsReference = h.f[x].IsReference
  /\ \A x \in Item : x # a => h2.f[x].child = h.f[x].child
  /\ h2.f[a].child = IF pos[i] = 1 THEN n ELSE h.f[a].child
  /\ h2.f[i].next = NULL /\ h2.f[i].prev = NULL
  /\ h2.f[n].next = h.f[i].next
  /\ h2.f[n].prev = IF len[a] = 1 THEN n ELSE h.f[i].prev
  /\ \A x \in Item : x # i /\ x # n =>
       h2.f[x].next = IF own[x] = a /\ pos[x] + 1 = pos[i] THEN n ELSE h.f[x].next
  /\ \A x \in Item : x # i /\ x # n =>
       h2.f[x].prev = IF own[x] = a /\ (pos[x] = pos[i] + 1 \/ (pos[x] = 1 /\ pos[i] = len[a]))
                      THEN n ELSE h.f[x].prev

LEMMA SwapShapes ==
  ASSUME NEW h, NEW own, NEW pos, NEW len, Shaped(h, own, pos, len, NULL),
         NEW a \in Item, NEW i \in Item, own[i] = a, NEW n \in h.live, own[n] = NULL,
         NEW h2, SwapPointers(h, h2, own, pos, len, a, i, n)
  PROVE  Shaped(h2, [[own EXCEPT ![n] = a] EXCEPT ![i] = NULL], [pos EXCEPT ![n] = pos[i]], len, NULL)
<1> DEFINE own2 == [[own EXCEPT ![n] = a] EXCEPT ![i] = NULL]
           pos2 == [pos EXCEPT ![n] = pos[i]]
           \* the item that stood where x stands now
           was(x) == IF x = n THEN i ELSE x
<1>0. h \in Heap /\ h.live \subseteq Item /\ NULL \notin Item /\ a # NULL /\ n \in Item /\ n # i
  BY HeapFields DEF Shaped
<1>1. /\ own \in [Item -> Ptr] /\ pos \in [Item -> Nat] /\ len \in [Item -> Nat]
      /\ \A x \in Item : own[x] # NULL =>
           /\ pos[x] \in 1..len[own[x]]
           /\ pos[x] \in Nat /\ len[own[x]] \in Nat /\ own[x] \in Item
           /\ pos[x] >= 1 /\ pos[x] <= len[own[x]]
      /\ \A x, y \in Item : own[x] # NULL /\ own[x] = own[y] /\ pos[x] = pos[y] => x = y
      /\ \A b \in Item : \A q \in 1..len[b] : \E x \in Item : own[x] = b /\ pos[x] = q
      /\ pos[i] \in Nat /\ pos[i] >= 1 /\ pos[i] <= len[a] /\ len[a] \in Nat
  <2>1. /\ own \in [Item -> Ptr] /\ pos \in [Item -> Nat] /\ len \in [Item -> Nat]
        /\ \A x \in Item : own[x] # NULL => pos[x] \in 1..len[own[x]]
        /\ \A x, y \in Item : own[x] # NULL /\ own[x] = own[y] /\ pos[x] = pos[y] => x = y
        /\ \A b \in Item : \A q \in 1..len[b] : \E x \in Item : own[x] = b /\ pos[x] = q
    BY DEF Shaped, Ranked
  <2>2. ASSUME NEW x \in Item, own[x] # NULL
        PROVE  /\ pos[x] \in Nat /\ len[own[x]] \in Nat /\ own[x] \in Item
               /\ pos[x] >= 1 /\ pos[x] <= len[own[x]]
    BY <2>1, <2>2 DEF Ptr
  <2>3. pos[i] \in Nat /\ pos[i] >= 1 /\ pos[i] <= len[a] /\ len[a] \in Nat
    BY <2>2, <1>0
  <2> QED BY <2>1, <2>2, <2>3
<1>3. /\ own2 \in [Item -> Ptr] /\ pos2 \in [Item -> Nat]
      /\ own2[i] = NULL /\ own2[n] = a /\ pos2[n] = pos[i]
      /\ \A x \in Item : x # i /\ x # n => own2[x] = own[x]
      /\ \A x \in Item : x # n => pos2[x] = pos[x]
  BY <1>0, <1>1 DEF Ptr
<1> HIDE DEF own2, pos2
<1>4. /\ \A x \in Item : own[x] # NULL => x \in h.live /\ own[x] \in ListsOf(h)
      /\ \A b \in ListsOf(h) : len[b] = 0 => h.f[b].child = NULL
      /\ \A x \in Item : own[x] # NULL =>
           /\ pos[x] = 1 => h.f[own[x]].child = x
           /\ pos[x] = len[own[x]] => h.f[x].next = NULL
      /\ \A x, y \in Item :
           own[x] # NULL /\ own[y] = own[x] /\ pos[y] = pos[x] + 1 => h.f[x].next = y
  BY DEF Shaped, Linked
<1>5. \A x, y \in Item : own[x] # NULL /\ own[y] = own[x] =>
        /\ pos[y] = pos[x] + 1 => h.f[y].prev = x
        /\ pos[x] = 1 /\ pos[y] = len[own[x]] => h.f[x].prev = y
  BY DEF Shaped, Backed
<1>6. \A b : b \in ListsOf(h2) <=> b \in ListsOf(h)
  BY <1>0 DEF ListsOf, SwapPointers
<1>7. ASSUME NEW x \in Item, own2[x] # NULL
      PROVE  /\ x # i /\ was(x) \in Item /\ own[was(x)] = own2[x] /\ pos[was(x)] = pos2[x]
             /\ (x # n => was(x) = x /\ (own[x] = a => pos[x] # pos[i]))
             /\ (x = n => was(x) = i)
  <2>1. x # i
    BY <1>3, <1>7
  <2>2. CASE x = n
    BY <2>1, <2>2, <1>3
  <2>3. CASE x # n
    <3>1. own[x] = own2[x] /\ pos[x] = pos2[x]
      BY <2>1, <2>3, <1>3
    <3> QED BY <2>1, <2>3, <3>1, <1>0, <1>1, <1>7
  <2> QED BY <2>2, <2>3
<1> HIDE DEF was
<1>8. Ranked(own2, pos2, len)
  <2>1. \A x \in Item : own2[x] # NULL => pos2[x] \in 1..len[own2[x]]
    <3> SUFFICES ASSUME NEW x \in Item, own2[x] # NULL PROVE pos2[x] \in 1..len[own2[x]]
      OBVIOUS
    <3>1. was(x) \in Item /\ own[was(x)] = own2[x] /\ pos[was(x)] = pos2[x]
      BY <1>7
    <3> QED BY <3>1, <1>1
  <2>2. ASSUME NEW x \in Item, NEW y \in Item, own2[x] # NULL, own2[x] = own2[y], pos2[x] = pos2[y]
        PROVE  x = y
    <3>1. /\ x # i /\ was(x) \in Item /\ own[was(x)] = own2[x] /\ pos[was(x)] = pos2[x]
          /\ (x # n => was(x) = x) /\ (x = n => was(x) = i)
      BY <2>2, <1>7
    <3>2. /\ y # i /\ was(y) \in Item /\ own[was(y)] = own2[y] /\ pos[was(y)] = pos2[y]
          /\ (y # n => was(y) = y) /\ (y = n => was(y) = i)
      BY <2>2, <1>7
    <3>3. was(x) = was(y)
      BY <3>1, <3>2, <2>2, <1>1
    <3> QED BY <3>1, <3>2, <3>3
  <2>3. ASSUME NEW b \in Item, NEW q \in 1..len[b] PROVE \E x \in Item : own2[x] = b /\ pos2[x] = q
    <3>1. PICK x \in Item : own[x] = b /\ pos[x] = q
      BY <1>1
    <3>2. CASE x = i
      BY <3>1, <3>2, <1>0, <1>3
    <3>3. CASE x # i
      <4>1. x # n
        BY <3>1, <1>0
      <4> QED BY <4>1, <3>1, <3>3, <1>3
    <3> QED BY <3>2, <3>3
  <2> QED BY <2>1, <2>2, <2>3, <1>1, <1>3 DEF Ranked
<1>9. Linked(h2, own2, pos2, len)
  <2>1. ASSUME NEW x \in Item, own2[x] # NULL PROVE x \in h2.live /\ own2[x] \in ListsOf(h2)
    <3>1. /\ was(x) \in Item /\ own[was(x)] = own2[x] /\ (x # n => was(x) = x)
      BY <2>1, <1>7
    <3> QED BY <3>1, <2>1, <1>4, <1>6 DEF SwapPointers
  <2>2. ASSUME NEW b \in ListsOf(h2), len[b] = 0 PROVE h2.f[b].child = NULL
    <3>1. b \in ListsOf(h) /\ b \in Item /\ b # a
      BY <2>2, <1>0, <1>1, <1>6 DEF ListsOf
    <3> QED BY <3>1, <2>2, <1>4 DEF SwapPointers
  <2>3. ASSUME NEW x \in Item, own2[x] # NULL, pos2[x] = 1 PROVE h2.f[own2[x]].child = x
    <3>1. /\ x # i /\ was(x) \in Item /\ own[was(x)] = own2[x] /\ pos[was(x)] = 1
          /\ (x # n => was(x) = x /\ (own[x] = a => pos[x] # pos[i]))
          /\ (x = n => was(x) = i)
      BY <2>3, <1>7
    <3>2. CASE x = n
      BY <3>1, <3>2, <1>3 DEF SwapPointers
    <3>3. CASE x # n
      <4>1. h.f[own[x]].child = x /\ own[x] = own2[x] /\ own[x] \in Item
        BY <3>1, <3>3, <2>3, <1>1, <1>4
      <4>2. own[x] = a => pos[i] # 1
        BY <3>1, <3>3
      <4> QED BY <4>1, <4>2 DEF SwapPointers
    <3> QED BY <3>2, <3>3
  <2>4. ASSUME NEW x \in Item, own2[x] # NULL, pos2[x] = len[own2[x]] PROVE h2.f[x].next = NULL
    <3>1. /\ x # i /\ was(x) \in Item /\ own[was(x)] = own2[x] /\ pos[was(x)] = len[own2[x]]
          /\ (x # n => was(x) = x) /\ (x = n => was(x) = i)
      BY <2>4, <1>7
    <3>2. h.f[was(x)].next = NULL
      BY <3>1, <2>4, <1>4
    <3>3. CASE x = n
      BY <3>1, <3>2, <3>3 DEF SwapPointers
    <3>4. CASE x # n
      <4>1. ~(own[x] = a /\ pos[x] + 1 = pos[i])
        BY <3>1, <3>4, <1>1
      <4> QED BY <4>1, <3>1, <3>2, <3>4 DEF SwapPointers
    <3> QED BY <3>3, <3>4
  <2>5. ASSUME NEW x \in Item, NEW y \in Item,
               own2[x] # NULL, own2[y] = own2[x], pos2[y] = pos2[x] + 1
        PROVE  h2.f[x].next = y
    <3>1. /\ x # i /\ was(x) \in Item /\ own[was(x)] = own2[x] /\ pos[was(x)] = pos2[x]
          /\ (x # n => was(x) = x) /\ (x = n => was(x) = i)
      BY <2>5, <1>7
    <3>2. /\ y # i /\ was(y) \in Item /\ own[was(y)] = own2[y] /\ pos[was(y)] = pos2[y]
          /\ (y # n => was(y) = y /\ (own[y] = a => pos[y] # pos[i])) /\ (y = n => was(y) = i)
      BY <2>5, <1>7
    <3>3. pos[was(y)] = pos[was(x)] + 1 /\ own[was(y)] = own[was(x)] /\ own[was(x)] # NULL
      BY <3>1, <3>2, <2>5
    <3>4. h.f[was(x)].next = was(y)
      BY <3>1, <3>2, <3>3, <1>4
    <3>5. CASE x = n
      <4>1. y # n
        BY <3>1, <3>2, <3>3, <3>5, <1>1
      <4> QED BY <4>1, <3>1, <3>2, <3>4, <3>5 DEF SwapPointers
    <3>6. CASE x # n /\ y = n
      <4>1. own[x] = a /\ pos[x] + 1 = pos[i]
        BY <3>1, <3>2, <3>3, <3>6
      <4> QED BY <4>1, <3>1, <3>6 DEF SwapPointers
    <3>7. CASE x # n /\ y # n
      <4>1. ~(own[x] = a /\ pos[x] + 1 = pos[i])
        BY <3>1, <3>2, <3>3, <3>7
      <4> QED BY <4>1, <3>1, <3>2, <3>4, <3>7 DEF SwapPointers
    <3> QED BY <3>5, <3>6, <3>7
  <2> QED BY <2>1, <2>2, <2>3, <2>4, <2>5 DEF Linked
<1>10. Backed(h2, own2, pos2, len, NULL)
  <2>1. ASSUME NEW x \in Item, NEW y \in Item,
               own2[x] # NULL, own2[y] = own2[x], pos2[y] = pos2[x] + 1
        PROVE  h2.f[y].prev = x
    <3>1. /\ x # i /\ was(x) \in Item /\ own[was(x)] = own2[x] /\ pos[was(x)] = pos2[x]
          /\ (x # n => was(x) = x /\ (own[x] = a => pos[x] # pos[i])) /\ (x = n => was(x) = i)
      BY <2>1, <1>7
    <3>2. /\ y # i /\ was(y) \in Item /\ own[was(y)] = own2[y] /\ pos[was(y)] = pos2[y]
          /\ (y # n => was(y) = y) /\ (y = n => was(y) = i)
      BY <2>1, <1>7
    <3>3. pos[was(y)] = pos[was(x)] + 1 /\ own[was(y)] = own[was(x)] /\ own[was(x)] # NULL
      BY <3>1, <3>2, <2>1
    <3>4. h.f[was(y)].prev = was(x)
      BY <3>1, <3>2, <3>3, <1>5
    <3>5. pos[was(x)] >= 1 /\ pos[was(x)] \in Nat /\ pos[was(y)] # 1
      BY <3>1, <3>3, <1>1
    <3>6. CASE x = n
      <4>1. y # n /\ own[y] = a /\ pos[y] = pos[i] + 1
        BY <3>1, <3>2, <3>3, <3>6, <1>1
      <4> QED BY <4>1, <3>2, <3>6 DEF SwapPointers
    <3>7. CASE x # n /\ y = n
      <4>1. pos[i] # 1 /\ len[a] # 1
        BY <3>2, <3>5, <3>7, <1>1
      <4> QED BY <4>1, <3>1, <3>2, <3>4, <3>7 DEF SwapPointers
    <3>8. CASE x # n /\ y # n
      <4>1. own[y] = a => pos[y] # pos[i] + 1
        <5>1. own[x] = own[y] /\ pos[y] = pos[x] + 1 /\ pos[x] \in Nat
          BY <3>1, <3>2, <3>3, <3>8, <1>1
        <5> QED BY <5>1, <3>1, <3>8, <1>1
      <4> QED BY <4>1, <3>1, <3>2, <3>4, <3>5, <3>8 DEF SwapPointers
    <3> QED BY <3>6, <3>7, <3>8
  <2>2. ASSUME NEW x \in Item, NEW y \in Item,
               own2[x] # NULL, own2[y] = own2[x], pos2[x] = 1, pos2[y] = len[own2[x]]
        PROVE  h2.f[x].prev = y
    <3>1. /\ x # i /\ was(x) \in Item /\ own[was(x)] = own2[x] /\ pos[was(x)] = 1
          /\ (x # n => was(x) = x /\ (own[x] = a => pos[x] # pos[i])) /\ (x = n => was(x) = i)
      BY <2>2, <1>7
    <3>2. /\ y # i /\ was(y) \in Item /\ own[was(y)] = own2[y] /\ pos[was(y)] = len[own2[x]]
          /\ (y # n => was(y) = y /\ (own[y] = a => pos[y] # pos[i])) /\ (y = n => was(y) = i)
      BY <2>2, <1>7
    <3>3. h.f[was(x)].prev = was(y)
      BY <3>1, <3>2, <2>2, <1>5
    <3>4. CASE x = n /\ y = n
      <4>1. len[a] = 1
        BY <3>1, <3>2, <3>4, <2>2
      <4> QED BY <4>1, <3>4 DEF SwapPointers
    <3>5. CASE x = n /\ y # n
      <4>1. len[a] # 1
        BY <3>1, <3>2, <3>5, <2>2
      <4> QED BY <4>1, <3>1, <3>2, <3>3, <3>5 DEF SwapPointers
    <3>6. CASE x # n /\ y = n
      <4>1. own[x] = a /\ pos[x] = 1 /\ pos[i] = len[a]
        BY <3>1, <3>2, <3>6, <2>2
      <4> QED BY <4>1, <3>1, <3>6 DEF SwapPointers
    <3>7. CASE x # n /\ y # n
      <4>1. own[x] = a => pos[i] # len[a] /\ pos[x] # pos[i] + 1
        BY <3>1, <3>2, <3>7, <2>2, <1>1
      <4> QED BY <4>1, <3>1, <3>2, <3>3, <3>7 DEF SwapPointers
    <3> QED BY <3>4, <3>5, <3>6, <3>7
  <2> QED BY <2>1, <2>2 DEF Backed
<1>11. Loose(h2, own2)
  <2>1. ASSUME NEW x \in h2.live, own2[x] = NULL PROVE h2.f[x].next = NULL /\ h2.f[x].prev = NULL
    <3>1. x \in h.live /\ x \in Item /\ x # n
      BY <2>1, <1>0, <1>3 DEF SwapPointers
    <3>2. CASE x = i
      BY <3>2 DEF SwapPointers
    <3>3. CASE x # i
      <4>1. own[x] = NULL
        BY <3>1, <3>3, <2>1, <1>3
      <4>2. h.f[x].next = NULL /\ h.f[x].prev = NULL
        BY <3>1, <4>1 DEF Shaped, Loose
      <4> QED BY <4>1, <4>2, <3>1, <3>3, <1>0 DEF SwapPointers
    <3> QED BY <3>2, <3>3
  <2> QED BY <2>1 DEF Loose
<1>12. h2 \in Heap
  BY DEF SwapPointers
<1> QED BY <1>8, <1>9, <1>10, <1>11, <1>12 DEF Shaped, own2, pos2

-------------------------------------------------------------------------------
(* Names                                                                       *)

\* The items whose name is an allocated copy
Owned(h) == {x \in h.live : h.f[x].string # NULL /\ h.f[x].copied}

\* The keys are counted right, and StringIsConst tells who owns a name.
Names(h) ==
  /\ ~h.badfree /\ h.keys = Cardinality(Owned(h))
  /\ \A x \in h.live : IF h.f[x].string = NULL THEN ~h.f[x].copied
                       ELSE h.f[x].copied <=> ~h.f[x].StringIsConst

LEMMA OwnedFinite ==
  ASSUME NEW h \in Heap PROVE IsFiniteSet(Owned(h)) /\ Cardinality(Owned(h)) \in Nat
<1>1. Owned(h) \subseteq Item
  BY HeapFields DEF Owned
<1>2. IsFiniteSet(Owned(h))
  BY <1>1, ItemsAreFinite, FS_Subset
<1> QED BY <1>2, FS_CardinalityType

\* One item is new or gets another name.
LEMMA NamesChange ==
  ASSUME NEW h \in Heap, NEW h2 \in Heap, Names(h), NEW i \in Item,
         h2.live = h.live \cup {i}, ~h2.badfree,
         \A x \in Item : x # i => /\ h2.f[x].string = h.f[x].string
                                  /\ h2.f[x].copied = h.f[x].copied
                                  /\ h2.f[x].StringIsConst = h.f[x].StringIsConst,
         IF h2.f[i].string = NULL THEN ~h2.f[i].copied
         ELSE h2.f[i].copied <=> ~h2.f[i].StringIsConst,
         h2.keys = (h.keys - (IF i \in Owned(h) THEN 1 ELSE 0)) + (IF i \in Owned(h2) THEN 1 ELSE 0)
  PROVE  Names(h2)
<1>1. h.live \subseteq Item
  BY HeapFields
<1>2. \A x : x # i => (x \in Owned(h2) <=> x \in Owned(h))
  BY <1>1 DEF Owned
<1> DEFINE S == Owned(h) \ {i}
<1>3. Owned(h) = IF i \in Owned(h) THEN S \cup {i} ELSE S
  OBVIOUS
<1>4. Owned(h2) = IF i \in Owned(h2) THEN S \cup {i} ELSE S
  BY <1>2
<1>5. IsFiniteSet(S) /\ i \notin S
  BY OwnedFinite, FS_Subset
<1> HIDE DEF S
<1>6. Cardinality(S) \in Nat /\ Cardinality(S \cup {i}) = Cardinality(S) + 1
  BY <1>5, FS_CardinalityType, FS_AddElement
<1>7. h.keys = Cardinality(Owned(h))
  BY DEF Names
<1>8. h2.keys = Cardinality(Owned(h2))
  <2> DEFINE old == IF i \in Owned(h) THEN 1 ELSE 0
             new == IF i \in Owned(h2) THEN 1 ELSE 0
  <2>1. Cardinality(Owned(h)) = Cardinality(S) + old
    <3>1. CASE i \in Owned(h)
      <4>1. Owned(h) = S \cup {i}
        BY <3>1, <1>3
      <4> QED BY <4>1, <3>1, <1>6
    <3>2. CASE i \notin Owned(h)
      <4>1. Owned(h) = S
        BY <3>2, <1>3
      <4> QED BY <4>1, <3>2, <1>6
    <3> QED BY <3>1, <3>2
  <2>2. Cardinality(Owned(h2)) = Cardinality(S) + new
    <3>1. CASE i \in Owned(h2)
      <4>1. Owned(h2) = S \cup {i}
        BY <3>1, <1>4
      <4> QED BY <4>1, <3>1, <1>6
    <3>2. CASE i \notin Owned(h2)
      <4>1. Owned(h2) = S
        BY <3>2, <1>4
      <4> QED BY <4>1, <3>2, <1>6
    <3> QED BY <3>1, <3>2
  <2>3. h2.keys = (h.keys - old) + new /\ old \in Nat /\ new \in Nat
    OBVIOUS
  <2> HIDE DEF old, new
  <2> QED BY <2>1, <2>2, <2>3, <1>6, <1>7
<1>9. ASSUME NEW x \in h2.live
      PROVE  IF h2.f[x].string = NULL THEN ~h2.f[x].copied
             ELSE h2.f[x].copied <=> ~h2.f[x].StringIsConst
  <2>1. CASE x = i
    BY <2>1
  <2>2. CASE x # i
    <3>1. x \in h.live /\ x \in Item
      BY <2>2, <1>1
    <3> QED BY <3>1, <2>2 DEF Names
  <2> QED BY <2>1, <2>2
<1> QED BY <1>8, <1>9 DEF Names

\* Only pointers changed.
SameNames(h, h2) ==
  /\ h2.live = h.live /\ h2.keys = h.keys /\ h2.badfree = h.badfree
  /\ \A x \in Item : /\ h2.f[x].string = h.f[x].string /\ h2.f[x].copied = h.f[x].copied
                     /\ h2.f[x].StringIsConst = h.f[x].StringIsConst

LEMMA NamesCarry ==
  ASSUME NEW h \in Heap, NEW h2, SameNames(h, h2), Names(h) PROVE Names(h2)
<1>1. h.live \subseteq Item
  BY HeapFields
<1>2. Owned(h2) = Owned(h)
  BY <1>1 DEF Owned, SameNames
<1> QED BY <1>1, <1>2 DEF Names, SameNames

\* Only names changed.
SameLinks(h, h2) ==
  /\ h2 \in Heap /\ h2.live = h.live
  /\ \A x \in Item : /\ h2.f[x].child = h.f[x].child /\ h2.f[x].next = h.f[x].next
                     /\ h2.f[x].prev = h.f[x].prev /\ h2.f[x].IsReference = h.f[x].IsReference

LEMMA LinksCarry ==
  ASSUME NEW h, NEW own, NEW pos, NEW len, NEW e, Shaped(h, own, pos, len, e),
         NEW h2, SameLinks(h, h2)
  PROVE  Shaped(h2, own, pos, len, e)
<1>1. h \in Heap /\ h.live \subseteq Item /\ NULL \notin Item
  BY HeapFields DEF Shaped
<1>2. \A b : b \in ListsOf(h2) <=> b \in ListsOf(h)
  BY <1>1 DEF ListsOf, SameLinks
<1>3. \A x \in Item : own[x] # NULL => own[x] \in Item
  BY DEF Shaped, Ranked, Ptr
<1>4. Linked(h2, own, pos, len)
  <2>1. Linked(h, own, pos, len)
    BY DEF Shaped
  <2>2. \A x \in Item : own[x] # NULL => x \in h2.live /\ own[x] \in ListsOf(h2)
    BY <2>1, <1>2 DEF Linked, SameLinks
  <2>3. \A a \in ListsOf(h2) : len[a] = 0 => h2.f[a].child = NULL
    BY <2>1, <1>1, <1>2 DEF Linked, SameLinks, ListsOf
  <2>4. \A x \in Item : own[x] # NULL =>
          /\ pos[x] = 1 => h2.f[own[x]].child = x
          /\ pos[x] = len[own[x]] => h2.f[x].next = NULL
    BY <2>1, <1>3 DEF Linked, SameLinks
  <2>5. \A x, y \in Item :
          own[x] # NULL /\ own[y] = own[x] /\ pos[y] = pos[x] + 1 => h2.f[x].next = y
    BY <2>1 DEF Linked, SameLinks
  <2> QED BY <2>2, <2>3, <2>4, <2>5 DEF Linked
<1>5. Backed(h2, own, pos, len, e)
  <2>1. Backed(h, own, pos, len, e)
    BY DEF Shaped
  <2> QED BY <2>1 DEF Backed, SameLinks
<1>6. Loose(h2, own)
  BY <1>1 DEF Shaped, Loose, SameLinks
<1>7. h2 \in Heap /\ Ranked(own, pos, len)
  BY DEF SameLinks, Shaped
<1> QED BY <1>4, <1>5, <1>6, <1>7 DEF Shaped

-------------------------------------------------------------------------------
(* What every call keeps                                                       *)

Roots(h, own) == {x \in h.live : own[x] = NULL}

\* The lists are linked, the names are counted, and R are the items in no list.
Sound(h, R) ==
  /\ h \in Heap /\ Names(h)
  /\ \E own, pos, len : Shaped(h, own, pos, len, NULL) /\ R = Roots(h, own)

\* An item stays the reference it was, or the item that is none.
Kept(h, h2) == \A x \in h.live \cap h2.live : h2.f[x].IsReference = h.f[x].IsReference

LEMMA DeleteShaped ==
  ASSUME NEW h, NEW own, NEW pos, NEW len, NEW e, Shaped(h, own, pos, len, e), Names(h),
         NEW i \in h.live, own[i] = NULL, e = NULL \/ e \in Doomed(h, i)
  PROVE  /\ Sound(cJSON_Delete(h, i), Roots(h, own) \ {i})
         /\ cJSON_Delete(h, i).live \subseteq h.live /\ Kept(h, cJSON_Delete(h, i))
<1> DEFINE D == Doomed(h, i)
           h2 == cJSON_Delete(h, i)
           named == {x \in D : h.f[x].string # NULL /\ ~h.f[x].StringIsConst}
           own2 == [x \in Item |-> IF x \in D THEN NULL ELSE own[x]]
           len2 == [x \in Item |-> IF x \in D THEN 0 ELSE len[x]]
<1>1. h \in Heap /\ h.live \subseteq Item /\ NULL \notin Item
  BY HeapFields DEF Shaped
<1>2. D \subseteq h.live /\ i \in D
  BY DoomedBelow
<1>3. \A x \in D : x # i => own[x] \in D
  BY DoomedBelow
<1>4. Shaped(h2, own2, pos, len2, NULL)
  BY DeleteKeeps
<1>5. ~FreedTwice(h, i)
  BY FreedOnce
<1>6. /\ h2.live = h.live \ D /\ h2.keys = h.keys - Cardinality(named)
      /\ h2.badfree <=> (\/ h.badfree \/ ~(D \subseteq h.live) \/ FreedTwice(h, i)
                         \/ \E x \in named : ~h.f[x].copied)
      /\ \A x \in Item : h2.f[x] = IF x \in D THEN Zero ELSE h.f[x]
  BY DEF cJSON_Delete
<1> HIDE DEF D, h2
<1>7. \A x : x \in named <=> x \in D /\ x \in Owned(h)
  BY <1>2 DEF Names, Owned
<1>8. ~h2.badfree
  BY <1>2, <1>5, <1>6, <1>7 DEF Names, Owned
<1>9. Owned(h2) = Owned(h) \ named
  <2>1. \A x : x \in Owned(h2) <=> x \in Owned(h) /\ x \notin D
    BY <1>1, <1>6 DEF Owned
  <2> HIDE DEF named
  <2> QED BY <2>1, <1>7
<1>10. h2.keys = Cardinality(Owned(h2))
  <2>1. IsFiniteSet(Owned(h)) /\ named \subseteq Owned(h)
    BY <1>7, <1>1, OwnedFinite
  <2> HIDE DEF named
  <2>2. Owned(h) \cap named = named
    BY <2>1
  <2>3. Cardinality(Owned(h) \ named) = Cardinality(Owned(h)) - Cardinality(named)
    BY <2>1, <2>2, FS_Difference
  <2> QED BY <2>3, <1>6, <1>9 DEF Names
<1>11. Names(h2)
  BY <1>1, <1>6, <1>8, <1>10 DEF Names
<1>12. Roots(h2, own2) = Roots(h, own) \ {i}
  <2>1. ASSUME NEW x PROVE x \in Roots(h2, own2) <=> x \in Roots(h, own) /\ x # i
    BY <1>1, <1>2, <1>3, <1>6 DEF Roots
  <2> QED BY <2>1
<1>13. Kept(h, h2)
  BY <1>1, <1>6 DEF Kept
<1>14. Sound(h2, Roots(h, own) \ {i})
  <2> HIDE DEF own2, len2
  <2>1. h2 \in Heap
    BY <1>4 DEF Shaped
  <2> QED BY <2>1, <1>4, <1>11, <1>12 DEF Sound
<1> QED BY <1>6, <1>13, <1>14 DEF h2

\* Deleting no item changes nothing.
LEMMA DeleteNothing ==
  ASSUME NEW h \in Heap PROVE cJSON_Delete(h, NULL) = h
<1> DEFINE near(x) == {h.f[x].next} \cup IF h.f[x].IsReference THEN {} ELSE {h.f[x].child}
           reach(T) == UNION {near(x) : x \in T}
           more(T) == T \cup (reach(T) \ {NULL})
           body(f, n) == IF n = 0 THEN {NULL} \ {NULL} ELSE more(f[n-1])
           lvl == CHOOSE g : g = [n \in 0..Size |-> body(g, n)]
           none == [n \in 0..Size |-> {}]
<1>1. Size \in Nat
  BY SizeType
<1>2. more({}) = {} /\ {NULL} \ {NULL} = {}
  <2>1. \A y : y \notin reach({})
    <3> HIDE DEF near
    <3> QED BY Zenon
  <2> HIDE DEF reach
  <2> QED BY <2>1
<1>3. \A n \in 1..Size : n # 0 /\ n-1 \in 0..Size
  BY <1>1
<1> HIDE DEF more
<1>4. none = [n \in 0..Size |-> body(none, n)]
  <2>1. ASSUME NEW n \in 0..Size PROVE body(none, n) = {}
    <3>1. CASE n = 0
      BY <3>1, <1>2
    <3>2. CASE n # 0
      <4>1. n-1 \in 0..Size
        BY <3>2, <1>1
      <4> QED BY <4>1, <3>2, <1>2
    <3> QED BY <3>1, <3>2
  <2> HIDE DEF body
  <2> QED BY <2>1
<1>5. lvl = [n \in 0..Size |-> body(lvl, n)]
  <2> HIDE DEF body, none
  <2> QED BY <1>4
<1>6. Doomed(h, NULL) = lvl[Size]
  BY Zenon DEF Doomed, more
<1> HIDE DEF lvl
<1>7. \A n \in 0..Size : lvl[n] = body(lvl, n)
  <2> HIDE DEF body
  <2> QED BY <1>5
<1>8. lvl[Size] = {}
  <2> DEFINE out == {n \in 0..Size : lvl[n] # {}}
  <2>1. SUFFICES ASSUME out # {} PROVE FALSE
    BY <1>1
  <2>2. PICK m \in out : \A n \in out : m <= n
    <3>1. out \subseteq Nat
      BY <1>1
    <3> HIDE DEF out
    <3> QED BY <2>1, <3>1, MinExists
  <2>3. m \in 0..Size /\ lvl[m] # {} /\ m # 0
    BY <1>2, <1>7
  <2>4. m-1 \in 0..Size /\ ~(m <= m-1)
    BY <2>3, <1>1
  <2>5. lvl[m-1] = {}
    BY <2>2, <2>4
  <2> QED BY <2>3, <2>5, <1>2, <1>7
<1>9. Doomed(h, NULL) = {}
  BY <1>6, <1>8
<1>10. ~FreedTwice(h, NULL)
  BY <1>9 DEF FreedTwice
<1>11. /\ h = [live |-> h.live, keys |-> h.keys, badfree |-> h.badfree, f |-> h.f]
       /\ h.f = [x \in Item |-> h.f[x]] /\ h.keys \in Int /\ h.badfree \in BOOLEAN
  BY DEF Heap
<1>12. cJSON_Delete(h, NULL) = [live |-> h.live \ {}, keys |-> h.keys - Cardinality({}),
                                badfree |-> h.badfree, f |-> [x \in Item |-> h.f[x]]]
  <2> DEFINE named == {x \in {} : h.f[x].string # NULL /\ ~h.f[x].StringIsConst}
  <2>1. named = {}
    OBVIOUS
  <2>2. [x \in Item |-> IF x \in {} THEN Zero ELSE h.f[x]] = [x \in Item |-> h.f[x]]
    OBVIOUS
  <2>3. (\/ h.badfree \/ ~({} \subseteq h.live) \/ FreedTwice(h, NULL)
         \/ \E x \in named : ~h.f[x].copied) = h.badfree
    BY <2>1, <1>10, <1>11
  <2>4. cJSON_Delete(h, NULL) = [live |-> h.live \ {}, keys |-> h.keys - Cardinality(named),
          badfree |-> (\/ h.badfree \/ ~({} \subseteq h.live) \/ FreedTwice(h, NULL)
                       \/ \E x \in named : ~h.f[x].copied),
          f |-> [x \in Item |-> IF x \in {} THEN Zero ELSE h.f[x]]]
    BY <1>9 DEF cJSON_Delete
  <2> HIDE DEF named
  <2> QED BY <2>1, <2>2, <2>3, <2>4
<1>13. h.live \ {} = h.live /\ h.keys - Cardinality({}) = h.keys
  BY <1>11, FS_EmptySet
<1> QED BY <1>11, <1>12, <1>13

-------------------------------------------------------------------------------
(* New items                                                                   *)

\* An item that points to no sibling comes into being.
LEMMA NewShapes ==
  ASSUME NEW h, NEW own, NEW pos, NEW len, Shaped(h, own, pos, len, NULL),
         NEW n \in Item, n \notin h.live, NEW h2 \in Heap, h2.live = h.live \cup {n},
         \A x \in Item : x # n => h2.f[x] = h.f[x],
         h2.f[n].next = NULL, h2.f[n].prev = NULL, h2.f[n].IsReference \/ h2.f[n].child = NULL
  PROVE  Shaped(h2, own, pos, len, NULL) /\ Roots(h2, own) = Roots(h, own) \cup {n}
<1>1. h \in Heap /\ h.live \subseteq Item /\ NULL \notin Item
  BY HeapFields DEF Shaped
<1>2. \A x \in Item : own[x] # NULL =>
        x \in h.live /\ own[x] \in ListsOf(h) /\ own[x] \in Item /\ x # n /\ own[x] # n
  BY <1>1 DEF Shaped, Ranked, Linked, Ptr, ListsOf
<1>3. own[n] = NULL
  BY <1>2
<1>4. \A b : b \in ListsOf(h) => b \in ListsOf(h2)
  BY <1>1 DEF ListsOf
<1>5. \A b : b \in ListsOf(h2) => b = n \/ b \in ListsOf(h)
  BY <1>1 DEF ListsOf
<1>6. Linked(h2, own, pos, len)
  <2>1. Linked(h, own, pos, len)
    BY DEF Shaped
  <2>2. \A x \in Item : own[x] # NULL => x \in h2.live /\ own[x] \in ListsOf(h2)
    BY <1>2, <1>4
  <2>3. ASSUME NEW a \in ListsOf(h2), len[a] = 0 PROVE h2.f[a].child = NULL
    <3>1. CASE a = n
      BY <3>1 DEF ListsOf
    <3>2. CASE a # n
      BY <3>2, <2>1, <2>3, <1>1, <1>5 DEF Linked, ListsOf
    <3> QED BY <3>1, <3>2
  <2>4. \A x \in Item : own[x] # NULL =>
          /\ pos[x] = 1 => h2.f[own[x]].child = x
          /\ pos[x] = len[own[x]] => h2.f[x].next = NULL
    BY <2>1, <1>2 DEF Linked
  <2>5. \A x, y \in Item :
          own[x] # NULL /\ own[y] = own[x] /\ pos[y] = pos[x] + 1 => h2.f[x].next = y
    BY <2>1, <1>2 DEF Linked
  <2> QED BY <2>2, <2>3, <2>4, <2>5 DEF Linked
<1>7. Backed(h2, own, pos, len, NULL)
  <2>1. Backed(h, own, pos, len, NULL)
    BY DEF Shaped
  <2> QED BY <2>1, <1>2 DEF Backed
<1>8. Loose(h2, own)
  BY <1>1 DEF Shaped, Loose
<1>9. Roots(h2, own) = Roots(h, own) \cup {n}
  BY <1>3 DEF Roots
<1> QED BY <1>6, <1>7, <1>8, <1>9 DEF Shaped

\* Writing a whole item
LEMMA SetNode ==
  ASSUME NEW h \in Heap, NEW x \in Item, NEW node \in Node
  PROVE  [h EXCEPT !.f[x] = node] \in Heap
<1> DEFINE g == [h EXCEPT !.f[x] = node]
<1>1. /\ h.live \in SUBSET Item /\ h.keys \in Int /\ h.badfree \in BOOLEAN /\ h.f \in [Item -> Node]
      /\ h = [live |-> h.live, keys |-> h.keys, badfree |-> h.badfree, f |-> h.f]
  BY DEF Heap
<1>2. [h.f EXCEPT ![x] = node] \in [Item -> Node]
  BY <1>1
<1>3. g = [live |-> h.live, keys |-> h.keys, badfree |-> h.badfree, f |-> [h.f EXCEPT ![x] = node]]
  BY <1>1
<1> QED BY <1>1, <1>2, <1>3 DEF Heap

\* cJSON_New_Item
LEMMA NewFields ==
  ASSUME NEW h \in Heap, NEW n \in Item
  PROVE  LET h2 == cJSON_New_Item(h, n)
         IN  /\ h2 \in Heap /\ h2.live = h.live \cup {n} /\ h2.keys = h.keys /\ h2.badfree = h.badfree
             /\ h2.f[n] = Zero /\ \A x \in Item : x # n => h2.f[x] = h.f[x]
<1> DEFINE h2 == cJSON_New_Item(h, n)
<1>1. NULL \notin Item
  BY HeapFields
<1>2. Zero \in Node
  BY DEF Zero, Node, Ptr
<1>3. h2 = [h EXCEPT !.live = h.live \cup {n}, !.f[n] = Zero]
  BY <1>1 DEF cJSON_New_Item
<1>4. h2 \in Heap
  <2> DEFINE g == [h EXCEPT !.live = h.live \cup {n}]
  <2>1. g \in Heap /\ h2 = [g EXCEPT !.f[n] = Zero]
    BY <1>3 DEF Heap
  <2> HIDE DEF g, h2
  <2> QED BY <2>1, <1>2, SetNode
<1>5. /\ h2.live = h.live \cup {n} /\ h2.keys = h.keys /\ h2.badfree = h.badfree
      /\ h2.f[n] = Zero /\ \A x \in Item : x # n => h2.f[x] = h.f[x]
  BY <1>3 DEF Heap
<1> QED BY <1>4, <1>5

LEMMA NewSound ==
  ASSUME NEW h, NEW R, Sound(h, R), NEW n \in Item, n \notin h.live
  PROVE  /\ Sound(cJSON_New_Item(h, n), R \cup {n}) /\ Kept(h, cJSON_New_Item(h, n))
         /\ cJSON_New_Item(h, n).live = h.live \cup {n}
         /\ n \in ListsOf(cJSON_New_Item(h, n))
<1> DEFINE h2 == cJSON_New_Item(h, n)
<1>1. PICK own, pos, len : Shaped(h, own, pos, len, NULL) /\ R = Roots(h, own)
  BY DEF Sound
<1>2. h \in Heap /\ h.live \subseteq Item /\ NULL \notin Item /\ Names(h) /\ h.keys \in Int
  BY HeapFields DEF Sound
<1>5. h2 \in Heap
  BY <1>2, NewFields
<1>6. /\ h2.live = h.live \cup {n} /\ h2.keys = h.keys /\ h2.badfree = h.badfree
      /\ h2.f[n] = Zero /\ \A x \in Item : x # n => h2.f[x] = h.f[x]
  BY <1>2, NewFields
<1> HIDE DEF h2
<1>7. Shaped(h2, own, pos, len, NULL) /\ Roots(h2, own) = Roots(h, own) \cup {n}
  <2>1. h2.f[n].next = NULL /\ h2.f[n].prev = NULL /\ h2.f[n].child = NULL
    BY <1>6 DEF Zero
  <2> QED BY <2>1, <1>1, <1>5, <1>6, NewShapes
<1>8. Names(h2)
  <2>1. h2.f[n].string = NULL /\ ~h2.f[n].copied
    BY <1>6 DEF Zero
  <2>2. n \notin Owned(h) /\ n \notin Owned(h2)
    BY <2>1 DEF Owned
  <2>3. h2.keys = (h.keys - 0) + 0 /\ ~h2.badfree
    BY <1>2, <1>6 DEF Names
  <2> QED BY <2>1, <2>2, <2>3, <1>2, <1>5, <1>6, NamesChange
<1>9. Kept(h, h2)
  BY <1>2, <1>6 DEF Kept
<1>10. n \in ListsOf(h2)
  BY <1>6 DEF ListsOf, Zero
<1> QED BY <1>1, <1>5, <1>6, <1>7, <1>8, <1>9, <1>10 DEF Sound, h2

\* create_reference
LEMMA ReferenceFields ==
  ASSUME NEW h \in Heap, NEW i \in Item, NEW n \in Item
  PROVE  LET h2 == create_reference(h, i, n)
         IN  /\ h2 \in Heap /\ h2.live = h.live \cup {n} /\ h2.keys = h.keys /\ h2.badfree = h.badfree
             /\ \A x \in Item : x # n => h2.f[x] = h.f[x]
             /\ h2.f[n].next = NULL /\ h2.f[n].prev = NULL /\ h2.f[n].IsReference
             /\ h2.f[n].string = NULL /\ ~h2.f[n].copied
<1> DEFINE node == [h.f[i] EXCEPT !.string = NULL, !.copied = FALSE, !.IsReference = TRUE,
                                  !.next = NULL, !.prev = NULL]
           h2 == create_reference(h, i, n)
<1>2. NULL \notin Item /\ h.f[i] \in Node
  BY HeapFields
<1>3. /\ node \in Node /\ node.next = NULL /\ node.prev = NULL /\ node.IsReference
      /\ node.string = NULL /\ ~node.copied
  BY <1>2 DEF Node, Ptr
<1>4. Zero \in Node
  BY DEF Zero, Node, Ptr
<1> HIDE DEF node
<1>5. h2 = [[h EXCEPT !.live = h.live \cup {n}, !.f[n] = Zero] EXCEPT !.f[n] = node]
  BY <1>2 DEF create_reference, cJSON_New_Item, node
<1>6. h2 \in Heap
  <2> DEFINE g == [h EXCEPT !.live = h.live \cup {n}]
             z == [g EXCEPT !.f[n] = Zero]
  <2>1. g \in Heap /\ h2 = [z EXCEPT !.f[n] = node]
    BY <1>2, <1>5 DEF Heap
  <2> HIDE DEF g, h2
  <2>2. z \in Heap
    BY <2>1, <1>4, SetNode
  <2> HIDE DEF z
  <2> QED BY <2>1, <2>2, <1>3, SetNode
<1>7. /\ h2.live = h.live \cup {n} /\ h2.keys = h.keys /\ h2.badfree = h.badfree
      /\ h2.f[n] = node /\ \A x \in Item : x # n => h2.f[x] = h.f[x]
  BY <1>2, <1>5 DEF Heap
<1> QED BY <1>3, <1>6, <1>7

LEMMA ReferenceSound ==
  ASSUME NEW h, NEW R, Sound(h, R), NEW i \in h.live, NEW n \in Item, n \notin h.live
  PROVE  /\ Sound(create_reference(h, i, n), R \cup {n}) /\ Kept(h, create_reference(h, i, n))
         /\ create_reference(h, i, n).live = h.live \cup {n}
         /\ create_reference(h, i, n).f[n].IsReference
<1> DEFINE h2 == create_reference(h, i, n)
<1>1. PICK own, pos, len : Shaped(h, own, pos, len, NULL) /\ R = Roots(h, own)
  BY DEF Sound
<1>2. h \in Heap /\ h.live \subseteq Item /\ NULL \notin Item /\ Names(h) /\ h.keys \in Int
  BY HeapFields DEF Sound
<1>3. /\ h2 \in Heap /\ h2.live = h.live \cup {n} /\ h2.keys = h.keys /\ h2.badfree = h.badfree
      /\ \A x \in Item : x # n => h2.f[x] = h.f[x]
      /\ h2.f[n].next = NULL /\ h2.f[n].prev = NULL /\ h2.f[n].IsReference
      /\ h2.f[n].string = NULL /\ ~h2.f[n].copied
  BY <1>2, ReferenceFields
<1> HIDE DEF h2
<1>8. Shaped(h2, own, pos, len, NULL) /\ Roots(h2, own) = Roots(h, own) \cup {n}
  BY <1>1, <1>3, NewShapes
<1>9. Names(h2)
  <2>2. n \notin Owned(h) /\ n \notin Owned(h2)
    BY <1>3 DEF Owned
  <2>3. h2.keys = (h.keys - 0) + 0 /\ ~h2.badfree
    BY <1>2, <1>3 DEF Names
  <2> QED BY <2>2, <2>3, <1>2, <1>3, NamesChange
<1>10. Kept(h, h2)
  BY <1>2, <1>3 DEF Kept
<1> QED BY <1>1, <1>3, <1>8, <1>9, <1>10 DEF Sound, h2

-------------------------------------------------------------------------------
(* Writing pointers                                                            *)

Rewired(h, g) ==
  /\ g \in Heap /\ SameNames(h, g)
  /\ \A x \in Item : g.f[x].IsReference = h.f[x].IsReference

LEMMA SetNext ==
  ASSUME NEW h \in Heap, NEW x \in Item, NEW v \in Ptr
  PROVE  /\ Rewired(h, set_next(h, x, v))
         /\ \A y \in Item : /\ set_next(h, x, v).f[y].next = IF y = x THEN v ELSE h.f[y].next
                            /\ set_next(h, x, v).f[y].prev = h.f[y].prev
                            /\ set_next(h, x, v).f[y].child = h.f[y].child
<1> DEFINE node == [h.f[x] EXCEPT !.next = v]
           g == [h EXCEPT !.f[x] = node]
           k == set_next(h, x, v)
<1>1. h.f[x] \in Node /\ h.f \in [Item -> Node]
  BY HeapFields
<1>2. /\ node \in Node /\ node.next = v /\ node.prev = h.f[x].prev /\ node.child = h.f[x].child
      /\ node.string = h.f[x].string /\ node.copied = h.f[x].copied
      /\ node.IsReference = h.f[x].IsReference /\ node.StringIsConst = h.f[x].StringIsConst
  BY <1>1 DEF Node
<1>3. k = g
  BY <1>1 DEF Heap, set_next
<1> HIDE DEF node
<1>4. g \in Heap
  BY <1>2, SetNode
<1>5. /\ g.live = h.live /\ g.keys = h.keys /\ g.badfree = h.badfree
      /\ \A y \in Item : g.f[y] = IF y = x THEN node ELSE h.f[y]
  BY <1>1 DEF Heap
<1> HIDE DEF g, k
<1>6. SameNames(h, k)
  BY <1>2, <1>3, <1>5 DEF SameNames
<1>7. Rewired(h, k)
  BY <1>2, <1>3, <1>4, <1>5, <1>6 DEF Rewired
<1>8. \A y \in Item : /\ k.f[y].next = IF y = x THEN v ELSE h.f[y].next
                      /\ k.f[y].prev = h.f[y].prev /\ k.f[y].child = h.f[y].child
  BY <1>2, <1>3, <1>5
<1> QED BY <1>7, <1>8 DEF k

LEMMA SetPrev ==
  ASSUME NEW h \in Heap, NEW x \in Item, NEW v \in Ptr
  PROVE  /\ Rewired(h, set_prev(h, x, v))
         /\ \A y \in Item : /\ set_prev(h, x, v).f[y].prev = IF y = x THEN v ELSE h.f[y].prev
                            /\ set_prev(h, x, v).f[y].next = h.f[y].next
                            /\ set_prev(h, x, v).f[y].child = h.f[y].child
<1> DEFINE node == [h.f[x] EXCEPT !.prev = v]
           g == [h EXCEPT !.f[x] = node]
           k == set_prev(h, x, v)
<1>1. h.f[x] \in Node /\ h.f \in [Item -> Node]
  BY HeapFields
<1>2. /\ node \in Node /\ node.prev = v /\ node.next = h.f[x].next /\ node.child = h.f[x].child
      /\ node.string = h.f[x].string /\ node.copied = h.f[x].copied
      /\ node.IsReference = h.f[x].IsReference /\ node.StringIsConst = h.f[x].StringIsConst
  BY <1>1 DEF Node
<1>3. k = g
  BY <1>1 DEF Heap, set_prev
<1> HIDE DEF node
<1>4. g \in Heap
  BY <1>2, SetNode
<1>5. /\ g.live = h.live /\ g.keys = h.keys /\ g.badfree = h.badfree
      /\ \A y \in Item : g.f[y] = IF y = x THEN node ELSE h.f[y]
  BY <1>1 DEF Heap
<1> HIDE DEF g, k
<1>6. SameNames(h, k)
  BY <1>2, <1>3, <1>5 DEF SameNames
<1>7. Rewired(h, k)
  BY <1>2, <1>3, <1>4, <1>5, <1>6 DEF Rewired
<1>8. \A y \in Item : /\ k.f[y].prev = IF y = x THEN v ELSE h.f[y].prev
                      /\ k.f[y].next = h.f[y].next /\ k.f[y].child = h.f[y].child
  BY <1>2, <1>3, <1>5
<1> QED BY <1>7, <1>8 DEF k

LEMMA SetChild ==
  ASSUME NEW h \in Heap, NEW x \in Item, NEW v \in Ptr
  PROVE  /\ Rewired(h, set_child(h, x, v))
         /\ \A y \in Item : /\ set_child(h, x, v).f[y].child = IF y = x THEN v ELSE h.f[y].child
                            /\ set_child(h, x, v).f[y].next = h.f[y].next
                            /\ set_child(h, x, v).f[y].prev = h.f[y].prev
<1> DEFINE node == [h.f[x] EXCEPT !.child = v]
           g == [h EXCEPT !.f[x] = node]
           k == set_child(h, x, v)
<1>1. h.f[x] \in Node /\ h.f \in [Item -> Node]
  BY HeapFields
<1>2. /\ node \in Node /\ node.child = v /\ node.next = h.f[x].next /\ node.prev = h.f[x].prev
      /\ node.string = h.f[x].string /\ node.copied = h.f[x].copied
      /\ node.IsReference = h.f[x].IsReference /\ node.StringIsConst = h.f[x].StringIsConst
  BY <1>1 DEF Node
<1>3. k = g
  BY <1>1 DEF Heap, set_child
<1> HIDE DEF node
<1>4. g \in Heap
  BY <1>2, SetNode
<1>5. /\ g.live = h.live /\ g.keys = h.keys /\ g.badfree = h.badfree
      /\ \A y \in Item : g.f[y] = IF y = x THEN node ELSE h.f[y]
  BY <1>1 DEF Heap
<1> HIDE DEF g, k
<1>6. SameNames(h, k)
  BY <1>2, <1>3, <1>5 DEF SameNames
<1>7. Rewired(h, k)
  BY <1>2, <1>3, <1>4, <1>5, <1>6 DEF Rewired
<1>8. \A y \in Item : /\ k.f[y].child = IF y = x THEN v ELSE h.f[y].child
                      /\ k.f[y].next = h.f[y].next /\ k.f[y].prev = h.f[y].prev
  BY <1>2, <1>3, <1>5
<1> QED BY <1>7, <1>8 DEF k

\* Two, three and more writes, each with its lemma
LEMMA RewiredAgain ==
  ASSUME NEW h, NEW g, NEW k, Rewired(h, g), Rewired(g, k) PROVE Rewired(h, k)
<1> USE DEF Rewired, SameNames
<1> QED OBVIOUS

\* With the pointers rewired and the lists linked the heap is sound again.
LEMMA RewiredSound ==
  ASSUME NEW h \in Heap, Names(h), NEW g, Rewired(h, g),
         NEW own, NEW pos, NEW len, Shaped(g, own, pos, len, NULL)
  PROVE  Sound(g, Roots(g, own)) /\ g.live = h.live /\ Kept(h, g)
<1>1. Names(g) /\ g \in Heap /\ g.live = h.live
  BY NamesCarry DEF Rewired, SameNames
<1>2. Kept(h, g)
  BY HeapFields DEF Kept, Rewired
<1>3. Sound(g, Roots(g, own))
  BY <1>1 DEF Sound
<1> QED BY <1>1, <1>2, <1>3

-------------------------------------------------------------------------------
(* Adding                                                                      *)

LEMMA AddShaped ==
  ASSUME NEW h, NEW own, NEW pos, NEW len, Shaped(h, own, pos, len, NULL),
         NEW a \in ListsOf(h), NEW i \in h.live, own[i] = NULL, a # i
  PROVE  /\ add_item_to_array(h, a, i).r = TRUE
         /\ Rewired(h, add_item_to_array(h, a, i).h)
         /\ PutPointers(h, add_item_to_array(h, a, i).h, own, pos, len, a, i, len[a] + 1)
<1> DEFINE first == h.f[a].child
           last == h.f[first].prev
           answer == add_item_to_array(h, a, i)
<1>0. /\ h \in Heap /\ h.live \subseteq Item /\ NULL \notin Item /\ i \in Item /\ a \in Item
      /\ i # NULL /\ a # NULL /\ len[a] \in Nat
  BY HeapFields DEF Shaped, ListsOf, Ranked
<1>1. /\ \A x \in Item : own[x] # NULL =>
           /\ pos[x] \in Nat /\ pos[x] >= 1 /\ pos[x] <= len[own[x]]
      /\ \A x, y \in Item : own[x] # NULL /\ own[x] = own[y] /\ pos[x] = pos[y] => x = y
  <2>1. \A x \in Item : own[x] # NULL => own[x] \in Item /\ len[own[x]] \in Nat
                                         /\ pos[x] \in 1..len[own[x]]
    BY DEF Shaped, Ranked, Ptr
  <2> QED BY <2>1 DEF Shaped, Ranked
<1>2. CASE len[a] = 0
  <2>1. first = NULL
    BY <1>2 DEF Shaped, Linked
  <2> DEFINE g1 == set_child(h, a, i)
             g2 == set_prev(g1, i, i)
             g3 == set_next(g2, i, NULL)
  <2>2. answer = Answer(g3, TRUE)
    BY <2>1, <1>0 DEF add_item_to_array
  <2>3. Rewired(h, g1) /\ \A y \in Item : /\ g1.f[y].child = IF y = a THEN i ELSE h.f[y].child
                                          /\ g1.f[y].next = h.f[y].next /\ g1.f[y].prev = h.f[y].prev
    BY <1>0, SetChild DEF Ptr
  <2>4. g1 \in Heap
    BY <2>3 DEF Rewired
  <2> HIDE DEF g1
  <2>5. Rewired(g1, g2) /\ \A y \in Item : /\ g2.f[y].prev = IF y = i THEN i ELSE g1.f[y].prev
                                           /\ g2.f[y].next = g1.f[y].next /\ g2.f[y].child = g1.f[y].child
    BY <1>0, <2>4, SetPrev DEF Ptr
  <2>6. g2 \in Heap
    BY <2>5 DEF Rewired
  <2> HIDE DEF g2
  <2>7. Rewired(g2, g3) /\ \A y \in Item : /\ g3.f[y].next = IF y = i THEN NULL ELSE g2.f[y].next
                                           /\ g3.f[y].prev = g2.f[y].prev /\ g3.f[y].child = g2.f[y].child
    BY <1>0, <2>6, SetNext DEF Ptr
  <2> HIDE DEF g3
  <2>8. Rewired(h, g3)
    BY <2>3, <2>5, <2>7, RewiredAgain
  <2>9. \A x \in Item : own[x] # a
    BY <1>1, <1>2, <1>0
  <2>10. PutPointers(h, g3, own, pos, len, a, i, len[a] + 1)
    BY <2>3, <2>5, <2>7, <2>8, <2>9, <1>0, <1>2 DEF PutPointers, Rewired, SameNames
  <2> QED BY <2>2, <2>8, <2>10 DEF Answer
<1>3. CASE len[a] # 0
  <2>0. 1 \in 1..len[a] /\ len[a] \in 1..len[a]
    BY <1>0, <1>3
  <2>1. PICK x1 \in Item : own[x1] = a /\ pos[x1] = 1
    BY <2>0, <1>0 DEF Shaped, Ranked
  <2>2. PICK x2 \in Item : own[x2] = a /\ pos[x2] = len[a]
    BY <2>0, <1>0 DEF Shaped, Ranked
  <2>3. first = x1 /\ last = x2 /\ first # NULL /\ last # NULL
    <3>1. first = x1
      BY <2>1, <1>0 DEF Shaped, Linked
    <3>2. h.f[x1].prev = x2
      BY <2>1, <2>2, <1>0 DEF Shaped, Backed
    <3> QED BY <3>1, <3>2, <1>0
  <2> DEFINE g1 == set_next(h, last, i)
             g2 == set_prev(g1, i, last)
             g3 == set_prev(g2, first, i)
  <2>4. answer = Answer(g3, TRUE)
    BY <2>3, <1>0 DEF add_item_to_array, suffix_object
  <2> HIDE DEF first, last
  <2>5. Rewired(h, g1) /\ \A y \in Item : /\ g1.f[y].next = IF y = x2 THEN i ELSE h.f[y].next
                                          /\ g1.f[y].child = h.f[y].child /\ g1.f[y].prev = h.f[y].prev
    BY <1>0, <2>3, SetNext DEF Ptr
  <2>6. g1 \in Heap
    BY <2>5 DEF Rewired
  <2> HIDE DEF g1
  <2>7. Rewired(g1, g2) /\ \A y \in Item : /\ g2.f[y].prev = IF y = i THEN x2 ELSE g1.f[y].prev
                                           /\ g2.f[y].next = g1.f[y].next /\ g2.f[y].child = g1.f[y].child
    BY <1>0, <2>3, <2>6, SetPrev DEF Ptr
  <2>8. g2 \in Heap
    BY <2>7 DEF Rewired
  <2> HIDE DEF g2
  <2>9. Rewired(g2, g3) /\ \A y \in Item : /\ g3.f[y].prev = IF y = x1 THEN i ELSE g2.f[y].prev
                                           /\ g3.f[y].next = g2.f[y].next /\ g3.f[y].child = g2.f[y].child
    BY <1>0, <2>3, <2>8, SetPrev DEF Ptr
  <2> HIDE DEF g3
  <2>10. Rewired(h, g3)
    BY <2>5, <2>7, <2>9, RewiredAgain
  <2>11. /\ \A x \in Item : own[x] = a /\ pos[x] + 1 = len[a] + 1 <=> x = x2
         /\ \A x \in Item : own[x] = a /\ pos[x] = 1 <=> x = x1
         /\ \A x \in Item : ~(own[x] = a /\ pos[x] = len[a] + 1)
         /\ x1 # i /\ x2 # i
    <3>1. \A x \in Item : own[x] = a => pos[x] \in Nat /\ pos[x] <= len[a]
      BY <1>0, <1>1
    <3>2. \A x \in Item : own[x] = a /\ pos[x] = pos[x2] => x = x2
      BY <1>0, <1>1, <2>2
    <3>3. \A x \in Item : own[x] = a /\ pos[x] = pos[x1] => x = x1
      BY <1>0, <1>1, <2>1
    <3> QED BY <3>1, <3>2, <3>3, <2>1, <2>2, <1>0
  <2>12. h.f[i].next = NULL
    BY DEF Shaped, Loose
  <2>13. PutPointers(h, g3, own, pos, len, a, i, len[a] + 1)
    <3>1. g3 \in Heap /\ g3.live = h.live /\ \A x \in Item : g3.f[x].IsReference = h.f[x].IsReference
      BY <2>10 DEF Rewired, SameNames
    <3>2. len[a] + 1 # 1
      BY <1>0, <1>3
    <3>3. \A x \in Item : /\ g3.f[x].child = h.f[x].child
                          /\ g3.f[x].next = IF x = x2 THEN i ELSE h.f[x].next
                          /\ g3.f[x].prev = IF x = x1 THEN i ELSE IF x = i THEN x2 ELSE h.f[x].prev
      BY <2>5, <2>7, <2>9
    <3>4. \A x \in Item : x # i =>
            g3.f[x].next = IF own[x] = a /\ pos[x] + 1 = len[a] + 1 THEN i ELSE h.f[x].next
      BY <3>3, <2>11
    <3>5. \A x \in Item : x # i =>
            g3.f[x].prev = IF own[x] = a /\ (pos[x] = len[a] + 1 \/ (pos[x] = 1 /\ len[a] + 1 = len[a] + 1))
                           THEN i ELSE h.f[x].prev
      BY <3>3, <2>11
    <3>6. g3.f[i].next = NULL
      BY <3>3, <2>11, <2>12, <1>0
    <3>7. g3.f[i].prev = x2
      BY <3>3, <2>11, <1>0
    <3>8. \A x \in Item : own[x] = a /\ (pos[x] + 1 = len[a] + 1 \/ (len[a] + 1 = 1 /\ pos[x] = len[a])) =>
            g3.f[i].prev = x
      BY <3>2, <3>7, <2>11
    <3> QED BY <3>1, <3>2, <3>3, <3>4, <3>5, <3>6, <3>8, <2>11, <1>0, <1>3 DEF PutPointers
  <2> QED BY <2>4, <2>10, <2>13 DEF Answer
<1> QED BY <1>2, <1>3

\* No item is allocated or freed.
SameItems(h, g) == g.live = h.live

LEMMA AddSound ==
  ASSUME NEW h, NEW R, Sound(h, R), NEW a \in ListsOf(h), NEW i \in R, a # i
  PROVE  /\ add_item_to_array(h, a, i).r = TRUE /\ Sound(add_item_to_array(h, a, i).h, R \ {i})
         /\ SameItems(h, add_item_to_array(h, a, i).h) /\ Kept(h, add_item_to_array(h, a, i).h)
<1>1. PICK own, pos, len : Shaped(h, own, pos, len, NULL) /\ R = Roots(h, own)
  BY DEF Sound
<1>2. i \in h.live /\ own[i] = NULL /\ h \in Heap /\ Names(h)
  BY <1>1 DEF Roots, Sound
<1>3. h.live \subseteq Item /\ a \in Item /\ NULL \notin Item /\ own \in [Item -> Ptr] /\ len[a] \in Nat
  BY <1>1, <1>2, HeapFields DEF ListsOf, Shaped, Ranked
<1> DEFINE g == add_item_to_array(h, a, i).h
           own2 == [own EXCEPT ![i] = a]
<1>4. /\ add_item_to_array(h, a, i).r = TRUE /\ Rewired(h, g)
      /\ PutPointers(h, g, own, pos, len, a, i, len[a] + 1)
  BY <1>1, <1>2, AddShaped
<1> HIDE DEF g
<1>5. len[a] + 1 \in 1..len[a] + 1
  BY <1>3
<1>6. Shaped(g, own2, PutPos(own, pos, a, i, len[a] + 1), [len EXCEPT ![a] = @ + 1], NULL)
  BY <1>1, <1>2, <1>4, <1>5, PutShapes
<1>7. Sound(g, Roots(g, own2)) /\ g.live = h.live /\ Kept(h, g)
  BY <1>2, <1>4, <1>6, RewiredSound
<1>8. Roots(g, own2) = R \ {i}
  BY <1>1, <1>2, <1>3, <1>7 DEF Roots
<1> QED BY <1>4, <1>7, <1>8 DEF g, SameItems

\* The neighbours of an item in a list
Neighbours(h, own, pos, len, a, i, first, last, prev, next) ==
  /\ own[first] = a /\ pos[first] = 1 /\ h.f[a].child = first
  /\ own[last] = a /\ pos[last] = len[a] /\ h.f[first].prev = last
  /\ h.f[i].prev = prev /\ own[prev] = a /\ prev \in Item
  /\ IF i = first THEN prev = last ELSE pos[prev] + 1 = pos[i]
  /\ h.f[i].next = next
  /\ next # NULL => next \in Item /\ own[next] = a /\ pos[next] = pos[i] + 1
  /\ next = NULL <=> i = last

LEMMA NeighboursExist ==
  ASSUME NEW h, NEW own, NEW pos, NEW len, Shaped(h, own, pos, len, NULL),
         NEW a \in Item, NEW i \in Item, own[i] = a
  PROVE  /\ \E first \in Item, last \in Item, prev \in Item, next \in Ptr :
              Neighbours(h, own, pos, len, a, i, first, last, prev, next)
         /\ \A x, y \in Item : own[x] = a /\ own[y] = a /\ pos[x] = pos[y] => x = y
         /\ \A x \in Item : own[x] = a => pos[x] \in Nat /\ pos[x] >= 1 /\ pos[x] <= len[a]
         /\ len[a] \in Nat
<1>0. h \in Heap /\ h.live \subseteq Item /\ NULL \notin Item /\ a # NULL /\ h.f[i].next \in Ptr
  BY HeapFields DEF Shaped
<1>1. /\ \A x, y \in Item : own[x] = a /\ own[y] = a /\ pos[x] = pos[y] => x = y
      /\ \A x \in Item : own[x] = a => pos[x] \in 1..len[a]
      /\ \A q \in 1..len[a] : \E x \in Item : own[x] = a /\ pos[x] = q
      /\ len[a] \in Nat
  BY <1>0 DEF Shaped, Ranked
<1>2. pos[i] \in 1..len[a] /\ i \in h.live
  BY <1>0, <1>1 DEF Shaped, Linked
<1>3. 1 \in 1..len[a] /\ len[a] \in 1..len[a]
  BY <1>1, <1>2
<1>4. PICK first \in Item : own[first] = a /\ pos[first] = 1
  BY <1>1, <1>3
<1>5. PICK last \in Item : own[last] = a /\ pos[last] = len[a]
  BY <1>1, <1>3
<1>6. h.f[a].child = first /\ h.f[first].prev = last
  <2>1. h.f[a].child = first
    BY <1>0, <1>4 DEF Shaped, Linked
  <2>2. h.f[first].prev = last
    BY <1>0, <1>4, <1>5 DEF Shaped, Backed
  <2> QED BY <2>1, <2>2
<1>7. \E prev \in Item : /\ h.f[i].prev = prev /\ own[prev] = a
                         /\ IF i = first THEN prev = last ELSE pos[prev] + 1 = pos[i]
  <2>1. CASE i = first
    BY <2>1, <1>5, <1>6
  <2>2. CASE i # first
    <3>1. pos[i] # 1
      BY <2>2, <1>1, <1>4
    <3>2. pos[i] - 1 \in 1..len[a] /\ (pos[i] - 1) + 1 = pos[i]
      BY <3>1, <1>1, <1>2
    <3>3. PICK y \in Item : own[y] = a /\ pos[y] = pos[i] - 1
      BY <3>2, <1>1
    <3>4. pos[y] + 1 = pos[i]
      BY <3>2, <3>3
    <3>5. h.f[i].prev = y
      BY <3>3, <3>4, <1>0 DEF Shaped, Backed
    <3> QED BY <3>3, <3>4, <3>5, <2>2
  <2> QED BY <2>1, <2>2
<1>8. PICK prev \in Item : /\ h.f[i].prev = prev /\ own[prev] = a
                           /\ IF i = first THEN prev = last ELSE pos[prev] + 1 = pos[i]
  BY <1>7
<1>9. h.f[i].next # NULL =>
        h.f[i].next \in Item /\ own[h.f[i].next] = a /\ pos[h.f[i].next] = pos[i] + 1
  BY <1>2, PointersLead
<1>10. h.f[i].next = NULL <=> i = last
  <2>1. ASSUME i = last PROVE h.f[i].next = NULL
    BY <2>1, <1>0, <1>5 DEF Shaped, Linked
  <2>2. ASSUME i # last PROVE h.f[i].next # NULL
    <3>1. pos[i] # len[a]
      BY <2>2, <1>1, <1>5
    <3>2. pos[i] + 1 \in 1..len[a]
      BY <3>1, <1>1, <1>2
    <3>3. PICK y \in Item : own[y] = a /\ pos[y] = pos[i] + 1
      BY <3>2, <1>1
    <3>4. h.f[i].next = y
      BY <3>3, <1>0 DEF Shaped, Linked
    <3> QED BY <3>4, <1>0
  <2> QED BY <2>1, <2>2
<1>11. Neighbours(h, own, pos, len, a, i, first, last, prev, h.f[i].next)
  BY <1>4, <1>5, <1>6, <1>8, <1>9, <1>10 DEF Neighbours
<1>12. \A x \in Item : own[x] = a => pos[x] \in Nat /\ pos[x] >= 1 /\ pos[x] <= len[a]
  BY <1>1
<1>13. \E f \in Item, l \in Item, p \in Item, n \in Ptr :
         Neighbours(h, own, pos, len, a, i, f, l, p, n)
  BY <1>11, <1>0
<1> QED BY <1>1, <1>12, <1>13

\* cJSON_InsertItemInArray before the item n of a
LEMMA InsertShaped ==
  ASSUME NEW h, NEW own, NEW pos, NEW len, Shaped(h, own, pos, len, NULL),
         NEW a \in ListsOf(h), NEW n \in Item, own[n] = a,
         NEW i \in h.live, own[i] = NULL, a # i,
         NEW which, get_array_item(h, a, which) = n
  PROVE  /\ cJSON_InsertItemInArray(h, a, which, i).r = TRUE
         /\ Rewired(h, cJSON_InsertItemInArray(h, a, which, i).h)
         /\ PutPointers(h, cJSON_InsertItemInArray(h, a, which, i).h, own, pos, len, a, i, pos[n])
<1>0. /\ h \in Heap /\ h.live \subseteq Item /\ NULL \notin Item /\ i \in Item /\ a \in Item
      /\ a # NULL /\ n # NULL
  BY HeapFields DEF Shaped, ListsOf
<1>1. PICK first \in Item, last \in Item, prev \in Item, next \in Ptr :
        Neighbours(h, own, pos, len, a, n, first, last, prev, next)
  BY <1>0, NeighboursExist
<1>2. /\ \A x, y \in Item : own[x] = a /\ own[y] = a /\ pos[x] = pos[y] => x = y
      /\ \A x \in Item : own[x] = a => pos[x] \in Nat /\ pos[x] >= 1 /\ pos[x] <= len[a]
      /\ len[a] \in Nat
  BY <1>0, NeighboursExist
<1> DEFINE g1 == set_next(h, i, n)
           g2 == set_prev(g1, i, prev)
           g3 == set_prev(g2, n, i)
           g == IF n = first THEN set_child(g3, a, i) ELSE set_next(g3, prev, i)
<1>3. cJSON_InsertItemInArray(h, a, which, i) = Answer(g, TRUE)
  <2>1. h.f[n].prev = prev /\ h.f[a].child = first /\ prev # NULL
    BY <1>0, <1>1 DEF Neighbours
  <2> QED BY <2>1, <1>0 DEF cJSON_InsertItemInArray
<1>4. Rewired(h, g1) /\ \A y \in Item : /\ g1.f[y].next = IF y = i THEN n ELSE h.f[y].next
                                        /\ g1.f[y].child = h.f[y].child /\ g1.f[y].prev = h.f[y].prev
  BY <1>0, SetNext DEF Ptr
<1>5. g1 \in Heap
  BY <1>4 DEF Rewired
<1> HIDE DEF g1
<1>6. Rewired(g1, g2) /\ \A y \in Item : /\ g2.f[y].prev = IF y = i THEN prev ELSE g1.f[y].prev
                                         /\ g2.f[y].next = g1.f[y].next /\ g2.f[y].child = g1.f[y].child
  BY <1>0, <1>5, SetPrev DEF Ptr
<1>7. g2 \in Heap
  BY <1>6 DEF Rewired
<1> HIDE DEF g2
<1>8. Rewired(g2, g3) /\ \A y \in Item : /\ g3.f[y].prev = IF y = n THEN i ELSE g2.f[y].prev
                                         /\ g3.f[y].next = g2.f[y].next /\ g3.f[y].child = g2.f[y].child
  BY <1>0, <1>7, SetPrev DEF Ptr
<1>9. g3 \in Heap
  BY <1>8 DEF Rewired
<1> HIDE DEF g3
<1>10. /\ Rewired(g3, g)
       /\ \A y \in Item : /\ g.f[y].child = IF n = first /\ y = a THEN i ELSE g3.f[y].child
                          /\ g.f[y].next = IF n # first /\ y = prev THEN i ELSE g3.f[y].next
                          /\ g.f[y].prev = g3.f[y].prev
  <2>1. CASE n = first
    BY <2>1, <1>0, <1>9, SetChild DEF Ptr
  <2>2. CASE n # first
    BY <2>2, <1>0, <1>9, SetNext DEF Ptr
  <2> QED BY <2>1, <2>2
<1> HIDE DEF g
<1>11. Rewired(h, g)
  BY <1>4, <1>6, <1>8, <1>10, RewiredAgain
<1>12. i # n /\ i # prev /\ i # a
  BY <1>0, <1>1 DEF Neighbours
<1>13. /\ \A x \in Item : own[x] = a /\ pos[x] + 1 = pos[n] <=> n # first /\ x = prev
       /\ \A x \in Item : own[x] = a /\ pos[x] = pos[n] <=> x = n
       /\ pos[n] = 1 <=> n = first
       /\ pos[n] # len[a] + 1 /\ len[a] # 0
  <2>1. own[prev] = a /\ own[first] = a /\ pos[first] = 1 /\ (n # first => pos[prev] + 1 = pos[n])
    BY <1>1 DEF Neighbours
  <2>2. pos[n] = 1 <=> n = first
    BY <2>1, <1>2
  <2>3. ASSUME NEW x \in Item, own[x] = a, pos[x] + 1 = pos[n] PROVE n # first /\ x = prev
    <3>1. n # first
      BY <2>2, <2>3, <1>2
    <3>2. pos[x] = pos[prev]
      BY <3>1, <2>1, <2>3, <1>2
    <3> QED BY <3>1, <3>2, <2>1, <2>3, <1>2
  <2>4. \A x \in Item : own[x] = a /\ pos[x] = pos[n] <=> x = n
    BY <1>2
  <2>5. pos[n] # len[a] + 1 /\ len[a] # 0
    BY <1>2
  <2> QED BY <2>1, <2>2, <2>3, <2>4, <2>5
<1>14. /\ \A x \in Item : g.f[x].child = IF n = first /\ x = a THEN i ELSE h.f[x].child
       /\ \A x \in Item : x # i => g.f[x].next = IF n # first /\ x = prev THEN i ELSE h.f[x].next
       /\ g.f[i].next = n /\ g.f[i].prev = prev
       /\ \A x \in Item : x # i => g.f[x].prev = IF x = n THEN i ELSE h.f[x].prev
  BY <1>4, <1>6, <1>8, <1>10, <1>12, <1>0
<1>15. \A x \in Item : own[x] = a /\ (pos[x] + 1 = pos[n] \/ (pos[n] = 1 /\ pos[x] = len[a])) => x = prev
  <2>1. ASSUME NEW x \in Item, own[x] = a, pos[n] = 1, pos[x] = len[a] PROVE x = prev
    BY <2>1, <1>1, <1>2, <1>13 DEF Neighbours
  <2> QED BY <2>1, <1>13
<1>16. PutPointers(h, g, own, pos, len, a, i, pos[n])
  <2>1. g \in Heap /\ g.live = h.live /\ \A x \in Item : g.f[x].IsReference = h.f[x].IsReference
    BY <1>11 DEF Rewired, SameNames
  <2>2. \A x \in Item : x # a => g.f[x].child = h.f[x].child
    BY <1>14
  <2>3. g.f[a].child = IF pos[n] = 1 THEN i ELSE h.f[a].child
    BY <1>0, <1>13, <1>14
  <2>4. \A x \in Item : x # i => g.f[x].next = IF own[x] = a /\ pos[x] + 1 = pos[n] THEN i ELSE h.f[x].next
    BY <1>13, <1>14
  <2>5. \A x \in Item : own[x] = a /\ pos[x] = pos[n] => g.f[i].next = x
    BY <1>13, <1>14
  <2>6. \A x \in Item : x # i =>
          g.f[x].prev = IF own[x] = a /\ (pos[x] = pos[n] \/ (pos[x] = 1 /\ pos[n] = len[a] + 1)) THEN i
                        ELSE h.f[x].prev
    BY <1>13, <1>14
  <2>7. \A x \in Item : own[x] = a /\ (pos[x] + 1 = pos[n] \/ (pos[n] = 1 /\ pos[x] = len[a])) =>
          g.f[i].prev = x
    BY <1>14, <1>15
  <2> QED BY <2>1, <2>2, <2>3, <2>4, <2>5, <2>6, <2>7, <1>13 DEF PutPointers
<1> QED BY <1>3, <1>11, <1>16 DEF Answer

\* cJSON_DetachItemViaPointer of a child
LEMMA DetachShaped ==
  ASSUME NEW h, NEW own, NEW pos, NEW len, Shaped(h, own, pos, len, NULL),
         NEW a \in Item, NEW i \in Item, own[i] = a
  PROVE  /\ cJSON_DetachItemViaPointer(h, a, i).r = i
         /\ Rewired(h, cJSON_DetachItemViaPointer(h, a, i).h)
         /\ CutPointers(h, cJSON_DetachItemViaPointer(h, a, i).h, own, pos, len, a, i)
<1>0. h \in Heap /\ h.live \subseteq Item /\ NULL \notin Item /\ a # NULL /\ i # NULL
  BY HeapFields DEF Shaped
<1>1. PICK first \in Item, last \in Item, prev \in Item, next \in Ptr :
        Neighbours(h, own, pos, len, a, i, first, last, prev, next)
  BY <1>0, NeighboursExist
<1>2. /\ \A x, y \in Item : own[x] = a /\ own[y] = a /\ pos[x] = pos[y] => x = y
      /\ \A x \in Item : own[x] = a => pos[x] \in Nat /\ pos[x] >= 1 /\ pos[x] <= len[a]
      /\ len[a] \in Nat
  BY <1>0, NeighboursExist
<1> DEFINE bypassed == IF i # first THEN set_next(h, prev, next) ELSE h
           back == IF next # NULL THEN set_prev(bypassed, next, prev) ELSE bypassed
           ends == IF i = first THEN set_child(back, a, next)
                   ELSE IF next = NULL THEN set_prev(back, first, prev) ELSE back
           g1 == set_prev(ends, i, NULL)
           g == set_next(g1, i, NULL)
<1>3. cJSON_DetachItemViaPointer(h, a, i) = Answer(g, i)
  BY <1>0, <1>1 DEF cJSON_DetachItemViaPointer, Neighbours
<1>4. Rewired(h, h)
  BY <1>0 DEF Rewired, SameNames
<1>5. /\ Rewired(h, bypassed)
      /\ \A y \in Item : /\ bypassed.f[y].next = IF i # first /\ y = prev THEN next ELSE h.f[y].next
                         /\ bypassed.f[y].prev = h.f[y].prev /\ bypassed.f[y].child = h.f[y].child
  <2>1. CASE i # first
    BY <2>1, <1>0, SetNext
  <2>2. CASE i = first
    BY <2>2, <1>4
  <2> QED BY <2>1, <2>2
<1>6. bypassed \in Heap
  BY <1>5 DEF Rewired
<1> HIDE DEF bypassed
<1>7. /\ Rewired(bypassed, back)
      /\ \A y \in Item : /\ back.f[y].prev = IF next # NULL /\ y = next THEN prev ELSE bypassed.f[y].prev
                         /\ back.f[y].next = bypassed.f[y].next /\ back.f[y].child = bypassed.f[y].child
  <2>1. CASE next # NULL
    BY <2>1, <1>6, SetPrev DEF Ptr
  <2>2. CASE next = NULL
    BY <2>2, <1>6 DEF Rewired, SameNames
  <2> QED BY <2>1, <2>2
<1>8. back \in Heap
  BY <1>7 DEF Rewired
<1> HIDE DEF back
<1>9. /\ Rewired(back, ends)
      /\ \A y \in Item : /\ ends.f[y].child = IF i = first /\ y = a THEN next ELSE back.f[y].child
                         /\ ends.f[y].prev = IF i # first /\ next = NULL /\ y = first THEN prev
                                             ELSE back.f[y].prev
                         /\ ends.f[y].next = back.f[y].next
  <2>1. CASE i = first
    BY <2>1, <1>8, SetChild
  <2>2. CASE i # first /\ next = NULL
    BY <2>2, <1>8, SetPrev DEF Ptr
  <2>3. CASE i # first /\ next # NULL
    BY <2>3, <1>8 DEF Rewired, SameNames
  <2> QED BY <2>1, <2>2, <2>3
<1>10. ends \in Heap
  BY <1>9 DEF Rewired
<1> HIDE DEF ends
<1>11. Rewired(ends, g1) /\ \A y \in Item : /\ g1.f[y].prev = IF y = i THEN NULL ELSE ends.f[y].prev
                                            /\ g1.f[y].next = ends.f[y].next
                                            /\ g1.f[y].child = ends.f[y].child
  BY <1>10, SetPrev DEF Ptr
<1>12. g1 \in Heap
  BY <1>11 DEF Rewired
<1> HIDE DEF g1
<1>13. Rewired(g1, g) /\ \A y \in Item : /\ g.f[y].next = IF y = i THEN NULL ELSE g1.f[y].next
                                         /\ g.f[y].prev = g1.f[y].prev /\ g.f[y].child = g1.f[y].child
  BY <1>12, SetNext DEF Ptr
<1> HIDE DEF g
<1>14. Rewired(h, g)
  BY <1>5, <1>7, <1>9, <1>11, <1>13, RewiredAgain
<1>15. /\ \A x \in Item : g.f[x].child = IF i = first /\ x = a THEN next ELSE h.f[x].child
       /\ g.f[i].next = NULL /\ g.f[i].prev = NULL
       /\ \A x \in Item : x # i => g.f[x].next = IF i # first /\ x = prev THEN next ELSE h.f[x].next
       /\ \A x \in Item : x # i =>
            g.f[x].prev = IF (next # NULL /\ x = next) \/ (i # first /\ next = NULL /\ x = first)
                          THEN prev ELSE h.f[x].prev
  BY <1>5, <1>7, <1>9, <1>11, <1>13
<1>16. pos[i] = 1 <=> i = first
  BY <1>1, <1>2 DEF Neighbours
<1>17. \A x \in Item : own[x] = a /\ pos[x] + 1 = pos[i] <=> i # first /\ x = prev
  <2>1. own[prev] = a /\ (i # first => pos[prev] + 1 = pos[i])
    BY <1>1 DEF Neighbours
  <2>2. ASSUME NEW x \in Item, own[x] = a, pos[x] + 1 = pos[i] PROVE i # first /\ x = prev
    <3>1. i # first
      BY <2>2, <1>2, <1>16
    <3>2. pos[x] = pos[prev]
      BY <3>1, <2>1, <2>2, <1>2
    <3> QED BY <3>1, <3>2, <2>1, <2>2, <1>2
  <2> QED BY <2>1, <2>2
<1>18. \A x \in Item : x # i =>
         ((own[x] = a /\ (pos[x] = pos[i] + 1 \/ (pos[x] = 1 /\ pos[i] = len[a])))
          <=> (next # NULL /\ x = next) \/ (i # first /\ next = NULL /\ x = first))
  <2>1. /\ next # NULL => next \in Item /\ own[next] = a /\ pos[next] = pos[i] + 1
        /\ own[first] = a /\ pos[first] = 1
        /\ own[last] = a /\ pos[last] = len[a] /\ (next = NULL <=> i = last)
    BY <1>1 DEF Neighbours
  <2>2. pos[i] = len[a] <=> next = NULL
    BY <2>1, <1>2
  <2>3. ASSUME NEW x \in Item, x # i, own[x] = a, pos[x] = pos[i] + 1
        PROVE  next # NULL /\ x = next
    <3>1. pos[i] # len[a]
      BY <2>3, <1>2
    <3> QED BY <3>1, <2>1, <2>2, <2>3, <1>2
  <2>4. ASSUME NEW x \in Item, x # i, own[x] = a, pos[x] = 1, pos[i] = len[a]
        PROVE  i # first /\ next = NULL /\ x = first
    BY <2>1, <2>2, <2>4, <1>2
  <2> QED BY <2>1, <2>2, <2>3, <2>4
<1>19. CutPointers(h, g, own, pos, len, a, i)
  <2>1. g \in Heap /\ g.live = h.live /\ \A x \in Item : g.f[x].IsReference = h.f[x].IsReference
    BY <1>14 DEF Rewired, SameNames
  <2>2. h.f[i].next = next /\ h.f[i].prev = prev
    BY <1>1 DEF Neighbours
  <2>3. g.f[a].child = IF pos[i] = 1 THEN h.f[i].next ELSE h.f[a].child
    BY <2>2, <1>15, <1>16
  <2>4. \A x \in Item : x # a => g.f[x].child = h.f[x].child
    BY <1>15
  <2>5. \A x \in Item : x # i =>
          g.f[x].next = IF own[x] = a /\ pos[x] + 1 = pos[i] THEN h.f[i].next ELSE h.f[x].next
    BY <2>2, <1>15, <1>17
  <2>6. \A x \in Item : x # i =>
          g.f[x].prev = IF own[x] = a /\ (pos[x] = pos[i] + 1 \/ (pos[x] = 1 /\ pos[i] = len[a]))
                        THEN h.f[i].prev ELSE h.f[x].prev
    BY <2>2, <1>15, <1>18
  <2> QED BY <2>1, <2>3, <2>4, <2>5, <2>6, <1>15 DEF CutPointers
<1> QED BY <1>3, <1>14, <1>19 DEF Answer

\* cJSON_ReplaceItemViaPointer of a child, by a root: the heap it deletes from
ReplacedFrom(h, g, own, pos, len, a, i, n) ==
  /\ cJSON_ReplaceItemViaPointer(h, a, i, n) = Answer(cJSON_Delete(g, i), TRUE)
  /\ Rewired(h, g) /\ SwapPointers(h, g, own, pos, len, a, i, n)

LEMMA ReplaceShaped ==
  ASSUME NEW h, NEW own, NEW pos, NEW len, Shaped(h, own, pos, len, NULL),
         NEW a \in Item, NEW i \in Item, own[i] = a, NEW n \in h.live, own[n] = NULL, a # n
  PROVE  \E g : ReplacedFrom(h, g, own, pos, len, a, i, n)
<1>0. /\ h \in Heap /\ h.live \subseteq Item /\ NULL \notin Item /\ n \in Item
      /\ a # NULL /\ i # NULL /\ n # NULL /\ n # i
  BY HeapFields DEF Shaped
<1> DEFINE first == h.f[a].child
           prev == h.f[i].prev
           next == h.f[i].next
<1>1. /\ first \in Item /\ prev \in Item /\ next \in Ptr
      /\ \E last \in Item : Neighbours(h, own, pos, len, a, i, first, last, prev, next)
  <2>1. PICK f \in Item, l \in Item, p \in Item, x \in Ptr :
          Neighbours(h, own, pos, len, a, i, f, l, p, x)
    BY <1>0, NeighboursExist
  <2>2. f = first /\ p = prev /\ x = next
    BY <2>1 DEF Neighbours
  <2> HIDE DEF first, prev, next
  <2> QED BY <2>1, <2>2
<1>2. /\ \A x, y \in Item : own[x] = a /\ own[y] = a /\ pos[x] = pos[y] => x = y
      /\ \A x \in Item : own[x] = a => pos[x] \in Nat /\ pos[x] >= 1 /\ pos[x] <= len[a]
      /\ len[a] \in Nat
  BY <1>0, NeighboursExist
<1> PICK last \in Item : Neighbours(h, own, pos, len, a, i, first, last, prev, next)
  BY <1>1
<1>3. /\ own[first] = a /\ pos[first] = 1 /\ h.f[a].child = first
      /\ own[last] = a /\ pos[last] = len[a] /\ h.f[first].prev = last
      /\ h.f[i].prev = prev /\ own[prev] = a /\ (i = first => prev = last)
      /\ (i # first => pos[prev] + 1 = pos[i])
      /\ h.f[i].next = next /\ (next = NULL <=> i = last)
      /\ (next # NULL => next \in Item /\ own[next] = a /\ pos[next] = pos[i] + 1)
  <2> HIDE DEF first, prev, next
  <2> QED BY DEF Neighbours
<1>4. n # first /\ n # last /\ n # prev /\ n # next
  <2> HIDE DEF first, prev, next
  <2> QED BY <1>0, <1>3
<1> DEFINE put1 == set_next(h, n, next)
           put == set_prev(put1, n, prev)
           back == IF next # NULL THEN set_prev(put, next, n) ELSE put
           only == back.f[first].prev = first
           g1 == IF i = first THEN set_child(back, a, n)
                 ELSE IF prev # NULL THEN set_next(back, prev, n) ELSE back
           g2 == IF i = first THEN set_prev(g1, n, IF only THEN n ELSE back.f[n].prev)
                 ELSE IF next = NULL THEN set_prev(g1, first, n) ELSE g1
           g3 == set_next(g2, i, NULL)
           g == set_prev(g3, i, NULL)
<1>5. cJSON_ReplaceItemViaPointer(h, a, i, n) = Answer(cJSON_Delete(g, i), TRUE)
  <2>1. first # NULL
    BY <1>0, <1>1
  <2> DEFINE asfirst == set_prev(set_child(back, a, n), n, IF only THEN n ELSE back.f[n].prev)
             after == IF prev # NULL THEN set_next(back, prev, n) ELSE back
             aslast == IF next = NULL THEN set_prev(after, first, n) ELSE after
             linked == IF i = first THEN asfirst ELSE aslast
             alone == set_prev(set_next(linked, i, NULL), i, NULL)
  <2>2. cJSON_ReplaceItemViaPointer(h, a, i, n) = Answer(cJSON_Delete(alone, i), TRUE)
    BY <2>1, <1>0 DEF cJSON_ReplaceItemViaPointer
  <2>3. linked = g2
    <3> HIDE DEF back, only
    <3>1. CASE i = first
      BY <3>1
    <3>2. CASE i # first
      BY <3>2
    <3> QED BY <3>1, <3>2
  <2> HIDE DEF linked, g2
  <2> QED BY <2>2, <2>3
<1> HIDE DEF first, prev, next
<1>6. Rewired(h, put1) /\ \A y \in Item : /\ put1.f[y].next = IF y = n THEN next ELSE h.f[y].next
                                          /\ put1.f[y].prev = h.f[y].prev
                                          /\ put1.f[y].child = h.f[y].child
  BY <1>0, <1>1, SetNext
<1>7. put1 \in Heap
  BY <1>6 DEF Rewired
<1> HIDE DEF put1
<1>8. Rewired(put1, put) /\ \A y \in Item : /\ put.f[y].prev = IF y = n THEN prev ELSE put1.f[y].prev
                                            /\ put.f[y].next = put1.f[y].next
                                            /\ put.f[y].child = put1.f[y].child
  BY <1>0, <1>1, <1>7, SetPrev DEF Ptr
<1>9. put \in Heap
  BY <1>8 DEF Rewired
<1> HIDE DEF put
<1>10. /\ Rewired(put, back)
       /\ \A y \in Item : /\ back.f[y].prev = IF next # NULL /\ y = next THEN n ELSE put.f[y].prev
                          /\ back.f[y].next = put.f[y].next /\ back.f[y].child = put.f[y].child
  <2>1. CASE next # NULL
    BY <2>1, <1>0, <1>3, <1>9, SetPrev DEF Ptr
  <2>2. CASE next = NULL
    BY <2>2, <1>9 DEF Rewired, SameNames
  <2> QED BY <2>1, <2>2
<1>11. back \in Heap
  BY <1>10 DEF Rewired
<1> HIDE DEF back
<1>12. i = first => (only <=> len[a] = 1)
  <2>1. ASSUME i = first PROVE only <=> len[a] = 1
    <3>1. next # NULL => next # first
      BY <2>1, <1>2, <1>3
    <3>2. back.f[first].prev = last
      BY <3>1, <1>1, <1>3, <1>4, <1>6, <1>8, <1>10
    <3>3. last = first <=> len[a] = 1
      BY <1>1, <1>2, <1>3
    <3> QED BY <3>2, <3>3
  <2> QED BY <2>1
<1> HIDE DEF only
<1>13. /\ Rewired(back, g1)
       /\ \A y \in Item : /\ g1.f[y].child = IF i = first /\ y = a THEN n ELSE back.f[y].child
                          /\ g1.f[y].next = IF i # first /\ y = prev THEN n ELSE back.f[y].next
                          /\ g1.f[y].prev = back.f[y].prev
  <2>1. CASE i = first
    BY <2>1, <1>0, <1>11, SetChild DEF Ptr
  <2>2. CASE i # first
    <3>1. g1 = set_next(back, prev, n)
      BY <2>2, <1>0, <1>1
    <3> HIDE DEF g1
    <3> QED BY <3>1, <2>2, <1>0, <1>1, <1>11, SetNext DEF Ptr
  <2> QED BY <2>1, <2>2
<1>14. g1 \in Heap
  BY <1>13 DEF Rewired
<1> HIDE DEF g1
<1>15. /\ Rewired(g1, g2)
       /\ \A y \in Item : /\ g2.f[y].prev = IF i = first /\ y = n /\ only THEN n
                                            ELSE IF i # first /\ next = NULL /\ y = first THEN n
                                            ELSE g1.f[y].prev
                          /\ g2.f[y].next = g1.f[y].next /\ g2.f[y].child = g1.f[y].child
  <2>1. CASE i = first /\ only
    BY <2>1, <1>0, <1>14, SetPrev DEF Ptr
  <2>2. CASE i = first /\ ~only
    <3>1. back.f[n].prev \in Ptr /\ back.f[n].prev = g1.f[n].prev
      BY <1>0, <1>11, <1>13, HeapFields
    <3> HIDE DEF g2
    <3>2. g2 = set_prev(g1, n, back.f[n].prev)
      BY <2>2 DEF g2
    <3>3. /\ Rewired(g1, g2)
          /\ \A y \in Item : /\ g2.f[y].prev = IF y = n THEN back.f[n].prev ELSE g1.f[y].prev
                             /\ g2.f[y].next = g1.f[y].next /\ g2.f[y].child = g1.f[y].child
      BY <3>1, <3>2, <1>0, <1>14, SetPrev
    <3> QED BY <3>1, <3>3, <2>2
  <2>3. CASE i # first /\ next = NULL
    BY <2>3, <1>0, <1>1, <1>14, SetPrev DEF Ptr
  <2>4. CASE i # first /\ next # NULL
    BY <2>4, <1>14 DEF Rewired, SameNames
  <2> QED BY <2>1, <2>2, <2>3, <2>4
<1>16. g2 \in Heap
  BY <1>15 DEF Rewired
<1> HIDE DEF g2
<1>17. Rewired(g2, g3) /\ \A y \in Item : /\ g3.f[y].next = IF y = i THEN NULL ELSE g2.f[y].next
                                          /\ g3.f[y].prev = g2.f[y].prev /\ g3.f[y].child = g2.f[y].child
  BY <1>16, SetNext DEF Ptr
<1>18. g3 \in Heap
  BY <1>17 DEF Rewired
<1> HIDE DEF g3
<1>19. Rewired(g3, g) /\ \A y \in Item : /\ g.f[y].prev = IF y = i THEN NULL ELSE g3.f[y].prev
                                         /\ g.f[y].next = g3.f[y].next /\ g.f[y].child = g3.f[y].child
  BY <1>18, SetPrev DEF Ptr
<1> HIDE DEF g
<1>20. Rewired(h, g)
  <2>1. Rewired(h, back)
    BY <1>6, <1>8, <1>10, RewiredAgain
  <2>2. Rewired(back, g2)
    BY <1>13, <1>15, RewiredAgain
  <2>3. Rewired(g2, g)
    BY <1>17, <1>19, RewiredAgain
  <2> QED BY <2>1, <2>2, <2>3, RewiredAgain
<1>21. /\ \A x \in Item : g.f[x].child = IF i = first /\ x = a THEN n ELSE h.f[x].child
       /\ g.f[i].next = NULL /\ g.f[i].prev = NULL
       /\ g.f[n].next = next
       /\ \A x \in Item : x # i /\ x # n =>
            g.f[x].next = IF i # first /\ x = prev THEN n ELSE h.f[x].next
  BY <1>0, <1>4, <1>6, <1>8, <1>10, <1>13, <1>15, <1>17, <1>19
<1>22. \A x \in Item : x # i =>
         g.f[x].prev = IF i = first /\ x = n /\ only THEN n
                       ELSE IF i # first /\ next = NULL /\ x = first THEN n
                       ELSE IF next # NULL /\ x = next THEN n
                       ELSE IF x = n THEN prev ELSE h.f[x].prev
  BY <1>6, <1>8, <1>10, <1>13, <1>15, <1>17, <1>19
<1>23. pos[i] = 1 <=> i = first
  BY <1>1, <1>2, <1>3
<1>24. \A x \in Item : own[x] = a /\ pos[x] + 1 = pos[i] <=> i # first /\ x = prev
  <2>1. ASSUME NEW x \in Item, own[x] = a, pos[x] + 1 = pos[i] PROVE i # first /\ x = prev
    <3>1. i # first
      BY <2>1, <1>2, <1>23
    <3>2. pos[x] = pos[prev]
      BY <3>1, <2>1, <1>1, <1>2, <1>3
    <3> QED BY <3>1, <3>2, <2>1, <1>1, <1>2, <1>3
  <2> QED BY <2>1, <1>3
<1>25. \A x \in Item : x # i =>
         ((own[x] = a /\ (pos[x] = pos[i] + 1 \/ (pos[x] = 1 /\ pos[i] = len[a])))
          <=> (next # NULL /\ x = next) \/ (i # first /\ next = NULL /\ x = first))
  <2>1. pos[i] = len[a] <=> next = NULL
    BY <1>2, <1>3
  <2>2. ASSUME NEW x \in Item, x # i, own[x] = a, pos[x] = pos[i] + 1
        PROVE  next # NULL /\ x = next
    <3>1. pos[i] # len[a]
      BY <2>2, <1>2
    <3> QED BY <3>1, <2>1, <2>2, <1>2, <1>3
  <2>3. ASSUME NEW x \in Item, x # i, own[x] = a, pos[x] = 1, pos[i] = len[a]
        PROVE  i # first /\ next = NULL /\ x = first
    BY <2>1, <2>3, <1>1, <1>2, <1>3
  <2> QED BY <2>1, <2>2, <2>3, <1>3
<1>26. i # first => len[a] # 1
  BY <1>2, <1>3, <1>23
<1>27. SwapPointers(h, g, own, pos, len, a, i, n)
  <2>1. g \in Heap /\ g.live = h.live /\ \A x \in Item : g.f[x].IsReference = h.f[x].IsReference
    BY <1>20 DEF Rewired, SameNames
  <2>2. g.f[a].child = IF pos[i] = 1 THEN n ELSE h.f[a].child
    BY <1>21, <1>23
  <2>3. \A x \in Item : x # a => g.f[x].child = h.f[x].child
    BY <1>21
  <2>4. g.f[n].next = h.f[i].next
    BY <1>21 DEF next
  <2>5. g.f[n].prev = IF len[a] = 1 THEN n ELSE h.f[i].prev
    <3>1. g.f[n].prev = IF i = first /\ only THEN n ELSE prev
      BY <1>0, <1>4, <1>22
    <3> QED BY <3>1, <1>3, <1>12, <1>26
  <2>6. \A x \in Item : x # i /\ x # n =>
          g.f[x].next = IF own[x] = a /\ pos[x] + 1 = pos[i] THEN n ELSE h.f[x].next
    BY <1>21, <1>24
  <2>7. \A x \in Item : x # i /\ x # n =>
          g.f[x].prev = IF (next # NULL /\ x = next) \/ (i # first /\ next = NULL /\ x = first)
                        THEN n ELSE h.f[x].prev
    BY <1>22
  <2>8. \A x \in Item : x # i /\ x # n =>
          g.f[x].prev = IF own[x] = a /\ (pos[x] = pos[i] + 1 \/ (pos[x] = 1 /\ pos[i] = len[a]))
                        THEN n ELSE h.f[x].prev
    BY <2>7, <1>25
  <2> QED BY <2>1, <2>2, <2>3, <2>4, <2>5, <2>6, <2>8, <1>21 DEF SwapPointers
<1>28. ReplacedFrom(h, g, own, pos, len, a, i, n)
  BY <1>5, <1>20, <1>27 DEF ReplacedFrom
<1> QED BY <1>28

-------------------------------------------------------------------------------
(* The calls on lists                                                          *)

\* A list of a sound heap and its children
LEMMA SoundChildren ==
  ASSUME NEW h, NEW R, Sound(h, R), NEW a \in ListsOf(h),
         NEW own, NEW pos, NEW len, Shaped(h, own, pos, len, NULL)
  PROVE  /\ Children(h, a) \in Seq(Item) /\ Len(Children(h, a)) = len[a]
         /\ \A i : i \in ToSet(Children(h, a)) => i \in Item /\ own[i] = a /\ i \in h.live
<1>0. h \in Heap /\ NULL \notin Item /\ a \in Item
  BY HeapFields DEF Sound, ListsOf
<1>1. /\ Children(h, a) \in Seq(Item) /\ Len(Children(h, a)) = len[a]
      /\ DOMAIN Children(h, a) = 1..len[a]
      /\ \A k \in 1..len[a] : Children(h, a)[k] \in Item /\ own[Children(h, a)[k]] = a
  <2>1. Ranked(own, pos, len) /\ Linked(h, own, pos, len)
    BY DEF Shaped
  <2> QED BY <2>1, <1>0, ChildrenSpelled
<1>2. ASSUME NEW i \in ToSet(Children(h, a)) PROVE i \in Item /\ own[i] = a /\ i \in h.live
  <2>1. PICK k \in 1..len[a] : i = Children(h, a)[k]
    BY <1>1 DEF ToSet
  <2>2. i \in Item /\ own[i] = a
    BY <2>1, <1>1
  <2> QED BY <2>2, <1>0 DEF Shaped, Linked
<1> QED BY <1>1, <1>2

\* What is at an index is a child, or nothing is there.
LEMMA IndexAnswers ==
  ASSUME NEW h, NEW R, Sound(h, R), NEW a \in ListsOf(h), NEW which \in 0..Len(Children(h, a))
  PROVE  get_array_item(h, a, which) \in ToSet(Children(h, a)) \cup {NULL}
<1>1. PICK own, pos, len : Shaped(h, own, pos, len, NULL)
  BY DEF Sound
<1>2. h \in Heap /\ Ranked(own, pos, len) /\ Linked(h, own, pos, len) /\ a \in Item /\ len[a] \in Nat
  BY <1>1, HeapFields DEF Shaped, Ranked, ListsOf
<1>3. /\ Len(Children(h, a)) = len[a] /\ DOMAIN Children(h, a) = 1..len[a]
      /\ \A k \in 1..len[a] : Children(h, a)[k] = get_array_item(h, a, k - 1)
  BY <1>2, ChildrenSpelled
<1>4. CASE which = len[a]
  BY <1>2, <1>3, <1>4, ItemAtIndex
<1>5. CASE which # len[a]
  <2>1. which + 1 \in 1..len[a] /\ (which + 1) - 1 = which
    BY <1>2, <1>3, <1>5
  <2>2. Children(h, a)[which + 1] = get_array_item(h, a, which)
    BY <2>1, <1>3
  <2> QED BY <2>1, <2>2, <1>3 DEF ToSet
<1> QED BY <1>4, <1>5

\* A search by name answers a child, or nothing.
LEMMA NameAnswers ==
  ASSUME NEW h, NEW a, NEW name, NEW sensitive
  PROVE  get_object_item(h, a, name, sensitive) \in ToSet(Children(h, a)) \cup {NULL}
<1> DEFINE c == Children(h, a)
           stops(i) == IF sensitive THEN h.f[i].string \in {NULL, name}
                       ELSE h.f[i].string # NULL /\ Lower[h.f[i].string] = Lower[name]
           K == {k \in DOMAIN c : stops(c[k])}
           hit == IF K = {} THEN NULL ELSE c[CHOOSE k \in K : \A j \in K : k <= j]
<1>1. get_object_item(h, a, name, sensitive) \in {NULL, hit}
  BY DEF get_object_item, FirstOf
<1>2. hit \in ToSet(c) \cup {NULL}
  <2>1. ASSUME K # {} PROVE hit \in ToSet(c)
    <3>0. c = [k \in DOMAIN c |-> c[k]] /\ \E n : DOMAIN c = 1..n
      BY DEF Children
    <3>1. K \subseteq Nat
      BY <3>0
    <3> HIDE DEF stops
    <3>2. \E k \in K : \A j \in K : k <= j
      <4> HIDE DEF K
      <4> QED BY <2>1, <3>1, MinExists
    <3> DEFINE k0 == CHOOSE k \in K : \A j \in K : k <= j
    <3>3. k0 \in K
      <4> HIDE DEF K
      <4> QED BY <3>2
    <3> HIDE DEF k0
    <3>4. k0 \in DOMAIN c
      BY <3>3
    <3>5. hit = c[k0]
      BY <2>1 DEF k0
    <3> QED BY <3>4, <3>5 DEF ToSet
  <2> QED BY <2>1
<1> QED BY <1>1, <1>2

\* cJSON_Delete of an item in no list
LEMMA DeleteSound ==
  ASSUME NEW h, NEW R, Sound(h, R), NEW i \in R
  PROVE  /\ Sound(cJSON_Delete(h, i), R \ {i}) /\ cJSON_Delete(h, i).live \subseteq h.live
         /\ Kept(h, cJSON_Delete(h, i))
<1>1. PICK own, pos, len : Shaped(h, own, pos, len, NULL) /\ R = Roots(h, own)
  BY DEF Sound
<1>2. i \in h.live /\ own[i] = NULL /\ Names(h)
  BY <1>1 DEF Roots, Sound
<1> QED BY <1>1, <1>2, DeleteShaped

\* cJSON_InsertItemInArray
LEMMA InsertSound ==
  ASSUME NEW h, NEW R, Sound(h, R), NEW a \in ListsOf(h), NEW i \in R, a # i,
         NEW which \in 0..Len(Children(h, a))
  PROVE  LET answer == cJSON_InsertItemInArray(h, a, which, i)
         IN  answer.r = TRUE /\ Sound(answer.h, R \ {i}) /\ answer.h.live = h.live /\ Kept(h, answer.h)
<1> DEFINE n == get_array_item(h, a, which)
           answer == cJSON_InsertItemInArray(h, a, which, i)
<1>1. n \in ToSet(Children(h, a)) \cup {NULL}
  BY IndexAnswers
<1>2. CASE n = NULL
  <2>1. answer = add_item_to_array(h, a, i)
    BY <1>2 DEF cJSON_InsertItemInArray
  <2>2. /\ add_item_to_array(h, a, i).r = TRUE /\ Sound(add_item_to_array(h, a, i).h, R \ {i})
        /\ add_item_to_array(h, a, i).h.live = h.live /\ Kept(h, add_item_to_array(h, a, i).h)
    BY AddSound DEF SameItems
  <2> HIDE DEF answer
  <2>3. answer.r = TRUE /\ Sound(answer.h, R \ {i}) /\ answer.h.live = h.live /\ Kept(h, answer.h)
    BY <2>1, <2>2
  <2> QED BY <2>3 DEF answer
<1>3. CASE n \in ToSet(Children(h, a))
  <2>1. PICK own, pos, len : Shaped(h, own, pos, len, NULL) /\ R = Roots(h, own)
    BY DEF Sound
  <2>2. /\ i \in h.live /\ own[i] = NULL /\ h \in Heap /\ Names(h)
        /\ h.live \subseteq Item /\ a \in Item /\ NULL \notin Item /\ own \in [Item -> Ptr]
    BY <2>1, HeapFields DEF Roots, Sound, ListsOf, Shaped, Ranked
  <2>3. n \in Item /\ own[n] = a
    BY <1>3, <2>1, SoundChildren
  <2> DEFINE own2 == [own EXCEPT ![i] = a]
             pos2 == PutPos(own, pos, a, i, pos[n])
             len2 == [len EXCEPT ![a] = @ + 1]
  <2> HIDE DEF n, answer
  <2>4. /\ answer.r = TRUE /\ Rewired(h, answer.h)
        /\ PutPointers(h, answer.h, own, pos, len, a, i, pos[n])
    BY <2>1, <2>2, <2>3, InsertShaped DEF n, answer
  <2>5. pos[n] \in 1..len[a] + 1
    <3>1. pos[n] \in 1..len[a] /\ len[a] \in Nat
      BY <2>1, <2>2, <2>3 DEF Shaped, Ranked
    <3> QED BY <3>1
  <2>6. Shaped(answer.h, own2, pos2, len2, NULL)
    BY <2>1, <2>2, <2>4, <2>5, PutShapes
  <2>7. Sound(answer.h, Roots(answer.h, own2)) /\ answer.h.live = h.live /\ Kept(h, answer.h)
    <3> HIDE DEF own2, pos2, len2
    <3> QED BY <2>2, <2>4, <2>6, RewiredSound
  <2>8. Roots(answer.h, own2) = R \ {i}
    BY <2>1, <2>2, <2>7 DEF Roots
  <2> QED BY <2>4, <2>7, <2>8 DEF answer
<1> QED BY <1>1, <1>2, <1>3

\* cJSON_DetachItemViaPointer of a child
LEMMA DetachSound ==
  ASSUME NEW h, NEW R, Sound(h, R), NEW a \in ListsOf(h), NEW i \in ToSet(Children(h, a))
  PROVE  LET answer == cJSON_DetachItemViaPointer(h, a, i)
         IN  /\ answer.r = i /\ Sound(answer.h, R \cup {i}) /\ answer.h.live = h.live
             /\ Kept(h, answer.h) /\ i \notin R /\ i \in Item
<1> DEFINE answer == cJSON_DetachItemViaPointer(h, a, i)
<1>1. PICK own, pos, len : Shaped(h, own, pos, len, NULL) /\ R = Roots(h, own)
  BY DEF Sound
<1>2. /\ h \in Heap /\ Names(h) /\ h.live \subseteq Item /\ a \in Item /\ NULL \notin Item
      /\ own \in [Item -> Ptr]
  BY <1>1, HeapFields DEF Sound, ListsOf, Shaped, Ranked
<1>3. i \in Item /\ own[i] = a /\ i \in h.live
  BY <1>1, SoundChildren
<1> HIDE DEF answer
<1>4. answer.r = i /\ Rewired(h, answer.h) /\ CutPointers(h, answer.h, own, pos, len, a, i)
  BY <1>1, <1>2, <1>3, DetachShaped DEF answer
<1> DEFINE own2 == [own EXCEPT ![i] = NULL]
           pos2 == CutPos(own, pos, i)
           len2 == [len EXCEPT ![a] = @ - 1]
<1>5. Shaped(answer.h, own2, pos2, len2, NULL)
  BY <1>1, <1>2, <1>3, <1>4, CutShapes
<1>6. Sound(answer.h, Roots(answer.h, own2)) /\ answer.h.live = h.live /\ Kept(h, answer.h)
  <2> HIDE DEF own2, pos2, len2
  <2> QED BY <1>2, <1>4, <1>5, RewiredSound
<1>7. Roots(answer.h, own2) = R \cup {i} /\ i \notin R
  BY <1>1, <1>2, <1>3, <1>6 DEF Roots
<1> QED BY <1>3, <1>4, <1>6, <1>7 DEF answer

\* cJSON_ReplaceItemViaPointer of a child
LEMMA ReplaceSound ==
  ASSUME NEW h, NEW R, Sound(h, R), NEW a \in ListsOf(h), NEW i \in ToSet(Children(h, a)),
         NEW n \in R, a # n
  PROVE  LET answer == cJSON_ReplaceItemViaPointer(h, a, i, n)
         IN  /\ answer.r = TRUE /\ Sound(answer.h, R \ {n}) /\ answer.h.live \subseteq h.live
             /\ Kept(h, answer.h)
<1> DEFINE answer == cJSON_ReplaceItemViaPointer(h, a, i, n)
<1>1. PICK own, pos, len : Shaped(h, own, pos, len, NULL) /\ R = Roots(h, own)
  BY DEF Sound
<1>2. /\ h \in Heap /\ Names(h) /\ h.live \subseteq Item /\ a \in Item /\ NULL \notin Item
      /\ own \in [Item -> Ptr] /\ n \in h.live /\ own[n] = NULL
  BY <1>1, HeapFields DEF Sound, ListsOf, Shaped, Ranked, Roots
<1>3. i \in Item /\ own[i] = a /\ i \in h.live
  BY <1>1, SoundChildren
<1>4. PICK g : ReplacedFrom(h, g, own, pos, len, a, i, n)
  BY <1>1, <1>2, <1>3, ReplaceShaped
<1>5. /\ answer = Answer(cJSON_Delete(g, i), TRUE)
      /\ Rewired(h, g) /\ SwapPointers(h, g, own, pos, len, a, i, n)
  BY <1>4 DEF ReplacedFrom
<1> HIDE DEF answer
<1> DEFINE own2 == [[own EXCEPT ![n] = a] EXCEPT ![i] = NULL]
           pos2 == [pos EXCEPT ![n] = pos[i]]
<1>6. Shaped(g, own2, pos2, len, NULL)
  BY <1>1, <1>2, <1>3, <1>5, SwapShapes
<1>7. Sound(g, Roots(g, own2)) /\ g.live = h.live /\ Kept(h, g)
  <2> HIDE DEF own2, pos2
  <2> QED BY <1>2, <1>5, <1>6, RewiredSound
<1>8. Roots(g, own2) = (R \ {n}) \cup {i} /\ i \notin R
  BY <1>1, <1>2, <1>3, <1>7 DEF Roots
<1>9. /\ Sound(cJSON_Delete(g, i), ((R \ {n}) \cup {i}) \ {i})
      /\ cJSON_Delete(g, i).live \subseteq g.live /\ Kept(g, cJSON_Delete(g, i))
  BY <1>7, <1>8, DeleteSound
<1>10. ((R \ {n}) \cup {i}) \ {i} = R \ {n}
  BY <1>8
<1>11. Kept(h, cJSON_Delete(g, i))
  BY <1>7, <1>9 DEF Kept
<1> QED BY <1>5, <1>7, <1>9, <1>10, <1>11 DEF Answer, answer

-------------------------------------------------------------------------------
(* The calls on names                                                          *)

\* Whose name free_string frees
Frees(h, i) == h.f[i].string # NULL /\ ~h.f[i].StringIsConst

\* All but the name of i is as it was.
ButName(h, g, i) ==
  /\ SameLinks(h, g)
  /\ \A x \in Item : x # i => /\ g.f[x].string = h.f[x].string
                              /\ g.f[x].copied = h.f[x].copied
                              /\ g.f[x].StringIsConst = h.f[x].StringIsConst

\* Item i gets the name s, copied when c, constant when k.
Named(h, i, keys, bad, s, c, k) ==
  [live |-> h.live, keys |-> keys, badfree |-> bad,
   f |-> [h.f EXCEPT ![i] = [h.f[i] EXCEPT !.string = s, !.copied = c, !.StringIsConst = k]]]

NamedAs(h, g, i, keys, bad, s, c, k) ==
  /\ ButName(h, g, i) /\ g.keys = keys /\ g.badfree = bad
  /\ g.f[i].string = s /\ g.f[i].copied = c /\ g.f[i].StringIsConst = k

LEMMA SetName ==
  ASSUME NEW h \in Heap, NEW i \in Item, NEW keys \in Int, NEW bad \in BOOLEAN,
         NEW s \in Key \cup {NULL}, NEW c \in BOOLEAN, NEW k \in BOOLEAN
  PROVE  NamedAs(h, Named(h, i, keys, bad, s, c, k), i, keys, bad, s, c, k)
<1> DEFINE g == Named(h, i, keys, bad, s, c, k)
           node == [h.f[i] EXCEPT !.string = s, !.copied = c, !.StringIsConst = k]
<1>1. h.f[i] \in Node /\ h.f \in [Item -> Node] /\ h.live \in SUBSET Item
  BY HeapFields
<1>2. /\ node \in Node /\ node.next = h.f[i].next /\ node.prev = h.f[i].prev
      /\ node.child = h.f[i].child /\ node.IsReference = h.f[i].IsReference
      /\ node.string = s /\ node.copied = c /\ node.StringIsConst = k
  BY <1>1 DEF Node
<1>3. g = [live |-> h.live, keys |-> keys, badfree |-> bad, f |-> [h.f EXCEPT ![i] = node]]
  BY DEF Named
<1> HIDE DEF node, g
<1>4. [h.f EXCEPT ![i] = node] \in [Item -> Node]
  BY <1>1, <1>2
<1>5. g \in Heap
  BY <1>1, <1>3, <1>4 DEF Heap
<1>6. /\ g.live = h.live /\ g.keys = keys /\ g.badfree = bad
      /\ \A x \in Item : g.f[x] = IF x = i THEN node ELSE h.f[x]
  BY <1>1, <1>3
<1>7. SameLinks(h, g)
  BY <1>2, <1>5, <1>6 DEF SameLinks
<1>8. ButName(h, g, i)
  BY <1>6, <1>7 DEF ButName
<1> QED BY <1>2, <1>6, <1>8 DEF NamedAs, g

\* free_string
LEMMA FreeString ==
  ASSUME NEW h \in Heap, NEW i \in Item
  PROVE  LET g == free_string(h, i)
         IN  /\ ButName(h, g, i) /\ g.f[i].StringIsConst = h.f[i].StringIsConst
             /\ IF Frees(h, i)
                THEN /\ g.keys = h.keys - 1 /\ (g.badfree <=> h.badfree \/ ~h.f[i].copied)
                     /\ g.f[i].string = NULL /\ ~g.f[i].copied
                ELSE g = h
<1> DEFINE g == free_string(h, i)
<1>0. /\ h.live \in SUBSET Item /\ h.keys \in Int /\ h.badfree \in BOOLEAN /\ h.f \in [Item -> Node]
      /\ h.f[i] \in Node /\ h.f[i].copied \in BOOLEAN /\ h.f[i].StringIsConst \in BOOLEAN
      /\ h = [live |-> h.live, keys |-> h.keys, badfree |-> h.badfree, f |-> h.f]
  BY HeapFields DEF Heap
<1>1. CASE Frees(h, i)
  <2> DEFINE bad == h.badfree \/ ~h.f[i].copied
             k == h.f[i].StringIsConst
             g1 == [h EXCEPT !.keys = h.keys - 1, !.badfree = bad]
             g2 == [g1 EXCEPT !.f[i].string = NULL]
             g3 == [g2 EXCEPT !.f[i].copied = FALSE]
             node == [h.f[i] EXCEPT !.string = NULL]
  <2>1. g = g3
    BY <1>1 DEF free_string, Frees
  <2>2. g1 = [live |-> h.live, keys |-> h.keys - 1, badfree |-> bad, f |-> h.f]
    <3> DEFINE h1 == [h EXCEPT !.keys = h.keys - 1]
               n == h.keys - 1
    <3> HIDE DEF bad, n
    <3>1. h1 = [live |-> h.live, keys |-> n, badfree |-> h.badfree, f |-> h.f]
      BY <1>0 DEF n
    <3>2. g1 = [h1 EXCEPT !.badfree = bad]
      OBVIOUS
    <3> HIDE DEF h1, g1
    <3>3. g1 = [live |-> h.live, keys |-> n, badfree |-> bad, f |-> h.f]
      BY <3>1, <3>2
    <3> QED BY <3>3 DEF n
  <2>3. g2 = [live |-> h.live, keys |-> h.keys - 1, badfree |-> bad, f |-> [h.f EXCEPT ![i] = node]]
    <3> HIDE DEF g1
    <3> QED BY <2>2, <1>0
  <2>8. node \in Node
    BY <1>0 DEF Node
  <2>9. [node EXCEPT !.copied = FALSE]
          = [h.f[i] EXCEPT !.string = NULL, !.copied = FALSE, !.StringIsConst = k]
    BY <1>0 DEF Node
  <2>4. g = Named(h, i, h.keys - 1, bad, NULL, FALSE, k)
    <3> HIDE DEF g2, node, bad, g
    <3>1. g3 = [live |-> h.live, keys |-> h.keys - 1, badfree |-> bad,
                f |-> [[h.f EXCEPT ![i] = node] EXCEPT ![i] = [node EXCEPT !.copied = FALSE]]]
      BY <2>3, <2>8, <1>0
    <3>2. [[h.f EXCEPT ![i] = node] EXCEPT ![i] = [node EXCEPT !.copied = FALSE]]
            = [h.f EXCEPT ![i] = [node EXCEPT !.copied = FALSE]]
      BY <1>0
    <3> HIDE DEF g3, k
    <3> QED BY <2>1, <2>9, <3>1, <3>2 DEF Named
  <2>5. bad \in BOOLEAN /\ h.keys - 1 \in Int
    BY <1>0
  <2> HIDE DEF g, g1, g2, g3, node, bad, k
  <2>10. NULL \in Key \cup {NULL} /\ FALSE \in BOOLEAN /\ k \in BOOLEAN
    BY <1>0 DEF k
  <2>6. NamedAs(h, g, i, h.keys - 1, bad, NULL, FALSE, k)
    <3>1. NamedAs(h, Named(h, i, h.keys - 1, bad, NULL, FALSE, k), i, h.keys - 1, bad, NULL, FALSE, k)
      BY <2>5, <2>10, SetName
    <3> QED BY <3>1, <2>4
  <2>7. g.badfree <=> h.badfree \/ ~h.f[i].copied
    BY <2>6 DEF bad, NamedAs
  <2> QED BY <2>6, <2>7, <1>1 DEF g, NamedAs, k
<1>2. CASE ~Frees(h, i)
  <2>1. g = h
    BY <1>2, <1>0 DEF free_string, Frees
  <2>2. ButName(h, h, i)
    BY DEF ButName, SameLinks
  <2> HIDE DEF g
  <2>3. /\ ButName(h, g, i) /\ g.f[i].StringIsConst = h.f[i].StringIsConst /\ g = h
    BY <2>1, <2>2
  <2> QED BY <2>3, <1>2 DEF g
<1> QED BY <1>1, <1>2

\* With one name written and the keys counted the heap is sound again.
LEMMA RenamedSound ==
  ASSUME NEW h, NEW R, Sound(h, R), NEW i \in h.live, NEW g, ButName(h, g, i), ~g.badfree,
         IF g.f[i].string = NULL THEN ~g.f[i].copied ELSE g.f[i].copied <=> ~g.f[i].StringIsConst,
         g.keys = (h.keys - (IF i \in Owned(h) THEN 1 ELSE 0)) + (IF i \in Owned(g) THEN 1 ELSE 0)
  PROVE  Sound(g, R) /\ g.live = h.live /\ Kept(h, g) /\ ListsOf(g) = ListsOf(h)
<1>1. /\ h \in Heap /\ g \in Heap /\ Names(h) /\ h.live \subseteq Item /\ i \in Item /\ g.live = h.live
      /\ SameLinks(h, g)
  BY HeapFields DEF Sound, ButName, SameLinks
<1>2. Names(g)
  <2>1. g.live = h.live \cup {i}
    BY <1>1
  <2>2. \A x \in Item : x # i => /\ g.f[x].string = h.f[x].string
                                 /\ g.f[x].copied = h.f[x].copied
                                 /\ g.f[x].StringIsConst = h.f[x].StringIsConst
    BY DEF ButName
  <2> QED BY <2>1, <2>2, <1>1, NamesChange
<1>3. PICK own, pos, len : Shaped(h, own, pos, len, NULL) /\ R = Roots(h, own)
  BY DEF Sound
<1>4. Shaped(g, own, pos, len, NULL)
  BY <1>1, <1>3, LinksCarry
<1>5. R = Roots(g, own)
  BY <1>1, <1>3 DEF Roots
<1>6. Kept(h, g) /\ ListsOf(g) = ListsOf(h)
  BY <1>1 DEF Kept, ListsOf, SameLinks
<1> QED BY <1>1, <1>2, <1>4, <1>5, <1>6 DEF Sound

\* Whether an item owns its name is whether free_string would free it.
LEMMA OwnedIsFreed ==
  ASSUME NEW h \in Heap, Names(h), NEW i \in h.live
  PROVE  (i \in Owned(h) <=> Frees(h, i)) /\ (Frees(h, i) => h.f[i].copied)
  BY DEF Owned, Names, Frees

\* One more key is allocated.
LEMMA KeyAllocated ==
  ASSUME NEW h \in Heap, NEW i \in Item
  PROVE  LET g == [h EXCEPT !.keys = @ + 1]
         IN  /\ ButName(h, g, i) /\ g.keys = h.keys + 1 /\ g.badfree = h.badfree /\ g.f = h.f
<1> DEFINE k == h.keys + 1
           g == [h EXCEPT !.keys = k]
<1>1. /\ h.live \in SUBSET Item /\ h.keys \in Int /\ h.badfree \in BOOLEAN /\ h.f \in [Item -> Node]
      /\ h = [live |-> h.live, keys |-> h.keys, badfree |-> h.badfree, f |-> h.f]
  BY DEF Heap
<1>2. k \in Int
  BY <1>1
<1>3. g = [live |-> h.live, keys |-> k, badfree |-> h.badfree, f |-> h.f]
  <2> HIDE DEF k
  <2> QED BY <1>1
<1> HIDE DEF k, g
<1>4. g \in Heap
  BY <1>1, <1>2, <1>3 DEF Heap
<1>5. g.live = h.live /\ g.keys = k /\ g.badfree = h.badfree /\ g.f = h.f
  BY <1>3
<1>6. ButName(h, g, i)
  BY <1>4, <1>5 DEF ButName, SameLinks
<1> QED BY <1>5, <1>6 DEF g, k

\* A name is written.
LEMMA NameSet ==
  ASSUME NEW h \in Heap, NEW i \in Item, NEW s \in Key \cup {NULL}, NEW c \in BOOLEAN, NEW k \in BOOLEAN
  PROVE  NamedAs(h, set_name(h, i, s, c, k), i, h.keys, h.badfree, s, c, k)
<1> DEFINE node == [h.f[i] EXCEPT !.string = s, !.copied = c, !.StringIsConst = k]
<1>1. /\ h.live \in SUBSET Item /\ h.keys \in Int /\ h.badfree \in BOOLEAN /\ h.f \in [Item -> Node]
      /\ h = [live |-> h.live, keys |-> h.keys, badfree |-> h.badfree, f |-> h.f]
  BY DEF Heap
<1>2. set_name(h, i, s, c, k) = [h EXCEPT !.f[i] = node]
  BY DEF set_name
<1>3. Named(h, i, h.keys, h.badfree, s, c, k)
        = [live |-> h.live, keys |-> h.keys, badfree |-> h.badfree, f |-> [h.f EXCEPT ![i] = node]]
  BY DEF Named
<1> HIDE DEF node
<1>4. set_name(h, i, s, c, k) = Named(h, i, h.keys, h.badfree, s, c, k)
  BY <1>1, <1>2, <1>3
<1>5. NamedAs(h, Named(h, i, h.keys, h.badfree, s, c, k), i, h.keys, h.badfree, s, c, k)
  BY <1>1, SetName
<1> QED BY <1>4, <1>5

\* One name is changed in steps.
LEMMA ButNameAgain ==
  ASSUME NEW h, NEW g, NEW k, NEW i, ButName(h, g, i), ButName(g, k, i) PROVE ButName(h, k, i)
  BY DEF ButName, SameLinks

\* The item's name is freed, and it gets a copy or the caller's constant.
LEMMA NewName ==
  ASSUME NEW h, NEW R, Sound(h, R), NEW i \in h.live, NEW name \in Key, NEW constant \in BOOLEAN
  PROVE  LET allocated == IF constant THEN h ELSE [h EXCEPT !.keys = @ + 1]
             g == set_name(free_string(allocated, i), i, name, ~constant, constant)
         IN  /\ Sound(g, R) /\ g.live = h.live /\ Kept(h, g) /\ ListsOf(g) = ListsOf(h)
             /\ SameLinks(h, g)
<1> DEFINE allocated == IF constant THEN h ELSE [h EXCEPT !.keys = @ + 1]
           freed == free_string(allocated, i)
           g == set_name(freed, i, name, ~constant, constant)
           more == IF constant THEN 0 ELSE 1
           less == IF Frees(h, i) THEN 1 ELSE 0
<1>1. /\ h \in Heap /\ i \in Item /\ NULL \notin Key /\ Names(h) /\ h.keys \in Int /\ ~h.badfree
      /\ h.f[i].copied \in BOOLEAN
  BY HeapFields, NullIsNothing DEF Sound, Names
<1>2. ButName(h, allocated, i) /\ allocated.keys = h.keys + more /\ allocated.f = h.f
      /\ allocated.badfree = h.badfree
  <2>1. CASE constant
    BY <2>1, <1>1 DEF ButName, SameLinks
  <2>2. CASE ~constant
    BY <2>2, <1>1, KeyAllocated
  <2> QED BY <2>1, <2>2
<1> HIDE DEF allocated
<1>3. allocated \in Heap /\ (Frees(allocated, i) <=> Frees(h, i))
  BY <1>2 DEF ButName, SameLinks, Frees
<1>4. /\ ButName(allocated, freed, i)
      /\ IF Frees(h, i)
         THEN freed.keys = allocated.keys - 1 /\ (freed.badfree <=> allocated.badfree \/ ~allocated.f[i].copied)
         ELSE freed = allocated
  BY <1>1, <1>3, FreeString
<1> HIDE DEF freed
<1>5. Frees(h, i) => h.f[i].copied
  BY <1>1, OwnedIsFreed
<1>6. freed.keys = (h.keys + more) - less /\ ~freed.badfree /\ freed \in Heap
  <2>1. freed \in Heap /\ freed.badfree \in BOOLEAN
    BY <1>4, HeapFields DEF ButName, SameLinks
  <2>2. CASE Frees(h, i)
    BY <2>1, <2>2, <1>1, <1>2, <1>4, <1>5
  <2>3. CASE ~Frees(h, i)
    BY <2>1, <2>3, <1>1, <1>2, <1>4
  <2> QED BY <2>2, <2>3
<1>7. NamedAs(freed, g, i, freed.keys, freed.badfree, name, ~constant, constant)
  BY <1>1, <1>6, NameSet
<1> HIDE DEF g
<1>8. ButName(h, g, i)
  BY <1>2, <1>4, <1>7, ButNameAgain DEF NamedAs
<1>9. ~g.badfree /\ g.f[i].string = name /\ (g.f[i].copied <=> ~constant)
      /\ (g.f[i].StringIsConst <=> constant) /\ g.keys = freed.keys
  BY <1>6, <1>7 DEF NamedAs
<1>10. (i \in Owned(h) <=> Frees(h, i)) /\ (i \in Owned(g) <=> ~constant)
  <2>1. i \in Owned(h) <=> Frees(h, i)
    BY <1>1, OwnedIsFreed
  <2>2. i \in g.live
    BY <1>8 DEF ButName, SameLinks
  <2> QED BY <2>1, <2>2, <1>1, <1>9 DEF Owned
<1>11. g.keys = (h.keys - (IF i \in Owned(h) THEN 1 ELSE 0)) + (IF i \in Owned(g) THEN 1 ELSE 0)
  <2>1. less = (IF i \in Owned(h) THEN 1 ELSE 0) /\ more = (IF i \in Owned(g) THEN 1 ELSE 0)
    BY <1>10
  <2>2. less \in Int /\ more \in Int
    OBVIOUS
  <2> HIDE DEF less, more
  <2>3. g.keys = (h.keys - less) + more
    BY <2>2, <1>1, <1>6, <1>9
  <2> QED BY <2>1, <2>3
<1>12. IF g.f[i].string = NULL THEN ~g.f[i].copied ELSE g.f[i].copied <=> ~g.f[i].StringIsConst
  BY <1>1, <1>9
<1>13. Sound(g, R) /\ g.live = h.live /\ Kept(h, g) /\ ListsOf(g) = ListsOf(h)
  BY <1>8, <1>9, <1>11, <1>12, RenamedSound
<1> QED BY <1>8, <1>13 DEF g, freed, allocated, ButName

\* The name is the caller's constant, or it can be copied.
Nameable(constant, copy) == constant \in BOOLEAN /\ copy \in BOOLEAN /\ (constant \/ copy)

\* add_item_to_object, when it finds no fault
LEMMA AddNamedSound ==
  ASSUME NEW h, NEW R, Sound(h, R), NEW a \in ListsOf(h), NEW i \in R, NEW name \in Key,
         NEW constant, NEW copy, Nameable(constant, copy), a # i
  PROVE  LET answer == add_item_to_object(h, a, name, i, constant, copy)
         IN  /\ answer.r = TRUE /\ Sound(answer.h, R \ {i})
             /\ SameItems(h, answer.h) /\ Kept(h, answer.h)
<1> DEFINE answer == add_item_to_object(h, a, name, i, constant, copy)
           allocated == IF constant THEN h ELSE [h EXCEPT !.keys = @ + 1]
           g == set_name(free_string(allocated, i), i, name, ~constant, constant)
<1>1. i \in h.live /\ i # NULL
  BY HeapFields DEF Sound, Roots
<1>0. constant \in BOOLEAN /\ copy \in BOOLEAN /\ (constant \/ copy)
  BY DEF Nameable
<1>2. Sound(g, R) /\ g.live = h.live /\ Kept(h, g) /\ ListsOf(g) = ListsOf(h)
  BY <1>0, <1>1, NewName
<1>3. answer = add_item_to_array(g, a, i)
  BY <1>0, <1>1 DEF add_item_to_object
<1> HIDE DEF g, answer
<1>4. a \in ListsOf(g)
  BY <1>2
<1>5. /\ add_item_to_array(g, a, i).r = TRUE /\ Sound(add_item_to_array(g, a, i).h, R \ {i})
      /\ add_item_to_array(g, a, i).h.live = g.live /\ Kept(g, add_item_to_array(g, a, i).h)
  BY <1>2, <1>4, AddSound DEF SameItems
<1>6. Kept(h, answer.h)
  BY <1>2, <1>3, <1>5 DEF Kept
<1> QED BY <1>2, <1>3, <1>5, <1>6 DEF answer, SameItems

\* add_item_to_object, when it refuses the item or has no memory for the name
LEMMA AddNamedFails ==
  ASSUME NEW h, NEW a, NEW i, NEW name, NEW constant \in BOOLEAN, NEW copy \in BOOLEAN,
         i = NULL \/ a = i \/ (~constant /\ ~copy)
  PROVE  add_item_to_object(h, a, name, i, constant, copy) = Answer(h, FALSE)
  BY DEF add_item_to_object

\* free_string leaves a name out of the count that was in it.
LEMMA NameFreed ==
  ASSUME NEW h, NEW R, Sound(h, R), NEW i \in h.live
  PROVE  LET g == free_string(h, i)
         IN  /\ ButName(h, g, i) /\ g \in Heap /\ ~g.badfree
             /\ g.keys = h.keys - (IF i \in Owned(h) THEN 1 ELSE 0)
<1> DEFINE g == free_string(h, i)
<1>1. h \in Heap /\ i \in Item /\ Names(h) /\ h.keys \in Int /\ ~h.badfree
  BY HeapFields DEF Sound, Names
<1>2. /\ ButName(h, g, i)
      /\ IF Frees(h, i) THEN g.keys = h.keys - 1 /\ (g.badfree <=> h.badfree \/ ~h.f[i].copied)
         ELSE g = h
  BY <1>1, FreeString
<1>3. (i \in Owned(h) <=> Frees(h, i)) /\ (Frees(h, i) => h.f[i].copied)
  BY <1>1, OwnedIsFreed
<1> HIDE DEF g
<1>4. g \in Heap /\ g.badfree \in BOOLEAN
  BY <1>2, HeapFields DEF ButName, SameLinks
<1>5. CASE Frees(h, i)
  <2>1. ~g.badfree /\ g.keys = h.keys - 1
    BY <1>1, <1>2, <1>3, <1>4, <1>5
  <2> QED BY <1>2, <1>3, <1>4, <1>5, <2>1 DEF g
<1>6. CASE ~Frees(h, i)
  <2>1. ~g.badfree /\ g.keys = h.keys - 0
    BY <1>1, <1>2, <1>6
  <2> QED BY <1>2, <1>3, <1>4, <1>6, <2>1 DEF g
<1> QED BY <1>5, <1>6

\* replace_item_in_object has freed the name, and there is no other.
LEMMA UnnamedSound ==
  ASSUME NEW h, NEW R, Sound(h, R), NEW i \in h.live
  PROVE  LET freed == free_string(h, i)
             g == set_name(freed, i, NULL, FALSE, freed.f[i].StringIsConst)
         IN  Sound(g, R) /\ g.live = h.live /\ Kept(h, g) /\ SameLinks(h, g)
<1> DEFINE freed == free_string(h, i)
           g == set_name(freed, i, NULL, FALSE, freed.f[i].StringIsConst)
<1>1. /\ ButName(h, freed, i) /\ freed \in Heap /\ ~freed.badfree
      /\ freed.keys = h.keys - (IF i \in Owned(h) THEN 1 ELSE 0)
  BY NameFreed
<1> HIDE DEF freed
<1>2. i \in Item /\ h \in Heap /\ h.keys \in Int /\ freed.f[i].StringIsConst \in BOOLEAN
  <2>1. h \in Heap /\ i \in Item /\ h.keys \in Int
    BY HeapFields DEF Sound
  <2> QED BY <2>1, <1>1, HeapFields
<1>3. NamedAs(freed, g, i, freed.keys, freed.badfree, NULL, FALSE, freed.f[i].StringIsConst)
  <2>1. NULL \in Key \cup {NULL} /\ FALSE \in BOOLEAN
    OBVIOUS
  <2> QED BY <2>1, <1>1, <1>2, NameSet
<1> HIDE DEF g
<1>4. ButName(h, g, i)
  BY <1>1, <1>3, ButNameAgain DEF NamedAs
<1>5. ~g.badfree /\ g.f[i].string = NULL /\ ~g.f[i].copied /\ g.keys = freed.keys
  BY <1>1, <1>3 DEF NamedAs
<1>6. i \notin Owned(g)
  BY <1>5 DEF Owned
<1>7. g.keys = (h.keys - (IF i \in Owned(h) THEN 1 ELSE 0)) + (IF i \in Owned(g) THEN 1 ELSE 0)
  BY <1>1, <1>2, <1>5, <1>6
<1>8. Sound(g, R) /\ g.live = h.live /\ Kept(h, g)
  BY <1>4, <1>5, <1>7, RenamedSound
<1> QED BY <1>4, <1>8 DEF g, freed, ButName

\* replace_item_in_object has given the item a copy of the name.
LEMMA RenamedByCopy ==
  ASSUME NEW h, NEW R, Sound(h, R), NEW i \in h.live, NEW name \in Key
  PROVE  LET freed == free_string(h, i)
             g == set_name([freed EXCEPT !.keys = @ + 1], i, name, TRUE, FALSE)
         IN  /\ Sound(g, R) /\ g.live = h.live /\ Kept(h, g) /\ ListsOf(g) = ListsOf(h)
             /\ SameLinks(h, g)
<1> DEFINE freed == free_string(h, i)
           more == [freed EXCEPT !.keys = @ + 1]
           g == set_name(more, i, name, TRUE, FALSE)
<1>1. /\ ButName(h, freed, i) /\ freed \in Heap /\ ~freed.badfree
      /\ freed.keys = h.keys - (IF i \in Owned(h) THEN 1 ELSE 0)
  BY NameFreed
<1> HIDE DEF freed
<1>2. i \in Item /\ h \in Heap /\ h.keys \in Int /\ NULL \notin Key
  BY HeapFields, NullIsNothing DEF Sound
<1>3. ButName(freed, more, i) /\ more.keys = freed.keys + 1 /\ more.badfree = freed.badfree
  BY <1>1, <1>2, KeyAllocated
<1> HIDE DEF more
<1>4. NamedAs(more, g, i, more.keys, more.badfree, name, TRUE, FALSE)
  <2>1. TRUE \in BOOLEAN /\ FALSE \in BOOLEAN /\ more \in Heap
    BY <1>3 DEF ButName, SameLinks
  <2> QED BY <2>1, <1>2, NameSet
<1> HIDE DEF g
<1>5. ButName(h, g, i)
  BY <1>1, <1>3, <1>4, ButNameAgain DEF NamedAs
<1>6. ~g.badfree /\ g.f[i].string = name /\ g.f[i].copied /\ ~g.f[i].StringIsConst
      /\ g.keys = freed.keys + 1
  BY <1>1, <1>3, <1>4 DEF NamedAs
<1>7. i \in Owned(g)
  <2>1. i \in g.live
    BY <1>5 DEF ButName, SameLinks
  <2> QED BY <2>1, <1>2, <1>6 DEF Owned
<1>8. g.keys = (h.keys - (IF i \in Owned(h) THEN 1 ELSE 0)) + (IF i \in Owned(g) THEN 1 ELSE 0)
  BY <1>1, <1>2, <1>6, <1>7
<1>9. Sound(g, R) /\ g.live = h.live /\ Kept(h, g) /\ ListsOf(g) = ListsOf(h)
  BY <1>2, <1>5, <1>6, <1>8, RenamedSound
<1> QED BY <1>5, <1>9 DEF g, freed, more, ButName

\* cJSON_ReplaceItemViaPointer of what a search found
LEMMA ReplaceFound ==
  ASSUME NEW h, NEW R, Sound(h, R), NEW a \in ListsOf(h), NEW i \in ToSet(Children(h, a)) \cup {NULL},
         NEW n \in R, a # n
  PROVE  LET answer == cJSON_ReplaceItemViaPointer(h, a, i, n)
         IN  /\ answer.r \in BOOLEAN /\ Sound(answer.h, IF answer.r THEN R \ {n} ELSE R)
             /\ answer.h.live \subseteq h.live /\ Kept(h, answer.h)
<1> DEFINE answer == cJSON_ReplaceItemViaPointer(h, a, i, n)
<1>1. CASE i = NULL
  <2>1. answer = Answer(h, FALSE)
    BY <1>1 DEF cJSON_ReplaceItemViaPointer
  <2>2. answer.h = h /\ answer.r = FALSE /\ Kept(h, h)
    BY <2>1 DEF Answer, Kept
  <2> HIDE DEF answer
  <2> QED BY <2>2 DEF answer
<1>2. CASE i # NULL
  <2>1. i \in ToSet(Children(h, a))
    BY <1>2
  <2>2. /\ answer.r = TRUE /\ Sound(answer.h, R \ {n}) /\ answer.h.live \subseteq h.live
        /\ Kept(h, answer.h)
    BY <2>1, ReplaceSound
  <2> HIDE DEF answer
  <2> QED BY <2>2 DEF answer
<1> QED BY <1>1, <1>2

\* replace_item_in_object
LEMMA ReplaceNamedSound ==
  ASSUME NEW h, NEW R, Sound(h, R), NEW a \in ListsOf(h), NEW n \in R, a # n, NEW name \in Key,
         NEW sensitive \in BOOLEAN, NEW copy \in BOOLEAN
  PROVE  LET answer == replace_item_in_object(h, a, name, n, sensitive, copy)
         IN  /\ answer.r \in BOOLEAN /\ Sound(answer.h, IF answer.r THEN R \ {n} ELSE R)
             /\ answer.h.live \subseteq h.live /\ Kept(h, answer.h)
<1> DEFINE answer == replace_item_in_object(h, a, name, n, sensitive, copy)
           freed == free_string(h, n)
           less == set_name(freed, n, NULL, FALSE, freed.f[n].StringIsConst)
           g == set_name([freed EXCEPT !.keys = @ + 1], n, name, TRUE, FALSE)
           i == get_object_item(g, a, name, sensitive)
<1>1. n \in h.live
  BY DEF Sound, Roots
<1>2. CASE ~copy
  <2>1. Sound(less, R) /\ less.live = h.live /\ Kept(h, less)
    BY <1>1, UnnamedSound
  <2>2. answer = Answer(less, FALSE)
    BY <1>2 DEF replace_item_in_object
  <2> HIDE DEF less, answer
  <2>3. answer.h = less /\ answer.r = FALSE
    BY <2>2 DEF Answer
  <2> QED BY <2>1, <2>3 DEF answer
<1>3. CASE copy
  <2>1. Sound(g, R) /\ g.live = h.live /\ Kept(h, g) /\ ListsOf(g) = ListsOf(h)
    BY <1>1, RenamedByCopy
  <2>2. answer = cJSON_ReplaceItemViaPointer(g, a, i, n)
    BY <1>3 DEF replace_item_in_object
  <2> HIDE DEF g, answer
  <2>3. i \in ToSet(Children(g, a)) \cup {NULL}
    BY NameAnswers
  <2> HIDE DEF i
  <2>4. a \in ListsOf(g)
    BY <2>1
  <2> DEFINE done == cJSON_ReplaceItemViaPointer(g, a, i, n)
  <2>5. /\ done.r \in BOOLEAN /\ Sound(done.h, IF done.r THEN R \ {n} ELSE R)
        /\ done.h.live \subseteq g.live /\ Kept(g, done.h)
    BY <2>1, <2>3, <2>4, ReplaceFound
  <2> HIDE DEF done
  <2>6. answer = done
    BY <2>2 DEF done
  <2>7. Kept(h, done.h)
    BY <2>1, <2>5 DEF Kept
  <2> QED BY <2>1, <2>5, <2>6, <2>7 DEF answer
<1> QED BY <1>2, <1>3

\* cJSON_DetachItemViaPointer of no item, or of an item in no list
LEMMA DetachRefused ==
  ASSUME NEW h, NEW R, Sound(h, R), NEW a \in ListsOf(h), NEW i, i = NULL \/ i \in R
  PROVE  cJSON_DetachItemViaPointer(h, a, i) = Answer(h, NULL)
<1>0. NULL \notin Item /\ R \subseteq Item /\ h \in Heap /\ h.live \subseteq Item
  BY HeapFields DEF Sound, Roots
<1>1. ASSUME i \in R PROVE i # h.f[a].child /\ h.f[i].prev = NULL
  <2>1. PICK own, pos, len : Shaped(h, own, pos, len, NULL) /\ R = Roots(h, own)
    BY DEF Sound
  <2>2. own[i] = NULL /\ i \in h.live /\ a \in Item /\ i # NULL
    BY <1>0, <1>1, <2>1 DEF Roots, ListsOf
  <2>3. h.f[i].prev = NULL
    BY <2>1, <2>2 DEF Shaped, Loose
  <2>4. i # h.f[a].child
    <3>1. len[a] \in Nat /\ (len[a] = 0 => h.f[a].child = NULL)
      BY <2>1, <2>2 DEF Shaped, Ranked, Linked
    <3>2. ASSUME len[a] # 0 PROVE \E x \in Item : own[x] = a /\ pos[x] = 1
      <4>1. 1 \in 1..len[a]
        BY <3>1, <3>2
      <4> QED BY <4>1, <2>1, <2>2 DEF Shaped, Ranked
    <3>3. \A x \in Item : own[x] = a /\ pos[x] = 1 => h.f[a].child = x
      BY <2>1, <2>2, <1>0 DEF Shaped, Linked
    <3> QED BY <3>1, <3>2, <3>3, <2>2, <1>0
  <2> QED BY <2>3, <2>4
<1> QED BY <1>1 DEF cJSON_DetachItemViaPointer

\* cJSON_DetachItemViaPointer of what a search found, or of an item in no list
LEMMA DetachFound ==
  ASSUME NEW h, NEW R, Sound(h, R), NEW a \in ListsOf(h),
         NEW i \in ToSet(Children(h, a)) \cup {NULL} \cup R
  PROVE  LET answer == cJSON_DetachItemViaPointer(h, a, i)
         IN  /\ Sound(answer.h, R \cup ({answer.r} \ {NULL})) /\ answer.h.live = h.live
             /\ Kept(h, answer.h) /\ answer.r \notin R /\ answer.r \in Ptr
<1> DEFINE answer == cJSON_DetachItemViaPointer(h, a, i)
<1>0. NULL \notin Item /\ R \subseteq Item /\ h \in Heap /\ h.live \subseteq Item
  BY HeapFields DEF Sound, Roots
<1>1. CASE i = NULL \/ i \in R
  <2>1. answer = Answer(h, NULL)
    BY <1>1, DetachRefused
  <2>2. answer.h = h /\ answer.r = NULL /\ Kept(h, h)
    BY <2>1 DEF Answer, Kept
  <2> HIDE DEF answer
  <2>3. R \cup ({NULL} \ {NULL}) = R
    OBVIOUS
  <2> QED BY <1>0, <2>2, <2>3 DEF answer, Ptr
<1>2. CASE i # NULL /\ i \notin R
  <2>1. i \in ToSet(Children(h, a))
    BY <1>2
  <2>2. /\ answer.r = i /\ Sound(answer.h, R \cup {i}) /\ answer.h.live = h.live
        /\ Kept(h, answer.h) /\ i \notin R /\ i \in Item
    BY <2>1, DetachSound
  <2> HIDE DEF answer
  <2>3. R \cup ({i} \ {NULL}) = R \cup {i}
    BY <1>2
  <2> QED BY <2>2, <2>3 DEF answer, Ptr
<1> QED BY <1>1, <1>2

-------------------------------------------------------------------------------
(* The calls that create                                                       *)

\* add_item_to_object without an item
LEMMA AddNothing ==
  ASSUME NEW h, NEW a, NEW name, NEW constant, NEW copy
  PROVE  add_item_to_object(h, a, name, NULL, constant, copy) = Answer(h, FALSE)
  BY DEF add_item_to_object

\* An item that could not be added is deleted.
LEMMA AddOrDelete ==
  ASSUME NEW h, NEW R, Sound(h, R), NEW a \in ListsOf(h), NEW n \in R, a # n,
         NEW name \in Key, NEW copy \in BOOLEAN
  PROVE  LET added == add_item_to_object(h, a, name, n, FALSE, copy)
             g == IF added.r THEN added.h ELSE cJSON_Delete(added.h, n)
         IN  Sound(g, R \ {n}) /\ g.live \subseteq h.live /\ Kept(h, g)
<1> DEFINE added == add_item_to_object(h, a, name, n, FALSE, copy)
           g == IF added.r THEN added.h ELSE cJSON_Delete(added.h, n)
<1>1. CASE copy
  <2>1. /\ added.r = TRUE /\ Sound(added.h, R \ {n})
        /\ SameItems(h, added.h) /\ Kept(h, added.h)
    <3>1. ASSUME NEW k \in BOOLEAN
          PROVE  /\ add_item_to_object(h, a, name, n, k, copy).r = TRUE
                 /\ Sound(add_item_to_object(h, a, name, n, k, copy).h, R \ {n})
                 /\ SameItems(h, add_item_to_object(h, a, name, n, k, copy).h)
                 /\ Kept(h, add_item_to_object(h, a, name, n, k, copy).h)
      <4>1. Nameable(k, copy)
        BY <1>1 DEF Nameable
      <4> QED BY <4>1, AddNamedSound
    <3> QED BY <3>1
  <2> HIDE DEF added
  <2> QED BY <2>1 DEF added, SameItems
<1>2. CASE ~copy
  <2>1. added = Answer(h, FALSE)
    BY <1>2 DEF add_item_to_object
  <2> HIDE DEF added
  <2>2. added.h = h /\ added.r = FALSE
    BY <2>1 DEF Answer
  <2>3. g = cJSON_Delete(h, n)
    BY <2>2
  <2> HIDE DEF g
  <2>4. Sound(g, R \ {n}) /\ g.live \subseteq h.live /\ Kept(h, g)
    BY <2>3, DeleteSound
  <2> QED BY <2>4 DEF g, added
<1> QED BY <1>1, <1>2

\* cJSON_AddNullToObject and its eight fellows
LEMMA AddNewSound ==
  ASSUME NEW h, NEW R, Sound(h, R), NEW a \in ListsOf(h), NEW n \in Ptr, n \notin h.live,
         NEW name \in Key, NEW copy \in BOOLEAN
  PROVE  LET answer == AddNewToObject(h, a, name, n, copy)
         IN  Sound(answer.h, R) /\ Kept(h, answer.h)
<1> DEFINE answer == AddNewToObject(h, a, name, n, copy)
           new == cJSON_New_Item(h, n)
           added == add_item_to_object(new, a, name, n, FALSE, copy)
           g == IF added.r THEN added.h ELSE cJSON_Delete(added.h, n)
<1>0. h \in Heap /\ R \subseteq h.live /\ a \in h.live
  BY DEF Sound, Roots, ListsOf
<1>1. answer.h = g
  BY DEF AddNewToObject, Answer
<1>2. CASE n = NULL
  <2>1. added = Answer(h, FALSE)
    BY <1>2, AddNothing DEF cJSON_New_Item
  <2>2. cJSON_Delete(h, n) = h
    BY <1>0, <1>2, DeleteNothing
  <2> HIDE DEF added, answer
  <2>3. answer.h = h
    BY <1>1, <2>1, <2>2 DEF Answer
  <2> QED BY <2>3 DEF Kept, answer
<1>3. CASE n # NULL
  <2>1. n \in Item
    BY <1>3 DEF Ptr
  <2> DEFINE R2 == R \cup {n}
  <2>2. Sound(new, R2) /\ Kept(h, new) /\ new.live = h.live \cup {n}
    BY <2>1, NewSound
  <2>3. a \in ListsOf(new) /\ a # n /\ R2 \ {n} = R /\ n \in R2
    BY <1>0, <2>2 DEF ListsOf, Kept
  <2>4. ASSUME NEW k, k = new
        PROVE  LET added2 == add_item_to_object(k, a, name, n, FALSE, copy)
                   g2 == IF added2.r THEN added2.h ELSE cJSON_Delete(added2.h, n)
               IN  Sound(g2, R2 \ {n}) /\ g2.live \subseteq k.live /\ Kept(k, g2)
    <3> HIDE DEF new, R2
    <3>1. Sound(k, R2) /\ a \in ListsOf(k) /\ n \in R2 /\ a # n
      BY <2>2, <2>3, <2>4
    <3> QED BY <3>1, AddOrDelete
  <2>5. Sound(g, R2 \ {n}) /\ g.live \subseteq new.live /\ Kept(new, g)
    BY <2>4
  <2> HIDE DEF g, new, R2, answer
  <2>6. Kept(h, g)
    BY <2>2, <2>5 DEF Kept
  <2> QED BY <1>1, <2>3, <2>5, <2>6 DEF answer
<1> QED BY <1>2, <1>3

\* cJSON_DeleteItemFromArray, of what the search found
LEMMA DeleteFoundSound ==
  ASSUME NEW h, NEW R, Sound(h, R), NEW a \in ListsOf(h), NEW i \in ToSet(Children(h, a)) \cup {NULL}
  PROVE  LET detached == cJSON_DetachItemViaPointer(h, a, i)
         IN  Sound(cJSON_Delete(detached.h, detached.r), R) /\ Kept(h, cJSON_Delete(detached.h, detached.r))
<1> DEFINE detached == cJSON_DetachItemViaPointer(h, a, i)
<1>1. /\ Sound(detached.h, R \cup ({detached.r} \ {NULL})) /\ detached.h.live = h.live
      /\ Kept(h, detached.h) /\ detached.r \notin R /\ detached.r \in Ptr
  BY DetachFound
<1> HIDE DEF detached
<1>2. CASE detached.r = NULL
  <2>1. R \cup ({detached.r} \ {NULL}) = R
    BY <1>2
  <2>2. detached.h \in Heap
    BY <1>1 DEF Sound
  <2>3. cJSON_Delete(detached.h, detached.r) = detached.h
    BY <1>2, <2>2, DeleteNothing
  <2> QED BY <1>1, <2>1, <2>3 DEF detached
<1>3. CASE detached.r # NULL
  <2> DEFINE r == detached.r
             g == cJSON_Delete(detached.h, r)
  <2>1. R \cup ({r} \ {NULL}) = R \cup {r} /\ (R \cup {r}) \ {r} = R /\ r \in R \cup {r}
    BY <1>1, <1>3
  <2>2. /\ Sound(g, (R \cup {r}) \ {r}) /\ g.live \subseteq detached.h.live /\ Kept(detached.h, g)
    BY <1>1, <2>1, DeleteSound
  <2>3. Kept(h, g)
    BY <1>1, <2>2 DEF Kept
  <2> QED BY <2>1, <2>2, <2>3 DEF detached
<1> QED BY <1>2, <1>3

\* Two heaps that differ in no field
LEMMA HeapsEqual ==
  ASSUME NEW g \in Heap, NEW k \in Heap, SameNames(g, k),
         \A x \in Item : /\ k.f[x].IsReference = g.f[x].IsReference /\ k.f[x].child = g.f[x].child
                         /\ k.f[x].next = g.f[x].next /\ k.f[x].prev = g.f[x].prev
  PROVE  k = g
<1>1. ASSUME NEW x \in Item PROVE k.f[x] = g.f[x]
  <2>1. k.f[x] \in Node /\ g.f[x] \in Node
    BY HeapFields
  <2>2. /\ k.f[x].IsReference = g.f[x].IsReference /\ k.f[x].child = g.f[x].child
        /\ k.f[x].next = g.f[x].next /\ k.f[x].prev = g.f[x].prev
        /\ k.f[x].string = g.f[x].string /\ k.f[x].copied = g.f[x].copied
        /\ k.f[x].StringIsConst = g.f[x].StringIsConst
    BY DEF SameNames
  <2> DEFINE p == k.f[x]
             q == g.f[x]
  <2>3. p = [child |-> p.child, next |-> p.next, prev |-> p.prev, string |-> p.string,
             copied |-> p.copied, IsReference |-> p.IsReference, StringIsConst |-> p.StringIsConst]
    <3> HIDE DEF p
    <3> QED BY <2>1 DEF Node, p
  <2>4. q = [child |-> q.child, next |-> q.next, prev |-> q.prev, string |-> q.string,
             copied |-> q.copied, IsReference |-> q.IsReference, StringIsConst |-> q.StringIsConst]
    <3> HIDE DEF q
    <3> QED BY <2>1 DEF Node, q
  <2>5. /\ p.IsReference = q.IsReference /\ p.child = q.child /\ p.next = q.next /\ p.prev = q.prev
        /\ p.string = q.string /\ p.copied = q.copied /\ p.StringIsConst = q.StringIsConst
    BY <2>2
  <2> HIDE DEF p, q
  <2>6. p = q
    BY <2>3, <2>4, <2>5
  <2> QED BY <2>6 DEF p, q
<1>2. k.f = g.f
  <2>1. k.f \in [Item -> Node] /\ g.f \in [Item -> Node]
    BY HeapFields
  <2>2. k.f = [x \in Item |-> k.f[x]] /\ g.f = [x \in Item |-> g.f[x]]
    BY <2>1
  <2> QED BY <2>2, <1>1
<1>3. /\ k = [live |-> k.live, keys |-> k.keys, badfree |-> k.badfree, f |-> k.f]
      /\ g = [live |-> g.live, keys |-> g.keys, badfree |-> g.badfree, f |-> g.f]
  BY DEF Heap
<1> QED BY <1>2, <1>3 DEF SameNames

\* g and k differ in nothing but where the item e points back to.
ButPrev(g, k, e) ==
  /\ Rewired(g, k)
  /\ \A x \in Item : /\ k.f[x].child = g.f[x].child /\ k.f[x].next = g.f[x].next
                     /\ x # e => k.f[x].prev = g.f[x].prev

LEMMA PrevOverwritten ==
  ASSUME NEW g \in Heap, NEW k, NEW e \in Item, ButPrev(g, k, e), NEW v \in Ptr
  PROVE  set_prev(k, e, v) = set_prev(g, e, v)
<1> DEFINE p == set_prev(g, e, v)
           q == set_prev(k, e, v)
<1>0. k \in Heap /\ Rewired(g, k)
  BY DEF ButPrev, Rewired
<1>1. /\ Rewired(g, p)
      /\ \A x \in Item : /\ p.f[x].prev = IF x = e THEN v ELSE g.f[x].prev
                         /\ p.f[x].next = g.f[x].next /\ p.f[x].child = g.f[x].child
  BY SetPrev
<1>2. /\ Rewired(k, q)
      /\ \A x \in Item : /\ q.f[x].prev = IF x = e THEN v ELSE k.f[x].prev
                         /\ q.f[x].next = k.f[x].next /\ q.f[x].child = k.f[x].child
  BY <1>0, SetPrev
<1> HIDE DEF p, q
<1>3. p \in Heap /\ q \in Heap
  BY <1>1, <1>2 DEF Rewired
<1>4. SameNames(p, q)
  BY <1>0, <1>1, <1>2 DEF Rewired, SameNames
<1>5. ASSUME NEW x \in Item
      PROVE  /\ q.f[x].IsReference = p.f[x].IsReference /\ q.f[x].child = p.f[x].child
             /\ q.f[x].next = p.f[x].next /\ q.f[x].prev = p.f[x].prev
  <2>1. q.f[x].IsReference = p.f[x].IsReference
    BY <1>0, <1>1, <1>2 DEF Rewired
  <2>2. q.f[x].child = p.f[x].child /\ q.f[x].next = p.f[x].next
    BY <1>1, <1>2 DEF ButPrev
  <2>3. q.f[x].prev = p.f[x].prev
    BY <1>1, <1>2 DEF ButPrev
  <2> QED BY <2>1, <2>2, <2>3
<1>6. q = p
  BY <1>3, <1>4, <1>5, HeapsEqual
<1> QED BY <1>6 DEF p, q

LEMMA NewButPrev ==
  ASSUME NEW g \in Heap, NEW k, NEW e \in Item, ButPrev(g, k, e), NEW n \in Item, n # e
  PROVE  ButPrev(cJSON_New_Item(g, n), cJSON_New_Item(k, n), e)
<1> DEFINE p == cJSON_New_Item(g, n)
           q == cJSON_New_Item(k, n)
<1>0. k \in Heap /\ Rewired(g, k)
  BY DEF ButPrev, Rewired
<1>1. /\ p \in Heap /\ p.live = g.live \cup {n} /\ p.keys = g.keys /\ p.badfree = g.badfree
      /\ p.f[n] = Zero /\ \A x \in Item : x # n => p.f[x] = g.f[x]
  BY NewFields
<1>2. /\ q \in Heap /\ q.live = k.live \cup {n} /\ q.keys = k.keys /\ q.badfree = k.badfree
      /\ q.f[n] = Zero /\ \A x \in Item : x # n => q.f[x] = k.f[x]
  BY <1>0, NewFields
<1> HIDE DEF p, q
<1>3. q.live = p.live /\ q.keys = p.keys /\ q.badfree = p.badfree
  BY <1>0, <1>1, <1>2 DEF Rewired, SameNames
<1>4. ASSUME NEW x \in Item
      PROVE  /\ q.f[x].string = p.f[x].string /\ q.f[x].copied = p.f[x].copied
             /\ q.f[x].StringIsConst = p.f[x].StringIsConst
             /\ q.f[x].IsReference = p.f[x].IsReference
             /\ q.f[x].child = p.f[x].child /\ q.f[x].next = p.f[x].next
             /\ (x # e => q.f[x].prev = p.f[x].prev)
  <2>1. CASE x = n
    BY <1>1, <1>2, <2>1
  <2>2. CASE x # n
    <3>1. q.f[x] = k.f[x] /\ p.f[x] = g.f[x]
      BY <1>1, <1>2, <2>2
    <3>2. /\ k.f[x].string = g.f[x].string /\ k.f[x].copied = g.f[x].copied
          /\ k.f[x].StringIsConst = g.f[x].StringIsConst
          /\ k.f[x].IsReference = g.f[x].IsReference
      BY <1>0 DEF Rewired, SameNames
    <3>3. /\ k.f[x].child = g.f[x].child /\ k.f[x].next = g.f[x].next
          /\ (x # e => k.f[x].prev = g.f[x].prev)
      BY DEF ButPrev
    <3> QED BY <3>1, <3>2, <3>3
  <2> QED BY <2>1, <2>2
<1>5. SameNames(p, q)
  BY <1>3, <1>4 DEF SameNames
<1>6. Rewired(p, q)
  BY <1>2, <1>4, <1>5 DEF Rewired
<1>7. ButPrev(p, q, e)
  BY <1>4, <1>6 DEF ButPrev
<1> QED BY <1>7 DEF p, q

LEMMA SuffixButPrev ==
  ASSUME NEW g \in Heap, NEW k, NEW e \in Item, ButPrev(g, k, e), NEW x \in Item, NEW i \in Item
  PROVE  ButPrev(suffix_object(g, x, i), suffix_object(k, x, i), e)
<1> DEFINE p1 == set_next(g, x, i)
           q1 == set_next(k, x, i)
           p == set_prev(p1, i, x)
           q == set_prev(q1, i, x)
<1>0. k \in Heap /\ Rewired(g, k) /\ x \in Ptr /\ i \in Ptr
  BY DEF ButPrev, Rewired, Ptr
<1>1. /\ Rewired(g, p1)
      /\ \A y \in Item : /\ p1.f[y].next = IF y = x THEN i ELSE g.f[y].next
                         /\ p1.f[y].prev = g.f[y].prev /\ p1.f[y].child = g.f[y].child
  BY <1>0, SetNext
<1>2. /\ Rewired(k, q1)
      /\ \A y \in Item : /\ q1.f[y].next = IF y = x THEN i ELSE k.f[y].next
                         /\ q1.f[y].prev = k.f[y].prev /\ q1.f[y].child = k.f[y].child
  BY <1>0, SetNext
<1> HIDE DEF p1, q1
<1>3. p1 \in Heap /\ q1 \in Heap
  BY <1>1, <1>2 DEF Rewired
<1>4. /\ Rewired(p1, p)
      /\ \A y \in Item : /\ p.f[y].prev = IF y = i THEN x ELSE p1.f[y].prev
                         /\ p.f[y].next = p1.f[y].next /\ p.f[y].child = p1.f[y].child
  BY <1>0, <1>3, SetPrev
<1>5. /\ Rewired(q1, q)
      /\ \A y \in Item : /\ q.f[y].prev = IF y = i THEN x ELSE q1.f[y].prev
                         /\ q.f[y].next = q1.f[y].next /\ q.f[y].child = q1.f[y].child
  BY <1>0, <1>3, SetPrev
<1> HIDE DEF p, q
<1>6. q \in Heap
  BY <1>5 DEF Rewired
<1>7. SameNames(p, q)
  <2>1. SameNames(g, p1) /\ SameNames(p1, p) /\ SameNames(k, q1) /\ SameNames(q1, q) /\ SameNames(g, k)
    BY <1>0, <1>1, <1>2, <1>4, <1>5 DEF Rewired
  <2>2. SameNames(g, p) /\ SameNames(g, q)
    BY <2>1 DEF SameNames
  <2> QED BY <2>2 DEF SameNames
<1>8. \A y \in Item : q.f[y].IsReference = p.f[y].IsReference
  BY <1>0, <1>1, <1>2, <1>4, <1>5 DEF Rewired
<1>9. ASSUME NEW y \in Item
      PROVE  /\ q.f[y].child = p.f[y].child /\ q.f[y].next = p.f[y].next
             /\ (y # e => q.f[y].prev = p.f[y].prev)
  <2>1. /\ k.f[y].child = g.f[y].child /\ k.f[y].next = g.f[y].next
        /\ (y # e => k.f[y].prev = g.f[y].prev)
    BY DEF ButPrev
  <2>2. q.f[y].child = p.f[y].child
    BY <2>1, <1>1, <1>2, <1>4, <1>5
  <2>3. q.f[y].next = p.f[y].next
    BY <2>1, <1>1, <1>2, <1>4, <1>5
  <2>4. ASSUME y # e PROVE q.f[y].prev = p.f[y].prev
    BY <2>1, <2>4, <1>1, <1>2, <1>4, <1>5
  <2> QED BY <2>2, <2>3, <2>4
<1>10. ButPrev(p, q, e)
  BY <1>6, <1>7, <1>8, <1>9 DEF ButPrev, Rewired
<1> QED BY <1>10 DEF suffix_object, p, q, p1, q1

\* The list of a from its first item y to its last item z: k as CreateArray links
\* it, without the way back, and g as add_item_to_array does.
HalfMade(k, g, R, a, y, z) ==
  /\ Sound(g, R) /\ a \in ListsOf(g) /\ ButPrev(g, k, y)
  /\ g.f[a].child = y /\ g.f[y].prev = z /\ g = set_prev(k, y, z)

\* Into the empty list of a goes the first item y.
LEMMA MakeFirst ==
  ASSUME NEW h, NEW R, Sound(h, R), NEW a \in ListsOf(h), h.f[a].child = NULL,
         NEW y \in Item, y \notin h.live
  PROVE  LET made == cJSON_New_Item(h, y)
             g == add_item_to_array(made, a, y).h
         IN  /\ HalfMade(set_child(made, a, y), g, R, a, y, y) /\ Kept(h, g)
             /\ g.live = h.live \cup {y}
<1> DEFINE made == cJSON_New_Item(h, y)
           k == set_child(made, a, y)
           p == set_prev(k, y, y)
           q == set_next(p, y, NULL)
           g == add_item_to_array(made, a, y).h
<1>0. /\ h \in Heap /\ NULL \notin Item /\ a \in Item /\ y \in Ptr /\ NULL \in Ptr /\ a # y
      /\ y \notin R /\ y # NULL
  BY HeapFields DEF Sound, ListsOf, Ptr, Roots
<1>1. Sound(made, R \cup {y}) /\ Kept(h, made) /\ made.live = h.live \cup {y}
  BY NewSound
<1>2. /\ made \in Heap /\ made.f[y] = Zero /\ \A x \in Item : x # y => made.f[x] = h.f[x]
  BY <1>0, NewFields
<1> HIDE DEF made
<1>3. a \in ListsOf(made) /\ made.f[a].child = NULL /\ made.f[y].next = NULL
  BY <1>0, <1>1, <1>2 DEF ListsOf, Zero
<1>4. g = q
  <2>1. y # NULL /\ a # y /\ made.f[a].child = NULL
    BY <1>0, <1>3
  <2>2. add_item_to_array(made, a, y) = Answer(q, TRUE)
    BY <2>1 DEF add_item_to_array
  <2> HIDE DEF q
  <2> QED BY <2>2 DEF Answer
<1>5. /\ Rewired(made, k)
      /\ \A x \in Item : /\ k.f[x].child = IF x = a THEN y ELSE made.f[x].child
                         /\ k.f[x].next = made.f[x].next /\ k.f[x].prev = made.f[x].prev
  BY <1>0, <1>2, SetChild
<1> HIDE DEF k
<1>6. k \in Heap
  BY <1>5 DEF Rewired
<1>7. /\ Rewired(k, p)
      /\ \A x \in Item : /\ p.f[x].prev = IF x = y THEN y ELSE k.f[x].prev
                         /\ p.f[x].next = k.f[x].next /\ p.f[x].child = k.f[x].child
  BY <1>0, <1>6, SetPrev
<1> HIDE DEF p
<1>8. p \in Heap
  BY <1>7 DEF Rewired
<1>9. /\ Rewired(p, q)
      /\ \A x \in Item : /\ q.f[x].next = IF x = y THEN NULL ELSE p.f[x].next
                         /\ q.f[x].prev = p.f[x].prev /\ q.f[x].child = p.f[x].child
  BY <1>0, <1>8, SetNext
<1> HIDE DEF q
<1>10. p = q
  <2>1. q \in Heap /\ SameNames(q, p)
    BY <1>9 DEF Rewired, SameNames
  <2>2. p.f[y].next = NULL
    BY <1>3, <1>5, <1>7
  <2>3. \A x \in Item : /\ p.f[x].IsReference = q.f[x].IsReference /\ p.f[x].child = q.f[x].child
                        /\ p.f[x].next = q.f[x].next /\ p.f[x].prev = q.f[x].prev
    BY <2>2, <1>9 DEF Rewired
  <2> QED BY <2>1, <2>3, <1>8, HeapsEqual
<1>11. ButPrev(p, k, y)
  <2>1. Rewired(p, k)
    BY <1>6, <1>7 DEF Rewired, SameNames
  <2> QED BY <2>1, <1>7 DEF ButPrev
<1> DEFINE R2 == R \cup {y}
<1>12. Sound(made, R2) /\ y \in R2 /\ R2 \ {y} = R
  BY <1>0, <1>1
<1>13. Sound(g, R) /\ SameItems(made, g) /\ Kept(made, g)
  <2> HIDE DEF R2
  <2>1. /\ Sound(add_item_to_array(made, a, y).h, R2 \ {y})
        /\ SameItems(made, add_item_to_array(made, a, y).h)
        /\ Kept(made, add_item_to_array(made, a, y).h)
    BY <1>0, <1>3, <1>12, AddSound
  <2> QED BY <2>1, <1>12 DEF SameItems
<1> HIDE DEF g
<1>14. g = p
  BY <1>4, <1>10
<1>15. g.live = h.live \cup {y} /\ Kept(h, g)
  BY <1>1, <1>13 DEF Kept, SameItems
<1>16. a \in ListsOf(g)
  BY <1>0, <1>3, <1>13 DEF ListsOf, Kept, SameItems
<1>17. g.f[a].child = y /\ g.f[y].prev = y
  BY <1>0, <1>5, <1>7, <1>14
<1>18. HalfMade(k, g, R, a, y, y)
  BY <1>11, <1>13, <1>14, <1>16, <1>17 DEF HalfMade, p
<1> QED BY <1>15, <1>18 DEF g, k, made

\* The next item x goes in behind the last, and the way back of the first is still
\* to be set.
NextMade(k, g, R, a, y, z, x) ==
  LET more == add_item_to_array(cJSON_New_Item(g, x), a, x).h
  IN  /\ HalfMade(suffix_object(cJSON_New_Item(k, x), z, x), more, R, a, y, x)
      /\ Kept(g, more) /\ more.live = g.live \cup {x}

LEMMA MakeNext ==
  ASSUME NEW k, NEW g, NEW R, NEW a, NEW y \in Item, NEW z \in Item, HalfMade(k, g, R, a, y, z),
         NEW x \in Item, x \notin g.live, x # y, x # z
  PROVE  NextMade(k, g, R, a, y, z, x)
<1> DEFINE m == cJSON_New_Item(g, x)
           l == cJSON_New_Item(k, x)
           p1 == set_next(m, z, x)
           p == suffix_object(m, z, x)
           q == suffix_object(l, z, x)
           more == add_item_to_array(m, a, x).h
           done == set_prev(p, y, x)
           R2 == R \cup {x}
<1>0. /\ g \in Heap /\ Sound(g, R) /\ a \in ListsOf(g) /\ a \in Item /\ ButPrev(g, k, y)
      /\ x \in Ptr /\ z \in Ptr /\ x # NULL /\ y # NULL /\ z # NULL /\ x \notin R /\ a # x
      /\ g.f[a].child = y /\ g.f[y].prev = z
  BY HeapFields DEF HalfMade, Sound, ListsOf, Ptr, Roots
<1>1. Sound(m, R2) /\ Kept(g, m) /\ m.live = g.live \cup {x}
  BY <1>0, NewSound
<1>2. m \in Heap /\ \A w \in Item : w # x => m.f[w] = g.f[w]
  BY <1>0, NewFields
<1>3. ButPrev(m, l, y)
  BY <1>0, NewButPrev
<1> HIDE DEF m, l
<1>4. a \in ListsOf(m) /\ m.f[a].child = y /\ m.f[y].prev = z
  BY <1>0, <1>1, <1>2 DEF ListsOf
<1>5. ButPrev(p, q, y)
  BY <1>2, <1>3, SuffixButPrev
<1>6. Rewired(m, p1) /\ \A w \in Item : p1.f[w].child = m.f[w].child
  BY <1>0, <1>2, SetNext
<1>7. p = set_prev(p1, x, z) /\ p1 \in Heap
  BY <1>6 DEF suffix_object, Rewired
<1> HIDE DEF p1
<1>8. Rewired(p1, p) /\ \A w \in Item : p.f[w].child = p1.f[w].child
  <2> HIDE DEF p
  <2> QED BY <1>0, <1>7, SetPrev
<1>9. add_item_to_array(m, a, x) = Answer(done, TRUE)
  <2> HIDE DEF p
  <2>1. m.f[m.f[a].child].prev = z
    BY <1>4
  <2> QED BY <2>1, <1>0, <1>4 DEF add_item_to_array, p
<1> HIDE DEF p, q
<1>10. p \in Heap
  BY <1>8 DEF Rewired
<1>11. done = set_prev(q, y, x)
  BY <1>0, <1>5, <1>10, PrevOverwritten
<1>12. /\ Rewired(p, done)
       /\ \A w \in Item : /\ done.f[w].prev = IF w = y THEN x ELSE p.f[w].prev
                          /\ done.f[w].next = p.f[w].next /\ done.f[w].child = p.f[w].child
  BY <1>0, <1>10, SetPrev
<1> HIDE DEF done
<1>13. more = done
  BY <1>9 DEF Answer
<1>14. ButPrev(done, q, y)
  <2>1. q \in Heap /\ Rewired(p, q)
    BY <1>5 DEF ButPrev, Rewired
  <2>2. Rewired(done, q)
    BY <2>1, <1>12 DEF Rewired, SameNames
  <2>3. \A w \in Item : /\ q.f[w].child = done.f[w].child /\ q.f[w].next = done.f[w].next
                        /\ w # y => q.f[w].prev = done.f[w].prev
    BY <1>5, <1>12 DEF ButPrev
  <2> QED BY <2>2, <2>3 DEF ButPrev
<1>15. R2 \ {x} = R /\ x \in R2
  BY <1>0
<1> HIDE DEF R2
<1>16. Sound(more, R2 \ {x}) /\ Kept(m, more) /\ SameItems(m, more)
  BY <1>0, <1>1, <1>4, <1>15, AddSound
<1> HIDE DEF more
<1>17. Sound(done, R) /\ Kept(g, done) /\ done.live = g.live \cup {x}
  BY <1>1, <1>13, <1>15, <1>16 DEF SameItems, Kept
<1>18. a \in ListsOf(done)
  BY <1>4, <1>13, <1>16 DEF ListsOf, Kept, SameItems
<1>19. done.f[a].child = y /\ done.f[y].prev = x
  BY <1>0, <1>4, <1>6, <1>8, <1>12
<1>20. HalfMade(q, done, R, a, y, x)
  BY <1>11, <1>14, <1>17, <1>18, <1>19 DEF HalfMade
<1> QED BY <1>13, <1>17, <1>20 DEF NextMade, q, l, m, more

\* The list of a, which is linked but for the way back
Half(k, g, R, own, pos, len, a) ==
  /\ Shaped(g, own, pos, len, NULL) /\ Shaped(k, own, pos, len, a)
  /\ R = Roots(g, own) /\ k.live = g.live /\ ListsOf(k) = ListsOf(g)

LEMMA HalfShaped ==
  ASSUME NEW k, NEW g, NEW R, NEW a \in R, NEW y \in Item, NEW z, HalfMade(k, g, R, a, y, z)
  PROVE  \E own, pos, len : Half(k, g, R, own, pos, len, a)
<1>0. /\ g \in Heap /\ Sound(g, R) /\ a \in ListsOf(g) /\ a \in Item /\ ButPrev(g, k, y)
      /\ y # NULL /\ a # NULL /\ g.f[a].child = y /\ Names(g)
  BY HeapFields DEF HalfMade, Sound, ListsOf
<1>1. PICK own, pos, len : Shaped(g, own, pos, len, NULL) /\ R = Roots(g, own)
  BY <1>0 DEF Sound
<1>2. Rewired(g, k) /\ k \in Heap /\ k.live = g.live
  BY <1>0 DEF ButPrev, Rewired, SameNames
<1>3. own[y] = a /\ pos[y] = 1
  <2>1. len[a] \in Nat /\ (len[a] = 0 => g.f[a].child = NULL)
    BY <1>0, <1>1 DEF Shaped, Ranked, Linked
  <2>2. 1 \in 1..len[a]
    BY <2>1, <1>0
  <2>3. PICK x \in Item : own[x] = a /\ pos[x] = 1
    BY <2>2, <1>0, <1>1 DEF Shaped, Ranked
  <2>4. g.f[a].child = x
    BY <2>3, <1>0, <1>1 DEF Shaped, Linked
  <2> QED BY <2>3, <2>4, <1>0
<1>4. \A b : b \in ListsOf(k) <=> b \in ListsOf(g)
  BY <1>2, HeapFields DEF ListsOf, Rewired, SameNames
<1>5. Linked(k, own, pos, len)
  <2>1. Linked(g, own, pos, len)
    BY <1>1 DEF Shaped
  <2>2. \A x \in Item : own[x] # NULL => x \in k.live /\ own[x] \in ListsOf(k)
    BY <2>1, <1>2, <1>4 DEF Linked
  <2>3. \A b \in ListsOf(k) : len[b] = 0 => k.f[b].child = NULL
    <3>1. \A b \in ListsOf(k) : b \in Item
      BY <1>2, HeapFields DEF ListsOf
    <3> QED BY <2>1, <3>1, <1>0, <1>4 DEF Linked, ButPrev
  <2>4. \A x \in Item : own[x] # NULL =>
          /\ pos[x] = 1 => k.f[own[x]].child = x
          /\ pos[x] = len[own[x]] => k.f[x].next = NULL
    <3>1. \A x \in Item : own[x] # NULL => own[x] \in Item
      BY <1>1 DEF Shaped, Ranked, Ptr
    <3> QED BY <2>1, <3>1, <1>0 DEF Linked, ButPrev
  <2>5. \A x, w \in Item :
          own[x] # NULL /\ own[w] = own[x] /\ pos[w] = pos[x] + 1 => k.f[x].next = w
    BY <2>1, <1>0 DEF Linked, ButPrev
  <2> QED BY <2>2, <2>3, <2>4, <2>5 DEF Linked
<1>6. Backed(k, own, pos, len, a)
  <2>1. Backed(g, own, pos, len, NULL)
    BY <1>1 DEF Shaped
  <2> SUFFICES ASSUME NEW x \in Item, NEW w \in Item, own[x] # NULL, own[w] = own[x]
               PROVE  /\ pos[w] = pos[x] + 1 => k.f[w].prev = x
                      /\ pos[x] = 1 /\ pos[w] = len[own[x]] /\ own[x] # a => k.f[x].prev = w
    BY DEF Backed
  <2>2. ASSUME pos[w] = pos[x] + 1 PROVE k.f[w].prev = x
    <3>1. pos[x] \in Nat /\ pos[x] >= 1
      <4>1. own[x] \in Item /\ len \in [Item -> Nat] /\ pos[x] \in 1..len[own[x]]
        BY <1>1 DEF Shaped, Ranked, Ptr
      <4> QED BY <4>1
    <3>2. w # y
      BY <3>1, <2>2, <1>3
    <3>3. g.f[w].prev = x
      BY <2>1, <2>2 DEF Backed
    <3> QED BY <3>2, <3>3, <1>0 DEF ButPrev
  <2>3. ASSUME pos[x] = 1, pos[w] = len[own[x]], own[x] # a PROVE k.f[x].prev = w
    <3>1. g.f[x].prev = w
      BY <2>1, <2>3 DEF Backed
    <3> QED BY <3>1, <2>3, <1>0, <1>3 DEF ButPrev
  <2> QED BY <2>2, <2>3
<1>7. Loose(k, own)
  <2>1. \A x \in k.live : x \in Item
    BY <1>2, HeapFields
  <2> QED BY <2>1, <1>0, <1>1, <1>2, <1>3 DEF Shaped, Loose, ButPrev
<1>8. Shaped(k, own, pos, len, a)
  BY <1>1, <1>2, <1>5, <1>6, <1>7 DEF Shaped
<1>9. ListsOf(k) = ListsOf(g)
  BY <1>4
<1> QED BY <1>1, <1>2, <1>8, <1>9 DEF Half

\* An allocation fails, and what was linked is deleted.
LEMMA DeleteHalf ==
  ASSUME NEW k, NEW g, NEW R, NEW a \in R, NEW y \in Item, NEW z, HalfMade(k, g, R, a, y, z)
  PROVE  Sound(cJSON_Delete(k, a), R \ {a}) /\ Kept(g, cJSON_Delete(k, a))
<1>0. /\ g \in Heap /\ a \in Item /\ Rewired(g, k) /\ Names(g)
  BY HeapFields DEF HalfMade, Sound, ListsOf, ButPrev
<1>1. PICK own, pos, len : Half(k, g, R, own, pos, len, a)
  BY HalfShaped
<1>2. k \in Heap /\ k.live = g.live
  BY <1>0 DEF Rewired, SameNames
<1>8. Shaped(k, own, pos, len, a) /\ R = Roots(g, own)
  BY <1>1 DEF Half
<1>9. Names(k)
  BY <1>0, <1>2, NamesCarry DEF Rewired
<1>10. Roots(k, own) = R /\ own[a] = NULL /\ a \in k.live
  BY <1>2, <1>8 DEF Roots
<1>11. a \in Doomed(k, a)
  BY <1>0, <1>2, DoomedProperties
<1>12. /\ Sound(cJSON_Delete(k, a), R \ {a}) /\ cJSON_Delete(k, a).live \subseteq k.live
       /\ Kept(k, cJSON_Delete(k, a))
  BY <1>8, <1>9, <1>10, <1>11, DeleteShaped
<1>13. Kept(g, cJSON_Delete(k, a))
  <2>1. \A x \in k.live : k.f[x].IsReference = g.f[x].IsReference
    BY <1>0, <1>2, HeapFields DEF Rewired
  <2> QED BY <2>1, <1>2, <1>12 DEF Kept
<1> QED BY <1>12, <1>13

\* The recursion that defines the loop of CreateArray has a solution.
LEMMA ChainUnfolds ==
  ASSUME NEW g, NEW a, NEW s, Len(s) \in Nat
  PROVE  /\ Chain(g, a, s)[0] = g
         /\ \A k \in 1..Len(s) :
              Chain(g, a, s)[k] =
                IF k = 1 THEN set_child(cJSON_New_Item(Chain(g, a, s)[k - 1], s[k]), a, s[k])
                ELSE suffix_object(cJSON_New_Item(Chain(g, a, s)[k - 1], s[k]), s[k - 1], s[k])
<1> DEFINE made(f, k) == cJSON_New_Item(f[k - 1], s[k])
           body(f, k) == IF k = 0 THEN g
                         ELSE IF k = 1 THEN set_child(made(f, k), a, s[k])
                         ELSE suffix_object(made(f, k), s[k - 1], s[k])
           solves(f, n) == f = [k \in 0..n |-> body(f, k)]
           unsolved == {n \in Nat : ~ \E f : solves(f, n)}
           w == Chain(g, a, s)
<1>1. unsolved = {}
  <2> SUFFICES ASSUME unsolved # {} PROVE FALSE
    OBVIOUS
  <2>1. PICK m \in unsolved : \A n \in unsolved : m <= n
    <3>1. unsolved \subseteq Nat
      OBVIOUS
    <3> HIDE DEF unsolved
    <3> QED BY <3>1, MinExists
  <2>2. CASE m = 0
    <3> DEFINE f == [k \in 0..0 |-> g]
    <3>1. solves(f, 0)
      OBVIOUS
    <3> QED BY <2>2, <3>1
  <2>3. CASE m # 0
    <3>0. m \in Nat
      OBVIOUS
    <3>1. m - 1 \in Nat /\ m - 1 \notin unsolved
      <4> HIDE DEF unsolved
      <4>1. m - 1 \in Nat /\ ~(m <= m - 1)
        BY <3>0, <2>3
      <4> QED BY <4>1, <2>1
    <3>2. PICK f : solves(f, m - 1)
      BY <3>1
    <3> DEFINE e == [k \in 0..m |-> IF k = m THEN body(f, m) ELSE f[k]]
    <3>3. \A k \in 0..m : k # m => k \in 0..(m - 1)
      BY <3>0
    <3>4. \A k \in 0..(m - 1) : f[k] = body(f, k) /\ e[k] = f[k]
      <4>1. \A k \in 0..(m - 1) : f[k] = body(f, k)
        <5> HIDE DEF body
        <5> QED BY <3>2
      <4>2. \A k \in 0..(m - 1) : k \in 0..m /\ k # m
        BY <3>0
      <4> HIDE DEF body
      <4>3. \A k \in 0..(m - 1) : e[k] = f[k]
        BY <4>2
      <4> QED BY <4>1, <4>3
    <3>5. \A k \in 0..m : e[k] = body(e, k)
      <4> TAKE k \in 0..m
      <4>1. k # 0 => e[k - 1] = f[k - 1]
        <5>1. k # 0 => k - 1 \in 0..(m - 1)
          BY <3>0
        <5> HIDE DEF e, body
        <5> QED BY <5>1, <3>4
      <4>2. k # 0 => made(e, k) = made(f, k)
        <5> HIDE DEF e
        <5> QED BY <4>1
      <4>3. body(e, k) = body(f, k)
        <5> HIDE DEF e, made
        <5> QED BY <4>2
      <4>4. e[k] = body(f, k)
        <5> HIDE DEF body
        <5> QED BY <3>3, <3>4
      <4> QED BY <4>3, <4>4
    <3>6. solves(e, m)
      <4>1. e = [k \in 0..m |-> e[k]]
        <5> HIDE DEF body
        <5> QED OBVIOUS
      <4> HIDE DEF e, body
      <4> QED BY <4>1, <3>5
    <3> HIDE DEF e, solves
    <3> QED BY <3>0, <3>6
  <2> QED BY <2>2, <2>3
<1>2. \E f : solves(f, Len(s))
  BY <1>1
<1>3. w = CHOOSE f : solves(f, Len(s))
  BY DEF Chain
<1>4. solves(w, Len(s))
  <2> HIDE DEF w, solves
  <2> QED BY <1>2, <1>3
<1> HIDE DEF w
<1>5. \A k \in 0..Len(s) : w[k] = body(w, k)
  <2> HIDE DEF body
  <2> QED BY <1>4
<1>6. w[0] = g
  <2>1. 0 \in 0..Len(s) /\ body(w, 0) = g
    OBVIOUS
  <2> HIDE DEF body
  <2> QED BY <2>1, <1>5
<1>7. ASSUME NEW k \in 1..Len(s)
      PROVE  w[k] = IF k = 1 THEN set_child(made(w, k), a, s[k])
                    ELSE suffix_object(made(w, k), s[k - 1], s[k])
  <2>1. k \in 0..Len(s) /\ k # 0
    OBVIOUS
  <2> HIDE DEF made
  <2> QED BY <2>1, <1>5
<1> QED BY <1>6, <1>7 DEF w

\* What the allocator gives for an array a and its items s: nothing twice.
Granted(h, a, s) ==
  /\ a \in Ptr /\ a \notin h.live /\ s \in Seq(Ptr)
  /\ \A k \in 1..Len(s) : s[k] \notin h.live /\ (s[k] = NULL \/ s[k] # a)
  /\ \A j, k \in 1..Len(s) : s[j] = s[k] /\ s[j] # NULL => j = k

\* What CreateArray has made when it has linked k items and set the way back.
Ringed(new, a, s, k) ==
  IF k = 0 THEN new ELSE set_prev(Chain(new, a, s)[k], s[1], s[k])

\* Where CreateArray ends, n items of s being linked: at the first allocation that
\* fails, or never.
Ending(h, a, s, n) ==
  LET new == cJSON_New_Item(h, a)
  IN  \/ /\ n < Len(s)
         /\ CreateArray(h, a, s) = Answer(cJSON_Delete(Chain(new, a, s)[n], a), NULL)
      \/ n = Len(s) /\ CreateArray(h, a, s) = Answer(Ringed(new, a, s, n), a)

LEMMA CreateEnds ==
  ASSUME NEW h, NEW a, NEW s, Granted(h, a, s), a # NULL
  PROVE  \E n \in 0..Len(s) : /\ \A k \in 1..n : s[k] # NULL
                              /\ Ending(h, a, s, n)
<1> DEFINE new == cJSON_New_Item(h, a)
           linked == Chain(new, a, s)
           failed == {k \in 1..Len(s) : s[k] = NULL}
           stop == CHOOSE k \in failed : \A j \in failed : k <= j
           answer == CreateArray(h, a, s)
<1>1. s \in Seq(Ptr) /\ Len(s) \in Nat
  BY DEF Granted
<1>2. answer = IF failed # {} THEN Answer(cJSON_Delete(linked[stop - 1], a), NULL)
               ELSE IF s = <<>> THEN Answer(new, a)
               ELSE Answer(set_prev(linked[Len(s)], s[1], s[Len(s)]), a)
  BY DEF CreateArray
<1>3. \A k : k \in failed <=> k \in 1..Len(s) /\ s[k] = NULL
  OBVIOUS
<1> HIDE DEF new, linked, failed, answer
<1>4. CASE failed # {}
  <2>1. failed \subseteq Nat
    BY <1>1, <1>3
  <2>2. \E k \in failed : \A j \in failed : k <= j
    BY <2>1, <1>4, MinExists
  <2>3. stop \in failed /\ \A j \in failed : stop <= j
    BY <2>2
  <2> HIDE DEF stop
  <2>4. stop - 1 \in 0..Len(s) /\ stop - 1 < Len(s) /\ stop \in Nat
    BY <2>3, <1>1, <1>3
  <2>5. ASSUME NEW k \in 1..(stop - 1) PROVE s[k] # NULL
    <3>1. k \in 1..Len(s) /\ ~(stop <= k)
      BY <2>4, <1>1
    <3> QED BY <3>1, <2>3, <1>3
  <2>6. answer = Answer(cJSON_Delete(linked[stop - 1], a), NULL)
    BY <1>2, <1>4
  <2>7. Ending(h, a, s, stop - 1)
    BY <2>4, <2>6 DEF Ending, answer, linked, new
  <2> QED BY <2>4, <2>5, <2>7
<1>5. CASE failed = {}
  <2>1. \A k \in 1..Len(s) : s[k] # NULL
    BY <1>3, <1>5
  <2>2. answer = Answer(Ringed(new, a, s, Len(s)), a)
    <3>1. s = <<>> <=> Len(s) = 0
      BY <1>1
    <3> QED BY <3>1, <1>2, <1>5 DEF Ringed, linked
  <2>3. Ending(h, a, s, Len(s))
    BY <2>2 DEF Ending, answer, new
  <2> QED BY <2>1, <2>3, <1>1
<1> QED BY <1>4, <1>5

\* One step of the loop is one item added to the array.
Links(new, R, a, s, k) ==
  /\ HalfMade(Chain(new, a, s)[k], Ringed(new, a, s, k), R, a, s[1], s[k])
  /\ Kept(new, Ringed(new, a, s, k))
  /\ Ringed(new, a, s, k).live = new.live \cup {s[j] : j \in 1..k}
  /\ Ringed(new, a, s, k)
       = add_item_to_array(cJSON_New_Item(Ringed(new, a, s, k - 1), s[k]), a, s[k]).h

\* The first n of the items s are new, and none is there twice.
AllNew(new, s, n) ==
  /\ n \in 0..Len(s) /\ Len(s) \in Nat
  /\ \A k \in 1..n : s[k] \in Item /\ s[k] \notin new.live
  /\ \A j, k \in 1..n : s[j] = s[k] => j = k

LEMMA ChainLinks ==
  ASSUME NEW new, NEW R, Sound(new, R), NEW a \in ListsOf(new), new.f[a].child = NULL,
         NEW s, NEW n, AllNew(new, s, n)
  PROVE  \A k \in 1..n : Links(new, R, a, s, k)
<1> DEFINE bad == {k \in 1..n : ~Links(new, R, a, s, k)}
<1>1. n \in Nat /\ Len(s) \in Nat /\ n <= Len(s)
  BY DEF AllNew
<1>2. SUFFICES ASSUME bad # {} PROVE FALSE
  OBVIOUS
<1>3. PICK m \in bad : \A k \in bad : m <= k
  <2>1. bad \subseteq Nat
    BY <1>1
  <2> HIDE DEF bad
  <2> QED BY <2>1, <1>2, MinExists
<1>4. m \in 1..n /\ m \in 1..Len(s) /\ ~Links(new, R, a, s, m)
  BY <1>1
<1>5. s[m] \in Item /\ s[m] \notin new.live
  BY <1>4 DEF AllNew
<1>6. CASE m = 1
  <2> DEFINE made == cJSON_New_Item(new, s[1])
             g == add_item_to_array(made, a, s[1]).h
             c == set_child(made, a, s[1])
  <2>1. HalfMade(c, g, R, a, s[1], s[1]) /\ Kept(new, g) /\ g.live = new.live \cup {s[1]}
    BY <1>5, <1>6, MakeFirst
  <2>2. Chain(new, a, s)[1] = c
    <3>1. Chain(new, a, s)[0] = new
      BY <1>1, ChainUnfolds
    <3>2. 1 \in 1..Len(s) /\ 1 - 1 = 0
      BY <1>4, <1>6
    <3>3. Chain(new, a, s)[1] = set_child(cJSON_New_Item(Chain(new, a, s)[1 - 1], s[1]), a, s[1])
      BY <3>2, <1>1, ChainUnfolds
    <3> QED BY <3>1, <3>2, <3>3
  <2> HIDE DEF g, c
  <2>3. Ringed(new, a, s, 1) = g
    BY <2>1, <2>2 DEF Ringed, HalfMade
  <2>4. Ringed(new, a, s, 1 - 1) = new
    BY DEF Ringed
  <2>5. {s[j] : j \in 1..1} = {s[1]}
    OBVIOUS
  <2>6. Links(new, R, a, s, 1)
    BY <2>1, <2>2, <2>3, <2>4, <2>5 DEF Links, g
  <2> QED BY <2>6, <1>4, <1>6
<1>7. CASE m # 1
  <2> DEFINE l == m - 1
             k == Chain(new, a, s)[l]
             g == Ringed(new, a, s, l)
             x == s[m]
             y == s[1]
             z == s[l]
             more == add_item_to_array(cJSON_New_Item(g, x), a, x).h
             c == suffix_object(cJSON_New_Item(k, x), z, x)
  <2>1. l \in 1..n /\ l \in 1..Len(s) /\ 1 \in 1..n /\ l # m /\ ~(m <= l) /\ m \in Nat
    BY <1>1, <1>4, <1>7
  <2>2. Links(new, R, a, s, l)
    <3> HIDE DEF l, bad
    <3>1. l \notin bad
      BY <2>1, <1>3
    <3> QED BY <3>1, <2>1 DEF bad
  <2>3. Chain(new, a, s)[m] = c
    <3> HIDE DEF c
    <3> QED BY <1>1, <1>4, <1>7, ChainUnfolds DEF c, k, l
  <2> HIDE DEF l
  <2>4. /\ HalfMade(k, g, R, a, s[1], s[l]) /\ Kept(new, g)
        /\ g.live = new.live \cup {s[j] : j \in 1..l}
    BY <2>2 DEF Links
  <2>5. /\ s[1] \in Item /\ s[l] \in Item /\ s[m] # s[1] /\ s[m] # s[l]
        /\ \A j \in 1..l : s[m] # s[j]
    <3>1. \A j \in 1..l : j \in 1..n /\ j # m
      BY <1>1, <1>4, <2>1 DEF l
    <3> QED BY <3>1, <2>1, <1>4, <1>7 DEF AllNew
  <2>6. s[m] \notin g.live
    <3> HIDE DEF g
    <3> QED BY <2>4, <2>5, <1>5
  <2>7. HalfMade(c, more, R, a, y, x) /\ Kept(g, more) /\ more.live = g.live \cup {x}
    <3>1. HalfMade(k, g, R, a, y, z)
      BY <2>4
    <3>2. y \in Item /\ z \in Item /\ x \in Item /\ x # y /\ x # z
      BY <2>5, <1>5
    <3>3. x \notin g.live
      BY <2>6
    <3> HIDE DEF g, k, x, y, z
    <3>4. NextMade(k, g, R, a, y, z, x)
      BY <3>1, <3>2, <3>3, MakeNext
    <3> QED BY <3>4 DEF NextMade
  <2> HIDE DEF c, more, g, k
  <2>8. Ringed(new, a, s, m) = more
    BY <2>3, <2>7, <1>4 DEF Ringed, HalfMade
  <2>9. {s[j] : j \in 1..m} = {s[j] : j \in 1..l} \cup {s[m]}
    <3>1. \A j : j \in 1..m <=> j \in 1..l \/ j = m
      BY <2>1 DEF l
    <3> QED BY <3>1
  <2>10. more.live = new.live \cup {s[j] : j \in 1..m}
    BY <2>4, <2>7, <2>9
  <2>11. Kept(new, more)
    BY <2>4, <2>7 DEF Kept
  <2>12. Links(new, R, a, s, m)
    BY <2>3, <2>7, <2>8, <2>10, <2>11 DEF Links, more, g, l
  <2> QED BY <2>12, <1>4
<1> QED BY <1>6, <1>7

\* A new array, before the first item: what CreateArray starts from
LEMMA CreateStarts ==
  ASSUME NEW h, NEW R, Sound(h, R), NEW a, NEW s, Granted(h, a, s), a # NULL,
         NEW n \in 0..Len(s), \A k \in 1..n : s[k] # NULL
  PROVE  LET new == cJSON_New_Item(h, a)
         IN  /\ Sound(new, R \cup {a}) /\ Kept(h, new) /\ new.live = h.live \cup {a}
             /\ a \in ListsOf(new) /\ new.f[a].child = NULL /\ a \notin R /\ a \in Item
             /\ AllNew(new, s, n) /\ Chain(new, a, s)[0] = new
<1> DEFINE new == cJSON_New_Item(h, a)
<1>1. a \in Item /\ a \notin h.live /\ Len(s) \in Nat /\ s \in Seq(Ptr)
  BY DEF Granted, Ptr
<1>2. /\ Sound(new, R \cup {a}) /\ Kept(h, new) /\ new.live = h.live \cup {a}
      /\ a \in ListsOf(new)
  BY <1>1, NewSound
<1>3. new.f[a].child = NULL
  BY <1>1, NewFields DEF Zero, Sound
<1>4. a \notin R
  BY <1>1 DEF Sound, Roots
<1> HIDE DEF new
<1>5. AllNew(new, s, n)
  <2>1. \A k \in 1..n : k \in 1..Len(s) /\ s[k] # NULL
    BY <1>1
  <2>2. \A k \in 1..n : s[k] \in Item /\ s[k] \notin new.live
    BY <2>1, <1>1, <1>2 DEF Granted, Ptr
  <2>3. \A j, k \in 1..n : s[j] = s[k] => j = k
    BY <2>1 DEF Granted
  <2> QED BY <2>2, <2>3, <1>1 DEF AllNew
<1>6. Chain(new, a, s)[0] = new
  BY <1>1, ChainUnfolds
<1> QED BY <1>1, <1>2, <1>3, <1>4, <1>5, <1>6 DEF new

\* What is left when an allocation fails after n items.
LEMMA CreateFails ==
  ASSUME NEW h, NEW R, Sound(h, R), NEW a, NEW s, Granted(h, a, s), a # NULL,
         NEW n \in 0..Len(s), \A k \in 1..n : s[k] # NULL
  PROVE  LET g == cJSON_Delete(Chain(cJSON_New_Item(h, a), a, s)[n], a)
         IN  Sound(g, R) /\ Kept(h, g)
<1> DEFINE new == cJSON_New_Item(h, a)
           c == Chain(new, a, s)[n]
           f == Ringed(new, a, s, n)
           g == cJSON_Delete(c, a)
           R2 == R \cup {a}
<1>1. /\ Sound(new, R2) /\ Kept(h, new) /\ new.live = h.live \cup {a} /\ a \in ListsOf(new)
      /\ new.f[a].child = NULL /\ a \notin R /\ AllNew(new, s, n) /\ Chain(new, a, s)[0] = new
  BY Zenon, CreateStarts
<1>2. a \in R2 /\ R2 \ {a} = R
  BY <1>1
<1> HIDE DEF new, R2
<1>3. CASE n = 0
  <2>1. Sound(g, R2 \ {a}) /\ g.live \subseteq new.live /\ Kept(new, g)
    BY <1>1, <1>2, <1>3, DeleteSound
  <2> HIDE DEF g
  <2> QED BY <2>1, <1>1, <1>2 DEF Kept, g, c, new
<1>4. CASE n # 0
  <2>1. Links(new, R2, a, s, n) /\ n \in 1..n /\ 1 \in 1..n
    <3>1. n \in 1..n /\ 1 \in 1..n
      BY <1>4, <1>1 DEF AllNew
    <3> QED BY <3>1, <1>1, ChainLinks
  <2>2. /\ HalfMade(c, f, R2, a, s[1], s[n]) /\ Kept(new, f)
        /\ f.live = new.live \cup {s[j] : j \in 1..n} /\ s[1] \in Item
    BY <2>1, <1>1 DEF Links, AllNew
  <2> HIDE DEF c, f
  <2>3. Sound(g, R2 \ {a}) /\ Kept(f, g)
    BY <2>2, <1>2, DeleteHalf
  <2>4. g.live \subseteq c.live
    BY DEF cJSON_Delete
  <2>5. c.live = f.live
    BY <2>2 DEF HalfMade, ButPrev, Rewired, SameNames
  <2> HIDE DEF g
  <2>6. Kept(h, g)
    BY <2>2, <2>3, <2>4, <2>5, <1>1 DEF Kept
  <2> QED BY <2>3, <2>6, <1>2 DEF g, c, new
<1> QED BY <1>3, <1>4

\* cJSON_CreateIntArray and its fellows
LEMMA CreateSound ==
  ASSUME NEW h, NEW R, Sound(h, R), NEW a, NEW s, Granted(h, a, s)
  PROVE  LET answer == CreateArray(h, a, s)
         IN  /\ Sound(answer.h, R \cup ({answer.r} \ {NULL})) /\ Kept(h, answer.h)
             /\ answer.r \notin R
<1> DEFINE answer == CreateArray(h, a, s)
<1>0. h \in Heap /\ NULL \notin Item /\ R \subseteq h.live /\ h.live \subseteq Item /\ a \notin R
  BY HeapFields DEF Sound, Roots, Granted
<1>1. CASE a = NULL
  <2>1. answer = Answer(h, NULL)
    BY <1>1 DEF CreateArray
  <2> HIDE DEF answer
  <2>2. answer.h = h /\ answer.r = NULL
    BY <2>1 DEF Answer
  <2>3. R \cup ({NULL} \ {NULL}) = R /\ Kept(h, h)
    BY DEF Kept
  <2> QED BY <2>2, <2>3, <1>0 DEF answer
<1>2. CASE a # NULL
  <2> DEFINE new == cJSON_New_Item(h, a)
             R2 == R \cup {a}
  <2>1. PICK n \in 0..Len(s) : (\A k \in 1..n : s[k] # NULL) /\ Ending(h, a, s, n)
    BY <1>2, CreateEnds
  <2>2. /\ Sound(new, R2) /\ Kept(h, new) /\ new.live = h.live \cup {a} /\ a \in ListsOf(new)
        /\ new.f[a].child = NULL /\ AllNew(new, s, n)
    BY <2>1, <1>2, CreateStarts
  <2>3. R \cup ({a} \ {NULL}) = R2 /\ R \cup ({NULL} \ {NULL}) = R /\ NULL \notin R
    BY <1>0, <1>2
  <2>4. CASE answer = Answer(cJSON_Delete(Chain(new, a, s)[n], a), NULL)
    <3> DEFINE g == cJSON_Delete(Chain(new, a, s)[n], a)
    <3>1. Sound(g, R) /\ Kept(h, g)
      BY <2>1, <1>2, CreateFails
    <3> HIDE DEF answer, g
    <3>2. answer.h = g /\ answer.r = NULL
      BY <2>4 DEF Answer, g
    <3> QED BY <3>1, <3>2, <2>3 DEF answer
  <2> HIDE DEF new, R2
  <2>5. CASE n = Len(s) /\ answer = Answer(Ringed(new, a, s, n), a)
    <3> DEFINE f == Ringed(new, a, s, n)
    <3>1. Sound(f, R2) /\ Kept(h, f)
      <4>1. CASE n = 0
        BY <4>1, <2>2 DEF Ringed
      <4>2. CASE n # 0
        <5>1. n \in 1..n
          BY <4>2, <2>2 DEF AllNew
        <5>2. Links(new, R2, a, s, n)
          BY <5>1, <2>2, ChainLinks
        <5>3. /\ Sound(f, R2) /\ Kept(new, f) /\ f.live = new.live \cup {s[j] : j \in 1..n}
          BY <5>2 DEF Links, HalfMade
        <5> HIDE DEF f
        <5>4. Kept(h, f)
          BY <5>3, <2>2 DEF Kept
        <5> QED BY <5>3, <5>4
      <4> QED BY <4>1, <4>2
    <3> HIDE DEF answer, f
    <3>2. answer.h = f /\ answer.r = a
      BY <2>5 DEF Answer, f
    <3> QED BY <3>1, <3>2, <2>3, <1>0 DEF answer
  <2> QED BY <2>1, <2>4, <2>5 DEF Ending, new
<1> QED BY <1>1, <1>2

-------------------------------------------------------------------------------
(* The invariant: the heap is sound, and the items in no list are those in the *)
(* caller's hands and those it lost, which are references.                     *)

Owners ==
  /\ Sound(heap, held \cup lost) /\ held \cap lost = {}
  /\ \A i \in lost : heap.f[i].IsReference

LEMMA InitOwners == Init => Owners
<1> SUFFICES ASSUME Init PROVE Owners
  OBVIOUS
<1> DEFINE own == [i \in Item |-> NULL]
           pos == [i \in Item |-> 0]
<1>1. heap \in Heap /\ heap.live = {} /\ heap.keys = 0 /\ ~heap.badfree
  <2>1. Zero \in Node
    BY DEF Zero, Node, Ptr
  <2>2. [i \in Item |-> Zero] \in [Item -> Node]
    BY <2>1
  <2> DEFINE z == [i \in Item |-> Zero]
  <2>3. heap = [live |-> {}, keys |-> 0, badfree |-> FALSE, f |-> z]
    BY DEF Init
  <2> HIDE DEF z
  <2> QED BY <2>2, <2>3 DEF Heap, z
<1>2. Owned(heap) = {} /\ Cardinality({}) = 0
  BY <1>1, FS_EmptySet DEF Owned
<1>3. Names(heap)
  BY <1>1, <1>2 DEF Names
<1>4. Shaped(heap, own, pos, pos, NULL)
  <2>1. Ranked(own, pos, pos)
    BY DEF Ranked, Ptr
  <2>2. Linked(heap, own, pos, pos) /\ Backed(heap, own, pos, pos, NULL) /\ Loose(heap, own)
    BY <1>1 DEF Linked, Backed, Loose, ListsOf
  <2> QED BY <1>1, <2>1, <2>2 DEF Shaped
<1>5. held \cup lost = Roots(heap, own) /\ held \cap lost = {} /\ lost = {}
  BY <1>1 DEF Roots, Init
<1> HIDE DEF own, pos
<1>6. \E o, p, l : Shaped(heap, o, p, l, NULL) /\ held \cup lost = Roots(heap, o)
  BY <1>4, <1>5
<1> QED BY <1>1, <1>3, <1>5, <1>6 DEF Owners, Sound

\* Items in no list exist.
LEMMA RootsLive ==
  ASSUME NEW h, NEW R, Sound(h, R) PROVE R \subseteq h.live /\ h.live \subseteq Item /\ h \in Heap
  BY HeapFields DEF Sound, Roots

\* A step that loses nothing
LEMMA StepKeeps ==
  ASSUME Owners, Kept(heap, heap'), Sound(heap', held' \cup lost'), lost' = lost, held' \cap lost = {}
  PROVE  Owners'
<1>1. lost \subseteq heap.live /\ lost \subseteq heap'.live
  BY RootsLive DEF Owners
<1>2. \A i \in lost : heap'.f[i].IsReference
  BY <1>1 DEF Owners, Kept
<1> QED BY <1>2 DEF Owners

\* The caller gives an item away, unless the call failed.
LEMMA GivesKeeps ==
  ASSUME Owners, NEW i \in held, NEW answer, Gives(i, answer), answer.r \in BOOLEAN,
         Sound(answer.h, IF answer.r THEN (held \cup lost) \ {i} ELSE held \cup lost),
         Kept(heap, answer.h)
  PROVE  Owners'
<1>1. heap' = answer.h /\ lost' = lost /\ held' = IF answer.r THEN held \ {i} ELSE held
  BY DEF Gives, Becomes
<1>2. held' \cup lost' = (IF answer.r THEN (held \cup lost) \ {i} ELSE held \cup lost)
  BY <1>1 DEF Owners
<1>3. held' \cap lost = {}
  BY <1>1 DEF Owners
<1> QED BY <1>1, <1>2, <1>3, StepKeeps

\* The caller gets an item, unless the call failed.
LEMMA GetsKeeps ==
  ASSUME Owners, NEW answer, Gets(answer), answer.r \notin held \cup lost,
         Sound(answer.h, (held \cup lost) \cup ({answer.r} \ {NULL})), Kept(heap, answer.h)
  PROVE  Owners'
<1>1. heap' = answer.h /\ lost' = lost /\ held' = held \cup ({answer.r} \ {NULL})
  BY DEF Gets, Becomes
<1>2. held' \cup lost' = (held \cup lost) \cup ({answer.r} \ {NULL})
  BY <1>1
<1>3. held' \cap lost = {}
  BY <1>1 DEF Owners
<1> QED BY <1>1, <1>2, <1>3, StepKeeps

\* A call that neither gives nor gets
LEMMA BecomesKeeps ==
  ASSUME Owners, NEW g, Becomes(g), UNCHANGED <<held, lost>>, Sound(g, held \cup lost), Kept(heap, g)
  PROVE  Owners'
<1>1. heap' = g /\ lost' = lost /\ held' = held
  BY DEF Becomes
<1> QED BY <1>1, StepKeeps DEF Owners

LEMMA CallocGives ==
  ASSUME NEW used PROVE calloc(used) = NULL \/ (calloc(used) \in Item /\ calloc(used) \notin used)
  BY DEF calloc

LEMMA FreshGives ==
  ASSUME Owners, NEW n \in Fresh PROVE n \in Ptr /\ n \notin heap.live
<1>1. heap.live \subseteq Item /\ NULL \notin Item
  BY RootsLive, NullIsNothing DEF Owners
<1>2. n = NULL \/ n = calloc(heap.live)
  BY DEF Fresh
<1> QED BY <1>1, <1>2, CallocGives DEF Ptr

\* Items as the allocator gives them, one after another: none is there twice.
LEMMA SetToSeqGives ==
  ASSUME NEW S, IsFiniteSet(S)
  PROVE  /\ SetToSeq(S) \in Seq(S)
         /\ \A j, k \in 1..Len(SetToSeq(S)) : SetToSeq(S)[j] = SetToSeq(S)[k] => j = k
<1> DEFINE N == Cardinality(S)
           s == SetToSeq(S)
<1>1. N \in Nat /\ ExistsBijection(1..N, S)
  BY FS_CardinalityType
<1>2. \E f \in [1..N -> S] : IsInjective(f)
  BY <1>1 DEF ExistsBijection, Bijection, Injection, IsInjective
<1>3. s = CHOOSE f \in [1..N -> S] : IsInjective(f)
  BY DEF SetToSeq
<1> HIDE DEF N, s
<1>4. s \in [1..N -> S] /\ IsInjective(s)
  BY <1>2, <1>3
<1>5. s \in Seq(S) /\ Len(s) = N
  BY <1>1, <1>4
<1> QED BY <1>4, <1>5 DEF IsInjective, s

\* The items of a row: pointers to items that do not exist yet, none twice.
RowOK(r) ==
  /\ r \in Seq(Ptr) /\ Len(r) # 0
  /\ \A k \in 1..Len(r) : r[k] \notin heap.live
  /\ \A j, k \in 1..Len(r) : r[j] = r[k] /\ r[j] # NULL => j = k

LEMMA RowsOK ==
  ASSUME Owners, NEW r \in Rows PROVE RowOK(r)
<1> DEFINE S == Item \ heap.live
           free == SetToSeq(S)
           row(n) == SubSeq(free, 1, n)
<1>1. heap.live \subseteq Item /\ NULL \notin Item
  BY RootsLive, NullIsNothing DEF Owners
<1>2. IsFiniteSet(S)
  BY ItemsAreFinite, FS_Difference
<1>3. free \in Seq(S) /\ \A j, k \in 1..Len(free) : free[j] = free[k] => j = k
  <2> HIDE DEF S
  <2> QED BY <1>2, SetToSeqGives
<1>4. /\ S \subseteq Ptr /\ NULL \in Ptr /\ NULL \notin S /\ NULL \notin heap.live
      /\ S \cap heap.live = {}
  BY <1>1 DEF Ptr
<1>5. \/ \E n \in 1..Len(free) : r = row(n)
      \/ \E n \in 0..Len(free) : r = Append(row(n), NULL)
  BY DEF Rows
<1> HIDE DEF S, free
<1>6. Len(free) \in Nat
  BY <1>3
<1>7. ASSUME NEW n \in 0..Len(free)
      PROVE  /\ row(n) \in Seq(S) /\ Len(row(n)) = n
             /\ \A k \in 1..n : row(n)[k] = free[k] /\ row(n)[k] \in S /\ k \in 1..Len(free)
  <2>1. \A k \in 1..n : k \in 1..Len(free)
    BY <1>6
  <2>2. \A k \in 1..Len(free) : free[k] \in S
    BY <1>3
  <2>3. row(n) \in Seq(S) /\ Len(row(n)) = n /\ \A k \in 1..n : row(n)[k] = free[k]
    <3>1. n \in Nat /\ n - 1 + 1 = n /\ (1 <= n \/ n = 0) /\ \A k \in 1..n : 1 + k - 1 = k
      BY <1>6
    <3> QED BY <3>1, <2>1, <2>2, SubSeqProperties
  <2> HIDE DEF row
  <2> QED BY <2>1, <2>2, <2>3
<1> HIDE DEF row
<1>8. ASSUME NEW n \in 1..Len(free), r = row(n) PROVE RowOK(r)
  <2>1. n \in 0..Len(free) /\ n \in Nat /\ n # 0
    BY <1>6
  <2>2. r \in Seq(S) /\ Len(r) = n /\ \A k \in 1..n : r[k] = free[k] /\ r[k] \in S
    BY <2>1, <1>7, <1>8
  <2>3. \A j, k \in 1..n : r[j] = r[k] => j = k
    BY <2>1, <1>3, <1>7, <1>8
  <2>4. r \in Seq(Ptr)
    BY <2>2, <1>4
  <2> QED BY <2>1, <2>2, <2>3, <2>4, <1>4 DEF RowOK
<1>9. ASSUME NEW n \in 0..Len(free), r = Append(row(n), NULL) PROVE RowOK(r)
  <2> DEFINE q == row(n)
  <2>1. /\ q \in Seq(S) /\ Len(q) = n /\ n \in Nat
        /\ \A k \in 1..n : q[k] = free[k] /\ q[k] \in S /\ k \in 1..Len(free)
    BY <1>6, <1>7
  <2>2. q \in Seq(Ptr)
    <3> HIDE DEF q
    <3> QED BY <2>1, <1>4
  <2> HIDE DEF q
  <2>3. r \in Seq(Ptr) /\ Len(r) = n + 1 /\ r[n + 1] = NULL /\ \A k \in 1..n : r[k] = q[k]
    BY <2>1, <2>2, <1>4, <1>9, AppendProperties DEF q
  <2>4. \A k \in 1..Len(r) : k \in 1..n \/ k = n + 1
    BY <2>1, <2>3
  <2>5. \A k \in 1..Len(r) : r[k] \notin heap.live /\ (r[k] # NULL => k \in 1..n)
    BY <2>1, <2>3, <2>4, <1>4
  <2>6. ASSUME NEW j \in 1..Len(r), NEW k \in 1..Len(r), r[j] = r[k], r[j] # NULL PROVE j = k
    <3>1. j \in 1..n /\ k \in 1..n
      BY <2>5, <2>6
    <3>2. free[j] = free[k] /\ j \in 1..Len(free) /\ k \in 1..Len(free)
      BY <3>1, <2>1, <2>3, <2>6
    <3> QED BY <3>2, <1>3
  <2>7. Len(r) # 0
    BY <2>1, <2>3
  <2> QED BY <2>3, <2>5, <2>6, <2>7 DEF RowOK
<1> QED BY <1>5, <1>8, <1>9

LEMMA RowsGrant ==
  ASSUME Owners, NEW r \in Rows PROVE Granted(heap, Head(r), Tail(r))
<1> DEFINE a == Head(r)
           s == Tail(r)
<1>1. /\ r \in Seq(Ptr) /\ Len(r) # 0 /\ \A k \in 1..Len(r) : r[k] \notin heap.live
      /\ \A j, k \in 1..Len(r) : r[j] = r[k] /\ r[j] # NULL => j = k
  BY RowsOK DEF RowOK
<1>2. Len(r) \in Nat /\ r # <<>>
  BY <1>1
<1>3. /\ a = r[1] /\ s \in Seq(Ptr) /\ Len(s) = Len(r) - 1
      /\ \A k \in 1..Len(s) : s[k] = r[k + 1]
  BY <1>1, <1>2, HeadTailProperties
<1>4. 1 \in 1..Len(r) /\ r[1] \in Ptr
  BY <1>1, <1>2
<1> HIDE DEF a, s
<1>5. \A k \in 1..Len(s) : k + 1 \in 1..Len(r) /\ k + 1 # 1
  BY <1>2, <1>3
<1>6. \A j, k \in 1..Len(s) : j + 1 = k + 1 => j = k
  OBVIOUS
<1>7. \A k \in 1..Len(s) : s[k] \notin heap.live /\ (s[k] = NULL \/ s[k] # a)
  BY <1>1, <1>3, <1>4, <1>5
<1>8. ASSUME NEW j \in 1..Len(s), NEW k \in 1..Len(s), s[j] = s[k], s[j] # NULL PROVE j = k
  <2>1. j + 1 = k + 1
    BY <1>1, <1>3, <1>5, <1>8
  <2> QED BY <2>1, <1>6
<1>9. Granted(heap, a, s)
  BY <1>1, <1>3, <1>4, <1>7, <1>8 DEF Granted
<1> QED BY <1>9 DEF a, s

-------------------------------------------------------------------------------
(* Every call keeps the invariant.                                             *)

LEMMA CreateKeeps ==
  ASSUME Owners, NEW n \in Fresh, Create(n) PROVE Owners'
<1> DEFINE answer == Answer(cJSON_New_Item(heap, n), n)
           R == held \cup lost
<1>1. Sound(heap, R) /\ R \subseteq heap.live /\ heap.live \subseteq Item
  BY RootsLive DEF Owners
<1>2. n \in Ptr /\ n \notin heap.live /\ NULL \notin Item
  BY FreshGives, NullIsNothing
<1>3. answer.h = cJSON_New_Item(heap, n) /\ answer.r = n
  BY DEF Answer
<1>4. Gets(answer)
  BY DEF Create
<1> HIDE DEF answer
<1>5. CASE n = NULL
  <2>1. answer.h = heap /\ R \cup ({n} \ {NULL}) = R /\ n \notin R
    BY <1>1, <1>2, <1>3, <1>5 DEF cJSON_New_Item
  <2> QED BY <2>1, <1>1, <1>3, <1>4, GetsKeeps DEF Kept
<1>6. CASE n # NULL
  <2>1. n \in Item /\ R \cup ({n} \ {NULL}) = R \cup {n} /\ n \notin R
    BY <1>1, <1>2, <1>6 DEF Ptr
  <2> HIDE DEF R
  <2>2. Sound(answer.h, R \cup {n}) /\ Kept(heap, answer.h)
    BY <2>1, <1>1, <1>2, <1>3, NewSound
  <2> QED BY <2>1, <2>2, <1>3, <1>4, GetsKeeps DEF R
<1> QED BY <1>5, <1>6

LEMMA CreateXArrayKeeps ==
  ASSUME Owners, NEW r \in Rows, CreateXArray(Head(r), Tail(r)) PROVE Owners'
<1> DEFINE answer == CreateArray(heap, Head(r), Tail(r))
           R == held \cup lost
<1>1. Sound(heap, R) /\ Granted(heap, Head(r), Tail(r))
  BY RowsGrant DEF Owners
<1>2. Sound(answer.h, R \cup ({answer.r} \ {NULL})) /\ Kept(heap, answer.h) /\ answer.r \notin R
  <2> HIDE DEF R
  <2> QED BY <1>1, CreateSound
<1>3. Gets(answer)
  BY DEF CreateXArray
<1> HIDE DEF answer
<1> QED BY <1>2, <1>3, GetsKeeps

LEMMA DeleteKeepsOwners ==
  ASSUME Owners, NEW i \in held, Delete(i) PROVE Owners'
<1> DEFINE R == held \cup lost
           g == cJSON_Delete(heap, i)
<1>1. Sound(heap, R) /\ i \in R
  BY DEF Owners
<1>2. Sound(g, R \ {i}) /\ Kept(heap, g)
  <2> HIDE DEF R
  <2> QED BY <1>1, DeleteSound
<1>3. heap' = g /\ held' = held \ {i} /\ lost' = lost
  BY DEF Delete, Becomes
<1> HIDE DEF g
<1>4. held' \cup lost' = R \ {i} /\ held' \cap lost = {}
  BY <1>3 DEF Owners
<1> QED BY <1>2, <1>3, <1>4, StepKeeps

LEMMA AddItemToArrayKeeps ==
  ASSUME Owners, NEW a \in Lists, NEW i \in held, AddItemToArray(a, i) PROVE Owners'
<1> DEFINE R == held \cup lost
           answer == add_item_to_array(heap, a, i)
<1>1. Sound(heap, R) /\ i \in R /\ a \in ListsOf(heap)
  BY DEF Owners, Lists, ListsOf
<1>2. Gives(i, answer)
  BY DEF AddItemToArray
<1>3. CASE a = i
  <2>1. answer = Answer(heap, FALSE)
    BY <1>3 DEF add_item_to_array
  <2> HIDE DEF answer
  <2>2. answer.h = heap /\ answer.r = FALSE /\ Kept(heap, heap)
    BY <2>1 DEF Answer, Kept
  <2> QED BY <2>2, <1>1, <1>2, GivesKeeps
<1>4. CASE a # i
  <2>1. answer.r = TRUE /\ Sound(answer.h, R \ {i}) /\ Kept(heap, answer.h)
    <3> HIDE DEF R
    <3> QED BY <1>1, <1>4, AddSound
  <2> HIDE DEF answer
  <2> QED BY <2>1, <1>2, GivesKeeps
<1> QED BY <1>3, <1>4

LEMMA AddItemToObjectKeeps ==
  ASSUME Owners, NEW a \in Lists, NEW i \in held, NEW name \in Name, NEW constant_key \in BOOLEAN,
         NEW copy \in BOOLEAN, AddItemToObject(a, name, i, constant_key, copy)
  PROVE  Owners'
<1> DEFINE R == held \cup lost
           answer == add_item_to_object(heap, a, name, i, constant_key, copy)
<1>1. Sound(heap, R) /\ i \in R /\ a \in ListsOf(heap) /\ name \in Key
  BY DEF Owners, Lists, ListsOf, Name
<1>2. Gives(i, answer)
  BY DEF AddItemToObject
<1>3. CASE a = i \/ (~constant_key /\ ~copy)
  <2>1. answer = Answer(heap, FALSE)
    BY <1>3, AddNamedFails
  <2> HIDE DEF answer
  <2>2. answer.h = heap /\ answer.r = FALSE /\ Kept(heap, heap)
    BY <2>1 DEF Answer, Kept
  <2> QED BY <2>2, <1>1, <1>2, GivesKeeps
<1>4. CASE a # i /\ (constant_key \/ copy)
  <2>1. Nameable(constant_key, copy) /\ a # i
    BY <1>4 DEF Nameable
  <2>2. answer.r = TRUE /\ Sound(answer.h, R \ {i}) /\ Kept(heap, answer.h)
    <3> HIDE DEF R
    <3> QED BY <1>1, <2>1, AddNamedSound
  <2> HIDE DEF answer
  <2> QED BY <2>2, <1>2, GivesKeeps
<1> QED BY <1>3, <1>4

LEMMA InsertKeeps ==
  ASSUME Owners, NEW a \in Lists, NEW i \in held, NEW which \in 0..Len(Children(heap, a)),
         InsertItemInArray(a, which, i)
  PROVE  Owners'
<1> DEFINE R == held \cup lost
           answer == cJSON_InsertItemInArray(heap, a, which, i)
<1>1. Sound(heap, R) /\ i \in R /\ a \in ListsOf(heap) /\ a # i
  BY DEF Owners, Lists, ListsOf, InsertItemInArray
<1>2. Gives(i, answer)
  BY DEF InsertItemInArray
<1>3. answer.r = TRUE /\ Sound(answer.h, R \ {i}) /\ Kept(heap, answer.h)
  <2> HIDE DEF R
  <2> QED BY <1>1, InsertSound
<1> HIDE DEF answer
<1> QED BY <1>2, <1>3, GivesKeeps

LEMMA ReplaceInArrayKeeps ==
  ASSUME Owners, NEW a \in Lists, NEW i \in held, NEW which \in 0..Len(Children(heap, a)),
         ReplaceItemInArray(a, which, i)
  PROVE  Owners'
<1> DEFINE R == held \cup lost
           hit == get_array_item(heap, a, which)
           answer == cJSON_ReplaceItemViaPointer(heap, a, hit, i)
<1>1. Sound(heap, R) /\ i \in R /\ a \in ListsOf(heap) /\ a # i
  BY DEF Owners, Lists, ListsOf, ReplaceItemInArray
<1>2. Gives(i, answer)
  BY DEF ReplaceItemInArray
<1> HIDE DEF R
<1>3. hit \in ToSet(Children(heap, a)) \cup {NULL}
  BY <1>1, IndexAnswers
<1> HIDE DEF hit
<1>4. /\ answer.r \in BOOLEAN /\ Sound(answer.h, IF answer.r THEN R \ {i} ELSE R)
      /\ Kept(heap, answer.h)
  BY <1>1, <1>3, ReplaceFound
<1> HIDE DEF answer
<1> QED BY <1>2, <1>4, GivesKeeps DEF R

LEMMA ReplaceInObjectKeeps ==
  ASSUME Owners, NEW a \in Lists, NEW i \in held, NEW name \in Name, NEW sensitive \in BOOLEAN,
         NEW copy \in BOOLEAN, ReplaceItemInObject(a, name, i, sensitive, copy)
  PROVE  Owners'
<1> DEFINE R == held \cup lost
           answer == replace_item_in_object(heap, a, name, i, sensitive, copy)
<1>1. Sound(heap, R) /\ i \in R /\ a \in ListsOf(heap) /\ a # i /\ name \in Key
  BY DEF Owners, Lists, ListsOf, ReplaceItemInObject, Name
<1>2. Gives(i, answer)
  BY DEF ReplaceItemInObject
<1>3. /\ answer.r \in BOOLEAN /\ Sound(answer.h, IF answer.r THEN R \ {i} ELSE R)
      /\ Kept(heap, answer.h)
  <2> HIDE DEF R
  <2> QED BY <1>1, ReplaceNamedSound
<1> HIDE DEF answer
<1> QED BY <1>2, <1>3, GivesKeeps

\* The four calls that detach
LEMMA DetachKeeps ==
  ASSUME Owners, NEW a \in Lists, NEW i, i \in ToSet(Children(heap, a)) \cup {NULL} \/ i \in held,
         Gets(cJSON_DetachItemViaPointer(heap, a, i))
  PROVE  Owners'
<1> DEFINE R == held \cup lost
           answer == cJSON_DetachItemViaPointer(heap, a, i)
<1>1. Sound(heap, R) /\ a \in ListsOf(heap) /\ i \in ToSet(Children(heap, a)) \cup {NULL} \cup R
  BY DEF Owners, Lists, ListsOf
<1>2. /\ Sound(answer.h, R \cup ({answer.r} \ {NULL})) /\ Kept(heap, answer.h)
      /\ answer.r \notin R
  <2> HIDE DEF R
  <2> QED BY <1>1, DetachFound
<1> HIDE DEF answer
<1>3. Gets(answer)
  BY DEF answer
<1> QED BY <1>2, <1>3, GetsKeeps

LEMMA DeleteFromArrayKeeps ==
  ASSUME Owners, NEW a \in Lists, NEW which \in 0..Len(Children(heap, a)),
         DeleteItemFromArray(a, which)
  PROVE  Owners'
<1> DEFINE R == held \cup lost
           hit == get_array_item(heap, a, which)
           detached == cJSON_DetachItemViaPointer(heap, a, hit)
           g == cJSON_Delete(detached.h, detached.r)
<1>1. Sound(heap, R) /\ a \in ListsOf(heap)
  BY DEF Owners, Lists, ListsOf
<1>2. Becomes(g) /\ UNCHANGED <<held, lost>>
  BY DEF DeleteItemFromArray
<1> HIDE DEF R
<1>3. hit \in ToSet(Children(heap, a)) \cup {NULL}
  BY <1>1, IndexAnswers
<1> HIDE DEF hit
<1>4. Sound(g, R) /\ Kept(heap, g)
  BY <1>1, <1>3, DeleteFoundSound
<1> HIDE DEF g
<1> QED BY <1>2, <1>4, BecomesKeeps DEF R

LEMMA AddXToObjectKeeps ==
  ASSUME Owners, NEW a \in Lists, NEW n \in Fresh, NEW name \in Name, NEW copy \in BOOLEAN,
         AddXToObject(a, name, n, copy)
  PROVE  Owners'
<1> DEFINE R == held \cup lost
           g == AddNewToObject(heap, a, name, n, copy).h
<1>1. Sound(heap, R) /\ a \in ListsOf(heap) /\ n \in Ptr /\ n \notin heap.live /\ name \in Key
  BY FreshGives DEF Owners, Lists, ListsOf, Name
<1>2. Becomes(g) /\ UNCHANGED <<held, lost>>
  BY DEF AddXToObject
<1>3. Sound(g, R) /\ Kept(heap, g)
  <2> HIDE DEF R
  <2> QED BY <1>1, AddNewSound
<1> HIDE DEF g
<1> QED BY <1>2, <1>3, BecomesKeeps

\* The two calls that add a reference: it is in the list, or it is lost, or
\* there was no memory for it.
LEMMA ReferenceKeeps ==
  ASSUME Owners, NEW a \in Lists, NEW i \in heap.live, NEW n \in Fresh, NEW answer,
         AddReference(i, n, answer),
         \/ answer = Answer(create_reference(heap, i, n), FALSE)
         \/ /\ n # NULL /\ answer.r = TRUE /\ Sound(answer.h, held \cup lost)
            /\ Kept(create_reference(heap, i, n), answer.h)
  PROVE  Owners'
<1> DEFINE R == held \cup lost
           made == create_reference(heap, i, n)
<1>1. /\ Sound(heap, R) /\ n \in Ptr /\ n \notin heap.live /\ R \subseteq heap.live
      /\ held \cap lost = {}
  BY FreshGives, RootsLive DEF Owners
<1>2. /\ heap' = answer.h /\ held' = held
      /\ lost' = IF answer.r \/ n = NULL THEN lost ELSE lost \cup {n}
  BY DEF AddReference, Becomes
<1>3. CASE n = NULL
  <2>1. answer = Answer(heap, FALSE)
    BY <1>3 DEF create_reference
  <2>2. heap' = heap /\ lost' = lost
    BY <2>1, <1>2, <1>3 DEF Answer
  <2> QED BY <2>2, <1>2 DEF Owners
<1>4. CASE n # NULL
  <2>1. n \in Item
    BY <1>1, <1>4 DEF Ptr
  <2>2. /\ Sound(made, R \cup {n}) /\ Kept(heap, made)
        /\ made.live = heap.live \cup {n} /\ made.f[n].IsReference
    <3> HIDE DEF R
    <3> QED BY <2>1, <1>1, ReferenceSound
  <2> HIDE DEF made
  <2>3. CASE answer.r = TRUE
    <3>1. Sound(answer.h, R) /\ Kept(made, answer.h)
      <4>1. answer # Answer(made, FALSE)
        BY <2>3 DEF Answer
      <4> QED BY <4>1 DEF made
    <3>2. heap' = answer.h /\ held' \cup lost' = R /\ lost' = lost /\ held' \cap lost = {}
      BY <1>1, <1>2, <2>3
    <3>3. Kept(heap, answer.h)
      BY <2>2, <3>1 DEF Kept
    <3> QED BY <3>1, <3>2, <3>3, StepKeeps
  <2>4. CASE answer.r # TRUE
    <3>1. answer = Answer(made, FALSE)
      BY <2>4 DEF made
    <3>2. heap' = made /\ held' = held /\ lost' = lost \cup {n}
      BY <3>1, <1>2, <1>4 DEF Answer
    <3>3. held' \cup lost' = R \cup {n} /\ held' \cap lost' = {}
      BY <3>2, <1>1
    <3>4. \A x \in lost' : heap'.f[x].IsReference
      <4>1. \A x \in lost : x \in heap.live /\ x \in made.live /\ heap.f[x].IsReference
        BY <1>1, <2>2 DEF Owners
      <4>2. \A x \in lost : made.f[x].IsReference
        BY <4>1, <2>2 DEF Kept
      <4> QED BY <4>2, <2>2, <3>2
    <3> QED BY <2>2, <3>2, <3>3, <3>4 DEF Owners
  <2> QED BY <2>3, <2>4
<1> QED BY <1>3, <1>4

\* add_item_to_object with a copy of the name
LEMMA AddCopySound ==
  ASSUME NEW h, NEW R, Sound(h, R), NEW a \in ListsOf(h), NEW n \in R, a # n, NEW name \in Key,
         NEW copy \in BOOLEAN, copy
  PROVE  LET answer == add_item_to_object(h, a, name, n, FALSE, copy)
         IN  answer.r = TRUE /\ Sound(answer.h, R \ {n}) /\ Kept(h, answer.h)
<1>1. ASSUME NEW k \in BOOLEAN
      PROVE  LET answer == add_item_to_object(h, a, name, n, k, copy)
             IN  answer.r = TRUE /\ Sound(answer.h, R \ {n}) /\ Kept(h, answer.h)
  <2>1. Nameable(k, copy)
    BY DEF Nameable
  <2> QED BY <2>1, AddNamedSound
<1> QED BY <1>1

LEMMA AddReferenceToArrayKeeps ==
  ASSUME Owners, NEW a \in Lists, NEW i \in heap.live, NEW n \in Fresh,
         AddItemReferenceToArray(a, i, n)
  PROVE  Owners'
<1> DEFINE R == held \cup lost
           made == create_reference(heap, i, n)
           answer == add_item_to_array(made, a, n)
<1>1. /\ Sound(heap, R) /\ n \in Ptr /\ n \notin heap.live /\ R \subseteq heap.live
      /\ a \in ListsOf(heap) /\ a \in heap.live
  BY FreshGives, RootsLive DEF Owners, Lists, ListsOf
<1>2. AddReference(i, n, answer)
  BY DEF AddItemReferenceToArray
<1>3. CASE n = NULL
  <2>1. answer = Answer(made, FALSE)
    BY <1>3 DEF add_item_to_array
  <2> HIDE DEF answer
  <2> QED BY <2>1, <1>2, ReferenceKeeps
<1>4. CASE n # NULL
  <2> DEFINE R2 == R \cup {n}
  <2>1. n \in Item /\ R2 \ {n} = R /\ n \in R2 /\ a # n
    BY <1>1, <1>4 DEF Ptr
  <2> HIDE DEF R
  <2>2. Sound(made, R2) /\ Kept(heap, made) /\ made.live = heap.live \cup {n}
    BY <2>1, <1>1, ReferenceSound
  <2> HIDE DEF made, R2
  <2>3. a \in ListsOf(made)
    BY <2>2, <1>1 DEF ListsOf, Kept
  <2>4. answer.r = TRUE /\ Sound(answer.h, R2 \ {n}) /\ Kept(made, answer.h)
    BY <2>1, <2>2, <2>3, AddSound
  <2> HIDE DEF answer
  <2> QED BY <2>1, <2>4, <1>2, <1>4, ReferenceKeeps DEF R, made
<1> QED BY <1>3, <1>4

LEMMA AddReferenceToObjectKeeps ==
  ASSUME Owners, NEW a \in Lists, NEW i \in heap.live, NEW n \in Fresh, NEW name \in Name,
         NEW copy \in BOOLEAN, AddItemReferenceToObject(a, name, i, n, copy)
  PROVE  Owners'
<1> DEFINE R == held \cup lost
           made == create_reference(heap, i, n)
           answer == add_item_to_object(made, a, name, n, FALSE, copy)
<1>1. /\ Sound(heap, R) /\ n \in Ptr /\ n \notin heap.live /\ R \subseteq heap.live
      /\ a \in ListsOf(heap) /\ a \in heap.live /\ name \in Key
  BY FreshGives, RootsLive DEF Owners, Lists, ListsOf, Name
<1>2. AddReference(i, n, answer)
  BY DEF AddItemReferenceToObject
<1>3. CASE n = NULL \/ ~copy
  <2>1. answer = Answer(made, FALSE)
    BY <1>3 DEF add_item_to_object
  <2> HIDE DEF answer
  <2> QED BY <2>1, <1>2, ReferenceKeeps
<1>4. CASE n # NULL /\ copy
  <2> DEFINE R2 == R \cup {n}
  <2>1. n \in Item /\ R2 \ {n} = R /\ n \in R2 /\ a # n
    BY <1>1, <1>4 DEF Ptr
  <2> HIDE DEF R
  <2>2. Sound(made, R2) /\ Kept(heap, made) /\ made.live = heap.live \cup {n}
    BY <2>1, <1>1, ReferenceSound
  <2> HIDE DEF made, R2
  <2>3. a \in ListsOf(made)
    BY <2>2, <1>1 DEF ListsOf, Kept
  <2>4. answer.r = TRUE /\ Sound(answer.h, R2 \ {n}) /\ Kept(made, answer.h)
    BY <2>1, <2>2, <2>3, <1>1, <1>4, AddCopySound
  <2> HIDE DEF answer
  <2> QED BY <2>1, <2>4, <1>2, <1>4, ReferenceKeeps DEF R, made
<1> QED BY <1>3, <1>4

LEMMA NextKeeps ==
  ASSUME Owners, Next PROVE Owners'
<1>1. ASSUME NEW n \in Fresh, Create(n) PROVE Owners'
  BY <1>1, CreateKeeps
<1>2. ASSUME NEW r \in Rows, CreateXArray(Head(r), Tail(r)) PROVE Owners'
  BY <1>2, CreateXArrayKeeps
<1>3. ASSUME NEW i \in held, Delete(i) PROVE Owners'
  BY <1>3, DeleteKeepsOwners
<1>4. ASSUME NEW a \in Lists PROVE
        /\ \A i \in held : AddItemToArray(a, i) => Owners'
        /\ \A i \in held : DetachStray(a, i) => Owners'
        /\ \A i \in held, name \in Name, constant_key, copy \in BOOLEAN :
             AddItemToObject(a, name, i, constant_key, copy) => Owners'
        /\ \A i \in heap.live, n \in Fresh : AddItemReferenceToArray(a, i, n) => Owners'
        /\ \A i \in heap.live, n \in Fresh, name \in Name, copy \in BOOLEAN :
             AddItemReferenceToObject(a, name, i, n, copy) => Owners'
        /\ \A n \in Fresh, name \in Name, copy \in BOOLEAN :
             AddXToObject(a, name, n, copy) => Owners'
  <2>1. ASSUME NEW i \in held, AddItemToArray(a, i) PROVE Owners'
    BY <2>1, AddItemToArrayKeeps
  <2>2. ASSUME NEW i \in held, DetachStray(a, i) PROVE Owners'
    BY <2>2, DetachKeeps DEF DetachStray
  <2>3. ASSUME NEW i \in held, NEW name \in Name, NEW constant_key \in BOOLEAN, NEW copy \in BOOLEAN,
               AddItemToObject(a, name, i, constant_key, copy)
        PROVE  Owners'
    BY <2>3, AddItemToObjectKeeps
  <2>4. ASSUME NEW i \in heap.live, NEW n \in Fresh, AddItemReferenceToArray(a, i, n) PROVE Owners'
    BY <2>4, AddReferenceToArrayKeeps
  <2>5. ASSUME NEW i \in heap.live, NEW n \in Fresh, NEW name \in Name, NEW copy \in BOOLEAN,
               AddItemReferenceToObject(a, name, i, n, copy)
        PROVE  Owners'
    BY <2>5, AddReferenceToObjectKeeps
  <2>6. ASSUME NEW n \in Fresh, NEW name \in Name, NEW copy \in BOOLEAN, AddXToObject(a, name, n, copy)
        PROVE  Owners'
    BY <2>6, AddXToObjectKeeps
  <2> QED BY <2>1, <2>2, <2>3, <2>4, <2>5, <2>6
<1>5. ASSUME NEW a \in Lists, NEW which \in 0..Len(Children(heap, a)) PROVE
        /\ DetachItemFromArray(a, which) => Owners'
        /\ DeleteItemFromArray(a, which) => Owners'
        /\ \A i \in held : InsertItemInArray(a, which, i) => Owners'
        /\ \A i \in held : ReplaceItemInArray(a, which, i) => Owners'
  <2>1. ASSUME DetachItemFromArray(a, which) PROVE Owners'
    <3> DEFINE hit == get_array_item(heap, a, which)
    <3>1. Gets(cJSON_DetachItemViaPointer(heap, a, hit))
      BY <2>1 DEF DetachItemFromArray
    <3>2. hit \in ToSet(Children(heap, a)) \cup {NULL}
      BY IndexAnswers DEF Owners, Lists, ListsOf
    <3> HIDE DEF hit
    <3> QED BY <3>1, <3>2, DetachKeeps
  <2>2. ASSUME DeleteItemFromArray(a, which) PROVE Owners'
    BY <2>2, DeleteFromArrayKeeps
  <2>3. ASSUME NEW i \in held, InsertItemInArray(a, which, i) PROVE Owners'
    BY <2>3, InsertKeeps
  <2>4. ASSUME NEW i \in held, ReplaceItemInArray(a, which, i) PROVE Owners'
    BY <2>4, ReplaceInArrayKeeps
  <2> QED BY <2>1, <2>2, <2>3, <2>4
<1>6. ASSUME NEW a \in Lists, NEW name \in Name, NEW sensitive \in BOOLEAN PROVE
        /\ DetachItemFromObject(a, name, sensitive) => Owners'
        /\ \A i \in held, copy \in BOOLEAN :
             ReplaceItemInObject(a, name, i, sensitive, copy) => Owners'
  <2>1. ASSUME DetachItemFromObject(a, name, sensitive) PROVE Owners'
    <3> DEFINE hit == get_object_item(heap, a, name, sensitive)
    <3>1. Gets(cJSON_DetachItemViaPointer(heap, a, hit))
      BY <2>1 DEF DetachItemFromObject
    <3>2. hit \in ToSet(Children(heap, a)) \cup {NULL}
      BY NameAnswers
    <3> HIDE DEF hit
    <3> QED BY <3>1, <3>2, DetachKeeps
  <2>2. ASSUME NEW i \in held, NEW copy \in BOOLEAN, ReplaceItemInObject(a, name, i, sensitive, copy)
        PROVE  Owners'
    BY <2>2, ReplaceInObjectKeeps
  <2> QED BY <2>1, <2>2
<1> QED BY <1>1, <1>2, <1>3, <1>4, <1>5, <1>6, Zenon DEF Next

\* Whatever is called in whatever order and whichever allocation fails: the heap
\* is sound, the items in no list are the caller's, or lost references.
THEOREM CJSONListInvariance == Spec => []Owners
<1>1. Init => Owners
  BY InitOwners
<1>2. Owners /\ [Next]_vars => Owners'
  <2> SUFFICES ASSUME Owners, [Next]_vars PROVE Owners'
    OBVIOUS
  <2>1. CASE Next
    BY <2>1, NextKeeps
  <2>2. CASE UNCHANGED vars
    <3>1. heap' = heap /\ held' = held /\ lost' = lost
      BY <2>2 DEF vars
    <3> QED BY <3>1 DEF Owners
  <2> QED BY <2>1, <2>2
<1> QED BY <1>1, <1>2, PTL DEF Spec

-------------------------------------------------------------------------------
(* What the invariant says of the lists, the owners and the memory             *)

LEMMA OwnersLink == Owners => WellLinked
<1> SUFFICES ASSUME Owners PROVE WellLinked
  OBVIOUS
<1>1. PICK own, pos, len : /\ Shaped(heap, own, pos, len, NULL)
                           /\ held \cup lost = Roots(heap, own)
  BY DEF Owners, Sound
<1>2. heap \in Heap /\ NULL \notin Item
  BY <1>1, NullIsNothing DEF Shaped
<1>3. ASSUME NEW a \in Lists, NEW k \in DOMAIN Children(heap, a)
      PROVE  LET c == Children(heap, a)
             IN  /\ heap.f[c[k]].prev = IF k = 1 THEN c[Len(c)] ELSE c[k - 1]
                 /\ heap.f[c[k]].next = IF k = Len(c) THEN NULL ELSE c[k + 1]
  <2> DEFINE c == Children(heap, a)
             l == len[a]
  <2>1. a \in ListsOf(heap) /\ a \in Item /\ a # NULL /\ l \in Nat
    BY <1>1, <1>2, HeapFields DEF Lists, ListsOf, Shaped, Ranked
  <2>2. /\ Len(c) = l /\ DOMAIN c = 1..l
        /\ \A j \in 1..l : c[j] \in Item /\ own[c[j]] = a /\ pos[c[j]] = j
    BY <2>1, <1>1, ChildrenSpelled DEF Shaped
  <2> HIDE DEF c, l
  <2>3. k \in 1..l /\ 1 \in 1..l /\ l \in 1..l
    BY <2>1, <2>2 DEF c
  <2>4. /\ \A x, y \in Item : own[x] # NULL /\ own[y] = own[x] /\ pos[y] = pos[x] + 1 =>
                                heap.f[y].prev = x /\ heap.f[x].next = y
        /\ \A x, y \in Item : own[x] = a /\ own[y] = a /\ pos[x] = 1 /\ pos[y] = l =>
                                heap.f[x].prev = y
        /\ \A x \in Item : own[x] = a /\ pos[x] = l => heap.f[x].next = NULL
    BY <1>1, <2>1 DEF Shaped, Linked, Backed, l
  <2>5. ASSUME k = 1 PROVE heap.f[c[k]].prev = c[l]
    BY <2>2, <2>3, <2>4, <2>5
  <2>6. ASSUME k # 1 PROVE heap.f[c[k]].prev = c[k - 1]
    <3>1. k - 1 \in 1..l /\ (k - 1) + 1 = k
      BY <2>1, <2>3, <2>6
    <3> QED BY <3>1, <2>1, <2>2, <2>3, <2>4
  <2>7. ASSUME k = l PROVE heap.f[c[k]].next = NULL
    BY <2>2, <2>3, <2>4, <2>7
  <2>8. ASSUME k # l PROVE heap.f[c[k]].next = c[k + 1]
    <3>1. k + 1 \in 1..l
      BY <2>1, <2>3, <2>8
    <3> QED BY <3>1, <2>1, <2>2, <2>3, <2>4
  <2>9. heap.f[c[k]].prev = IF k = 1 THEN c[Len(c)] ELSE c[k - 1]
    BY <2>2, <2>5, <2>6
  <2>10. heap.f[c[k]].next = IF k = Len(c) THEN NULL ELSE c[k + 1]
    BY <2>2, <2>7, <2>8
  <2> QED BY <2>9, <2>10 DEF c
<1>4. \A i \in held \cup lost : heap.f[i].next = NULL /\ heap.f[i].prev = NULL
  BY <1>1 DEF Shaped, Loose, Roots
<1> QED BY <1>3, <1>4 DEF WellLinked

LEMMA OwnersOwn == Owners => OneOwner
<1> SUFFICES ASSUME Owners PROVE OneOwner
  OBVIOUS
<1>1. PICK own, pos, len : /\ Shaped(heap, own, pos, len, NULL)
                           /\ held \cup lost = Roots(heap, own)
  BY DEF Owners, Sound
<1>2. heap \in Heap /\ heap.live \subseteq Item /\ NULL \notin Item
  BY <1>1, HeapFields DEF Shaped
<1>3. ASSUME NEW i \in heap.live
      PROVE  LET lists == {a \in Lists : i \in ToSet(Children(heap, a))}
             IN  IF i \in held \cup lost THEN lists = {} ELSE Cardinality(lists) = 1
  <2> DEFINE lists == {a \in Lists : i \in ToSet(Children(heap, a))}
  <2>1. ASSUME NEW a \in lists PROVE own[i] = a /\ a # NULL
    <3>1. a \in ListsOf(heap) /\ i \in ToSet(Children(heap, a)) /\ a # NULL
      BY <1>2 DEF Lists, ListsOf
    <3> QED BY <3>1, <1>1, SoundChildren DEF Owners
  <2>2. i \in held \cup lost <=> own[i] = NULL
    BY <1>1 DEF Roots
  <2>3. ASSUME own[i] # NULL PROVE own[i] \in lists
    <3> DEFINE a == own[i]
               c == Children(heap, a)
    <3>1. i \in Item /\ a \in ListsOf(heap) /\ pos[i] \in 1..len[a]
      BY <2>3, <1>1, <1>2 DEF Shaped, Linked, Ranked
    <3> HIDE DEF a
    <3>2. /\ DOMAIN c = 1..len[a] /\ c[pos[i]] \in Item
          /\ own[c[pos[i]]] = a /\ pos[c[pos[i]]] = pos[i]
      BY <3>1, <1>1, ChildrenSpelled DEF Shaped
    <3>3. c[pos[i]] = i
      <4> HIDE DEF c
      <4> QED BY <3>1, <3>2, <2>3, <1>1 DEF Shaped, Ranked, a
    <3>4. i \in ToSet(c)
      <4> HIDE DEF c
      <4> QED BY <3>1, <3>2, <3>3 DEF ToSet
    <3> QED BY <3>1, <3>4 DEF Lists, ListsOf, a
  <2> HIDE DEF lists
  <2>4. CASE own[i] = NULL
    <3>1. lists = {}
      BY <2>1, <2>4
    <3> QED BY <3>1, <2>2, <2>4 DEF lists
  <2>5. CASE own[i] # NULL
    <3>1. lists = {own[i]}
      BY <2>1, <2>3, <2>5
    <3>2. Cardinality(lists) = 1
      BY <3>1, FS_Singleton
    <3> QED BY <3>2, <2>2, <2>5 DEF lists
  <2> QED BY <2>4, <2>5
<1>4. held \cup lost \subseteq heap.live /\ held \cap lost = {} /\ \A i \in lost : heap.f[i].IsReference
  BY RootsLive DEF Owners
<1> QED BY <1>3, <1>4 DEF OneOwner

LEMMA OwnersRemember == Owners => MemoryInStep
<1> SUFFICES ASSUME Owners PROVE MemoryInStep
  OBVIOUS
<1>1. PICK own, pos, len : Shaped(heap, own, pos, len, NULL)
  BY DEF Owners, Sound
<1>2. Names(heap) /\ heap.live \subseteq Item
  BY RootsLive DEF Owners, Sound
<1>3. ~heap.badfree
      /\ heap.keys = Cardinality({i \in heap.live : heap.f[i].string # NULL /\ heap.f[i].copied})
  BY <1>2 DEF Names, Owned
<1>4. \A x \in Item : own[x] # NULL => x \in heap.live
  BY <1>1 DEF Shaped, Linked
<1>5. ASSUME NEW i \in heap.live
      PROVE  {heap.f[i].next, heap.f[i].prev} \subseteq heap.live \cup {NULL}
  <2>1. heap.f[i].next # NULL => heap.f[i].next \in heap.live
    BY <1>1, <1>4, PointersLead
  <2>2. heap.f[i].prev # NULL => heap.f[i].prev \in heap.live
    <3>1. own[i] = NULL => heap.f[i].prev = NULL
      BY <1>1 DEF Shaped, Loose
    <3> QED BY <3>1, <1>1, <1>4, PointersLead
  <2> QED BY <2>1, <2>2
<1>6. ASSUME NEW a \in Lists PROVE heap.f[a].child \in heap.live \cup {NULL}
  <2>1. a \in ListsOf(heap) /\ a \in Item /\ NULL \notin Item
    BY <1>2, NullIsNothing DEF Lists, ListsOf
  <2> QED BY <2>1, <1>1, <1>4, PointersLead
<1> QED BY <1>3, <1>5, <1>6 DEF MemoryInStep

\* The lists can be walked both ways, and every item is held, lost, or the child
\* of exactly one list, after every call and whichever allocation failed in it.
THEOREM CJSONListWellFormed == Spec => []WellFormed
<1>1. Owners => WellFormed
  BY OwnersLink, OwnersOwn DEF WellFormed
<1> QED BY <1>1, CJSONListInvariance, PTL

\* The siblings of a live item and the first child of an owner are live, the keys
\* are counted right, and nothing is freed that is not allocated, by who does not
\* own it, or twice. The child pointer of a reference is left out.
THEOREM CJSONListMemory == Spec => []MemoryInStep
<1> QED BY OwnersRemember, CJSONListInvariance, PTL

-------------------------------------------------------------------------------
(* Trees of items: what is below an item, and that nothing is below itself     *)

\* Every item of K has its children in K.
TreeMap(K) == /\ DOMAIN K \subseteq Item
              /\ \A a \in DOMAIN K : K[a] \in Seq(Item) /\ ToSet(K[a]) \subseteq DOMAIN K

\* Whoever goes from an item to the one it hangs from, and on, comes to an end.
Hangs(K) == \A S \in SUBSET DOMAIN K :
              S # {} => \E x \in S : \A a \in S : x \notin ToSet(K[a])

\* T holds the children of its items.
KidsStay(K, T) == \A x \in T : ToSet(K[x]) \subseteq T

\* f[n] is reached from i in n steps; f[N] is closed under the step, and the least
\* such set.
Reached(f, S, N, i, near) ==
  /\ f \in [0..N -> SUBSET S] /\ f[0] = {i}
  /\ \A n \in 1..N : f[n] = f[n-1] \cup UNION {near[x] : x \in f[n-1]}
  /\ i \in f[N] /\ \A x \in f[N] : near[x] \subseteq f[N]
  /\ \A T : i \in T /\ (\A x \in T \cap S : near[x] \subseteq T) => f[N] \subseteq T

\* The union of the steps of a search of S reaches a fixed point in as many steps as S has elements.
LEMMA Levels ==
  ASSUME NEW S, IsFiniteSet(S), NEW N \in Nat, Cardinality(S) <= N, NEW i \in S,
         NEW near \in [S -> SUBSET S]
  PROVE  \E f : Reached(f, S, N, i, near)
<1> DEFINE more(T) == T \cup UNION {near[x] : x \in T}
           step == [T \in SUBSET S |-> more(T)]
<1>1. ASSUME NEW T, NEW y PROVE y \in more(T) <=> y \in T \/ \E x \in T : y \in near[x]
  BY Zenon
<1>2. \A T \in SUBSET S : more(T) \in SUBSET S
  <2> HIDE DEF more
  <2> QED BY <1>1
<1>3. step \in [SUBSET S -> SUBSET S] /\ {i} \in SUBSET S
  <2> HIDE DEF more
  <2> QED BY <1>2
<1>4. PICK f \in [0..N -> SUBSET S] : f[0] = {i} /\ \A n \in 1..N : f[n] = step[f[n-1]]
  <2> HIDE DEF step, more
  <2>1. Iterated(SUBSET S, {i}, step, N)
    BY <1>3, Iterates, Zenon
  <2> QED BY <2>1 DEF Iterated
<1>5. ASSUME NEW n \in 1..N
      PROVE  n-1 \in 0..N /\ n \in 0..N /\ f[n-1] \in SUBSET S /\ f[n] = more(f[n-1])
  <2> HIDE DEF more
  <2>1. n-1 \in 0..N /\ n \in 0..N
    OBVIOUS
  <2>2. f[n-1] \in SUBSET S /\ f[n] = step[f[n-1]]
    BY <2>1, <1>4
  <2> QED BY <2>1, <2>2
<1> HIDE DEF step
<1>6. \A n \in 1..N : f[n-1] \subseteq f[n]
  <2> HIDE DEF more
  <2> QED BY <1>1, <1>5
<1> HIDE DEF more
<1>7. N # 0
  <2>1. Cardinality({i}) = 1 /\ {i} \subseteq S
    BY FS_Singleton
  <2>2. Cardinality({i}) <= Cardinality(S) /\ Cardinality(S) \in Nat
    BY <2>1, FS_Subset, FS_CardinalityType
  <2> QED BY <2>1, <2>2
<1>8. PICK m \in 1..N : f[m] = f[m-1]
  <2> DEFINE small == {n \in 0..N : Cardinality(f[n]) < n + 1}
  <2>0. ASSUME NEW n \in 0..N
        PROVE  IsFiniteSet(f[n]) /\ Cardinality(f[n]) \in Nat /\ Cardinality(f[n]) <= N
    <3>1. f[n] \in SUBSET S /\ Cardinality(S) \in Nat
      BY FS_CardinalityType
    <3>2. IsFiniteSet(f[n]) /\ Cardinality(f[n]) <= Cardinality(S)
      BY <3>1, FS_Subset
    <3>3. Cardinality(f[n]) \in Nat
      BY <3>2, FS_CardinalityType
    <3> QED BY <3>1, <3>2, <3>3
  <2>1. small # {}
    <3>1. N \in 0..N /\ Cardinality(f[N]) < N + 1
      BY <2>0
    <3> QED BY <3>1
  <2>2. PICK m \in small : \A n \in small : m <= n
    <3>1. small \subseteq Nat
      OBVIOUS
    <3> HIDE DEF small
    <3> QED BY <2>1, <3>1, MinExists
  <2>3. m \in 0..N /\ Cardinality(f[m]) < m + 1
    OBVIOUS
  <2>4. m # 0
    <3>1. Cardinality({i}) = 1
      BY FS_Singleton
    <3>2. CASE m = 0
      BY <3>1, <3>2, <2>3, <1>4
    <3> QED BY <3>2
  <2>5. m \in 1..N /\ m-1 \in 0..N /\ ~(m <= m-1)
    BY <2>3, <2>4
  <2>6. ~(Cardinality(f[m-1]) < (m - 1) + 1)
    BY <2>2, <2>5
  <2>7. f[m-1] \subseteq f[m] /\ IsFiniteSet(f[m])
    BY <2>0, <2>3, <2>5, <1>6
  <2>8. Cardinality(f[m-1]) <= Cardinality(f[m])
    BY <2>7, FS_Subset
  <2>9. Cardinality(f[m-1]) \in Nat /\ Cardinality(f[m]) \in Nat
    BY <2>0, <2>5
  <2>10. Cardinality(f[m]) = Cardinality(f[m-1])
    BY <2>3, <2>5, <2>6, <2>8, <2>9
  <2>11. f[m] = f[m-1]
    BY <2>7, <2>10, FS_Subset
  <2> QED BY <2>5, <2>11
<1>9. f[N] = f[m]
  <2> DEFINE moved == {n \in m..N : f[n] # f[m]}
  <2>1. SUFFICES ASSUME moved # {} PROVE FALSE
    OBVIOUS
  <2>2. PICK n \in moved : \A j \in moved : n <= j
    <3>1. moved \subseteq Nat
      OBVIOUS
    <3> HIDE DEF moved
    <3> QED BY <2>1, <3>1, MinExists
  <2>3. n \in m..N /\ f[n] # f[m] /\ n # m
    OBVIOUS
  <2>4. n \in 1..N /\ n-1 \in m..N /\ ~(n <= n-1)
    BY <2>3
  <2>5. f[n-1] = f[m]
    BY <2>2, <2>4
  <2>6. f[n] = more(f[n-1]) /\ f[m] = more(f[m-1])
    BY <2>4, <1>5
  <2> QED BY <2>3, <2>5, <2>6, <1>8
<1>10. more(f[N]) = f[N] /\ f[N] \in SUBSET S
  BY <1>5, <1>8, <1>9
<1>11. ASSUME NEW x \in f[N] PROVE near[x] \subseteq f[N]
  BY <1>1, <1>10
<1>12. ASSUME NEW T, i \in T, \A x \in T \cap S : near[x] \subseteq T PROVE f[N] \subseteq T
  <2> DEFINE out == {k \in 0..N : ~(f[k] \subseteq T)}
  <2>1. SUFFICES ASSUME out # {} PROVE FALSE
    OBVIOUS
  <2>2. PICK k \in out : \A j \in out : k <= j
    <3>1. out \subseteq Nat
      OBVIOUS
    <3> HIDE DEF out
    <3> QED BY <2>1, <3>1, MinExists
  <2>3. k \in 1..N /\ k-1 \in 0..N /\ ~(k <= k-1)
    BY <2>2, <1>4, <1>12
  <2>4. f[k-1] \subseteq T /\ f[k-1] \subseteq S
    BY <2>2, <2>3
  <2>5. f[k] \subseteq T
    BY <2>3, <2>4, <1>1, <1>5, <1>12
  <2> QED BY <2>2, <2>5
<1>13. \A n \in 0..N : i \in f[n]
  <2> DEFINE out == {n \in 0..N : i \notin f[n]}
  <2>1. SUFFICES ASSUME out # {} PROVE FALSE
    OBVIOUS
  <2>2. PICK k \in out : \A j \in out : k <= j
    <3>1. out \subseteq Nat
      OBVIOUS
    <3> HIDE DEF out
    <3> QED BY <2>1, <3>1, MinExists
  <2>3. k \in 1..N /\ k-1 \in 0..N /\ ~(k <= k-1)
    BY <2>2, <1>4
  <2>4. i \in f[k-1]
    BY <2>2, <2>3
  <2> QED BY <2>2, <2>3, <2>4, <1>6
<1>14. \A n \in 1..N : f[n] = f[n-1] \cup UNION {near[x] : x \in f[n-1]}
  BY <1>5 DEF more
<1> QED BY <1>4, <1>11, <1>12, <1>13, <1>14 DEF Reached

\* What hangs below i in K, i included: Below of CJSONTree
BelowIn(K, i) ==
  LET level[n \in 0..Cardinality(Item)] ==
        IF n = 0 THEN {i}
        ELSE level[n - 1] \cup UNION {ToSet(K[x]) : x \in level[n - 1]}
  IN  level[Cardinality(Item)]

\* What is below i is the least set with i that contains the children of its members.
LEMMA BelowLeast ==
  ASSUME NEW K, TreeMap(K), NEW i \in DOMAIN K
  PROVE  /\ BelowIn(K, i) \subseteq DOMAIN K /\ i \in BelowIn(K, i)
         /\ KidsStay(K, BelowIn(K, i))
         /\ \A T \in SUBSET DOMAIN K : i \in T /\ KidsStay(K, T) => BelowIn(K, i) \subseteq T
<1> DEFINE S == DOMAIN K
           N == Cardinality(Item)
           near == [x \in S |-> ToSet(K[x])]
           body(g, n) == IF n = 0 THEN {i}
                         ELSE g[n-1] \cup UNION {ToSet(K[x]) : x \in g[n-1]}
           lvl == CHOOSE g : g = [n \in 0..N |-> body(g, n)]
<1>1. /\ IsFiniteSet(S) /\ N \in Nat /\ Cardinality(S) <= N
      /\ near \in [S -> SUBSET S] /\ i \in S
  <2>1. near \in [S -> SUBSET S]
    BY DEF TreeMap
  <2> HIDE DEF near
  <2>2. S \subseteq Item
    BY DEF TreeMap
  <2> QED BY <2>1, <2>2, ItemsAreFinite, FS_Subset, FS_CardinalityType
<1>2a. PICK f : Reached(f, S, N, i, near)
  <2> HIDE DEF near, N, S
  <2> QED BY <1>1, Levels
<1>2. /\ f \in [0..N -> SUBSET S] /\ f[0] = {i}
      /\ \A n \in 1..N : f[n] = f[n-1] \cup UNION {near[x] : x \in f[n-1]}
      /\ i \in f[N] /\ \A x \in f[N] : near[x] \subseteq f[N]
      /\ \A T : i \in T /\ (\A x \in T \cap S : near[x] \subseteq T) => f[N] \subseteq T
  BY <1>2a DEF Reached
<1>3. \A x \in S : near[x] = ToSet(K[x])
  OBVIOUS
<1> HIDE DEF near, N
<1>4. ASSUME NEW n \in 0..N PROVE f[n] = body(f, n)
  <2>1. CASE n = 0
    BY <2>1, <1>2
  <2>2. CASE n # 0
    <3>1. n \in 1..N /\ n-1 \in 0..N
      BY <2>2, <1>1
    <3>2. f[n-1] \subseteq S
      BY <3>1, <1>2
    <3>3. UNION {near[x] : x \in f[n-1]} = UNION {ToSet(K[x]) : x \in f[n-1]}
      <4>1. \A x \in f[n-1] : near[x] = ToSet(K[x])
        BY <3>2, <1>3
      <4>2. {near[x] : x \in f[n-1]} = {ToSet(K[x]) : x \in f[n-1]}
        BY <4>1
      <4> QED BY <4>2
    <3> QED BY <3>1, <3>3, <2>2, <1>2
  <2> QED BY <2>1, <2>2
<1>5. f = [n \in 0..N |-> body(f, n)]
  <2> HIDE DEF body
  <2> QED BY <1>2, <1>4
<1>6. lvl = [n \in 0..N |-> body(lvl, n)]
  <2> HIDE DEF body
  <2> QED BY <1>5
<1>7. BelowIn(K, i) = lvl[N]
  BY Zenon DEF BelowIn, N
<1> HIDE DEF lvl
<1>8. \A n \in 0..N : lvl[n] = body(lvl, n)
  <2> HIDE DEF body
  <2> QED BY <1>6
<1>9. lvl[N] = f[N]
  <2> DEFINE other == {n \in 0..N : lvl[n] # f[n]}
  <2>1. SUFFICES ASSUME other # {} PROVE FALSE
    BY <1>1
  <2>2. PICK k \in other : \A j \in other : k <= j
    <3>1. other \subseteq Nat
      OBVIOUS
    <3> HIDE DEF other
    <3> QED BY <2>1, <3>1, MinExists
  <2>3. k \in 0..N /\ lvl[k] # f[k]
    OBVIOUS
  <2>4. k # 0
    BY <2>3, <1>4, <1>8
  <2>5. k-1 \in 0..N /\ ~(k <= k-1)
    BY <2>3, <2>4, <1>1
  <2>6. lvl[k-1] = f[k-1]
    BY <2>2, <2>5
  <2> HIDE DEF other
  <2>7. body(lvl, k) = body(f, k)
    BY <2>4, <2>6
  <2> HIDE DEF body
  <2> QED BY <2>3, <2>7, <1>4, <1>8
<1>10. f[N] \subseteq S
  BY <1>1, <1>2
<1>11. \A x \in f[N] : ToSet(K[x]) \subseteq f[N]
  BY <1>2, <1>3, <1>10
<1>12. ASSUME NEW T \in SUBSET S, i \in T, KidsStay(K, T) PROVE f[N] \subseteq T
  <2>1. \A x \in T \cap S : near[x] \subseteq T
    BY <1>3, <1>12 DEF KidsStay
  <2> QED BY <2>1, <1>2, <1>12
<1> QED BY <1>2, <1>7, <1>9, <1>10, <1>11, <1>12 DEF KidsStay

\* An item is not below its own children.
LEMMA HangsAbove ==
  ASSUME NEW K, TreeMap(K), Hangs(K), NEW a \in DOMAIN K, NEW i \in ToSet(K[a])
  PROVE  a \notin BelowIn(K, i)
<1> DEFINE B == BelowIn(K, i)
           T == {x \in B : x = i \/ \E b \in B : x \in ToSet(K[b])}
<1>1. i \in DOMAIN K
  BY DEF TreeMap
<1>2. /\ B \subseteq DOMAIN K /\ i \in B /\ KidsStay(K, B)
      /\ \A U \in SUBSET DOMAIN K : i \in U /\ KidsStay(K, U) => B \subseteq U
  BY <1>1, BelowLeast
<1> HIDE DEF B
<1>3. KidsStay(K, T) /\ T \in SUBSET DOMAIN K /\ i \in T
  BY <1>2 DEF KidsStay
<1>4. B \subseteq T
  BY <1>2, <1>3
<1>5. ASSUME a \in B PROVE FALSE
  <2>1. \A x \in B : \E b \in B : x \in ToSet(K[b])
    BY <1>4, <1>5
  <2>2. B \in SUBSET DOMAIN K /\ B # {}
    BY <1>2
  <2> QED BY <2>1, <2>2 DEF Hangs
<1> QED BY <1>5 DEF B

\* What is below i does not depend on the children of an item that is not.
LEMMA BelowSame ==
  ASSUME NEW K, TreeMap(K), NEW K2, TreeMap(K2), DOMAIN K2 = DOMAIN K, NEW a,
         \A b \in DOMAIN K : b # a => K2[b] = K[b],
         NEW i \in DOMAIN K, a \notin BelowIn(K, i)
  PROVE  BelowIn(K2, i) = BelowIn(K, i)
<1> DEFINE B == BelowIn(K, i)
           B2 == BelowIn(K2, i)
<1>1. /\ B \subseteq DOMAIN K /\ i \in B /\ KidsStay(K, B)
      /\ \A U \in SUBSET DOMAIN K : i \in U /\ KidsStay(K, U) => B \subseteq U
  BY BelowLeast
<1>2. /\ B2 \subseteq DOMAIN K /\ i \in B2 /\ KidsStay(K2, B2)
      /\ \A U \in SUBSET DOMAIN K : i \in U /\ KidsStay(K2, U) => B2 \subseteq U
  BY BelowLeast
<1>3. a \notin B
  OBVIOUS
<1> HIDE DEF B, B2
<1>4. KidsStay(K2, B)
  BY <1>1, <1>3 DEF KidsStay
<1>5. B2 \subseteq B
  BY <1>1, <1>2, <1>4
<1>6. KidsStay(K, B2)
  BY <1>2, <1>3, <1>5 DEF KidsStay
<1>7. B \subseteq B2
  BY <1>1, <1>2, <1>6
<1> QED BY <1>5, <1>7 DEF B, B2

\* A tree to whose item a is added a child i that a is not below of
LEMMA HangsGrown ==
  ASSUME NEW K, TreeMap(K), Hangs(K), NEW K2, DOMAIN K2 \subseteq DOMAIN K,
         NEW a, NEW i \in DOMAIN K, a \notin BelowIn(K, i),
         \A b \in DOMAIN K2 : \A x \in ToSet(K2[b]) : x \in ToSet(K[b]) \/ (b = a /\ x = i)
  PROVE  Hangs(K2)
<1> DEFINE B == BelowIn(K, i)
<1>1. B \subseteq DOMAIN K /\ i \in B /\ KidsStay(K, B) /\ a \notin B
  BY BelowLeast
<1> HIDE DEF B
<1>2. SUFFICES ASSUME NEW S \in SUBSET DOMAIN K2, S # {},
                      \A x \in S : \E b \in S : x \in ToSet(K2[b])
               PROVE  FALSE
  BY DEF Hangs
<1>3. ASSUME a \in S PROVE FALSE
  <2> DEFINE T == S \ B
  <2>1. T \in SUBSET DOMAIN K /\ a \in T
    BY <1>1, <1>2, <1>3
  <2>2. ASSUME NEW x \in T PROVE \E b \in T : x \in ToSet(K[b])
    <3>1. PICK b \in S : x \in ToSet(K2[b])
      BY <1>2
    <3>2. x \in ToSet(K[b])
      BY <3>1, <1>1, <1>2
    <3>3. b \notin B
      BY <3>2, <1>1 DEF KidsStay
    <3> QED BY <3>2, <3>3
  <2> HIDE DEF T
  <2> QED BY <2>1, <2>2 DEF Hangs
<1>4. ASSUME a \notin S PROVE FALSE
  <2>1. S \in SUBSET DOMAIN K
    BY <1>2
  <2>2. \A x \in S : \E b \in S : x \in ToSet(K[b])
    BY <1>2, <1>4
  <2> QED BY <2>1, <2>2, <1>2 DEF Hangs
<1> QED BY <1>3, <1>4

\* A tree from which something was taken
LEMMA HangsLess ==
  ASSUME NEW K, Hangs(K), NEW K2, DOMAIN K2 \subseteq DOMAIN K,
         \A b \in DOMAIN K2 : ToSet(K2[b]) \subseteq ToSet(K[b])
  PROVE  Hangs(K2)
<1> SUFFICES ASSUME NEW S \in SUBSET DOMAIN K2, S # {},
                    \A x \in S : \E b \in S : x \in ToSet(K2[b])
             PROVE  FALSE
  BY DEF Hangs
<1>1. S \in SUBSET DOMAIN K /\ \A x \in S : \E b \in S : x \in ToSet(K[b])
  OBVIOUS
<1> QED BY <1>1 DEF Hangs

\* A tree beside which there are new items, the children of one of them
LEMMA HangsNew ==
  ASSUME NEW K, TreeMap(K), Hangs(K), NEW K2, DOMAIN K \subseteq DOMAIN K2, NEW i,
         \A b \in DOMAIN K : K2[b] = K[b],
         \A b \in DOMAIN K2 \ DOMAIN K : b # i => ToSet(K2[b]) = {},
         i \notin DOMAIN K, i \notin ToSet(K2[i]), ToSet(K2[i]) \cap DOMAIN K = {}
  PROVE  Hangs(K2)
<1> SUFFICES ASSUME NEW S \in SUBSET DOMAIN K2, S # {},
                    \A x \in S : \E b \in S : x \in ToSet(K2[b])
             PROVE  FALSE
  BY DEF Hangs
<1> DEFINE T == S \cap DOMAIN K
<1>1. CASE T # {}
  <2>1. T \in SUBSET DOMAIN K
    OBVIOUS
  <2>2. ASSUME NEW x \in T PROVE \E b \in T : x \in ToSet(K[b])
    <3>1. PICK b \in S : x \in ToSet(K2[b])
      OBVIOUS
    <3>2. b \in DOMAIN K
      BY <3>1
    <3> QED BY <3>1, <3>2
  <2> HIDE DEF T
  <2> QED BY <1>1, <2>1, <2>2 DEF Hangs
<1>2. CASE T = {}
  <2>1. ASSUME NEW x \in S PROVE i \in S /\ x \in ToSet(K2[i])
    <3>1. PICK b \in S : x \in ToSet(K2[b])
      OBVIOUS
    <3>2. b \in DOMAIN K2 \ DOMAIN K
      BY <1>2
    <3>3. b = i
      BY <3>1, <3>2
    <3> QED BY <3>1, <3>3
  <2> QED BY <2>1
<1> QED BY <1>1, <1>2

-------------------------------------------------------------------------------
(* The tree of a heap, and what the calls make of it                           *)

\* The tree of a heap: the children each item owns. A reference owns none.
KidsOf(h) == [i \in h.live |-> IF h.f[i].IsReference THEN <<>> ELSE Children(h, i)]

\* The children of an item are those it owns, in the order of their places.
LEMMA KidsSpelled ==
  ASSUME NEW h, NEW own, NEW pos, NEW len, NEW e, Shaped(h, own, pos, len, e)
  PROVE  /\ DOMAIN KidsOf(h) = h.live /\ TreeMap(KidsOf(h))
         /\ \A a \in h.live : a \notin ListsOf(h) => KidsOf(h)[a] = <<>>
         /\ \A a \in ListsOf(h) : /\ KidsOf(h)[a] = Children(h, a) /\ Len(KidsOf(h)[a]) = len[a]
                                  /\ \A k \in 1..len[a] : /\ KidsOf(h)[a][k] \in Item
                                                          /\ own[KidsOf(h)[a][k]] = a
                                                          /\ pos[KidsOf(h)[a][k]] = k
         /\ \A a \in h.live : \A x : x \in ToSet(KidsOf(h)[a]) <=> x \in Item /\ own[x] = a
         /\ \A x \in Item : own[x] # NULL => /\ own[x] \in ListsOf(h)
                                             /\ pos[x] \in 1..Len(KidsOf(h)[own[x]])
                                             /\ KidsOf(h)[own[x]][pos[x]] = x
<1> DEFINE K == KidsOf(h)
<1>1. /\ h \in Heap /\ h.live \subseteq Item /\ NULL \notin Item
      /\ Ranked(own, pos, len) /\ Linked(h, own, pos, len)
  BY HeapFields DEF Shaped
<1>2. DOMAIN K = h.live /\ \A a \in h.live : a \notin ListsOf(h) => K[a] = <<>>
  BY DEF KidsOf, ListsOf
<1>3. \A a \in ListsOf(h) : a \in h.live /\ K[a] = Children(h, a)
  BY DEF KidsOf, ListsOf
<1> HIDE DEF K
<1>4. ASSUME NEW a \in ListsOf(h)
      PROVE  /\ K[a] \in Seq(Item) /\ Len(K[a]) = len[a] /\ DOMAIN K[a] = 1..len[a]
             /\ \A k \in 1..len[a] : K[a][k] \in Item /\ own[K[a][k]] = a /\ pos[K[a][k]] = k
  BY <1>1, <1>3, ChildrenSpelled
<1>5. \A x \in Item : own[x] # NULL => own[x] \in ListsOf(h) /\ pos[x] \in 1..len[own[x]] /\ x \in h.live
  BY <1>1 DEF Linked, Ranked
<1>6. ASSUME NEW x \in Item, own[x] # NULL
      PROVE  pos[x] \in 1..Len(K[own[x]]) /\ K[own[x]][pos[x]] = x
  <2> DEFINE y == K[own[x]][pos[x]]
  <2>1. own[x] \in ListsOf(h) /\ pos[x] \in 1..len[own[x]]
    BY <1>5, <1>6
  <2>2. y \in Item /\ own[y] = own[x] /\ pos[y] = pos[x]
    BY <2>1, <1>4
  <2>3. y = x
    BY <2>2, <1>6, <1>1 DEF Ranked
  <2> QED BY <2>1, <2>3, <1>4
<1>7. ASSUME NEW a \in h.live, NEW x PROVE x \in ToSet(K[a]) <=> x \in Item /\ own[x] = a
  <2>1. a # NULL
    BY <1>1
  <2>2. CASE a \in ListsOf(h)
    <3>1. x \in ToSet(K[a]) => x \in Item /\ own[x] = a
      BY <2>2, <1>4 DEF ToSet
    <3>2. ASSUME x \in Item, own[x] = a PROVE x \in ToSet(K[a])
      <4>1. pos[x] \in DOMAIN K[a] /\ K[a][pos[x]] = x
        BY <2>1, <2>2, <3>2, <1>4, <1>6
      <4> QED BY <4>1 DEF ToSet
    <3> QED BY <3>1, <3>2
  <2>3. CASE a \notin ListsOf(h)
    <3>1. K[a] = <<>> /\ ToSet(<<>>) = {}
      BY <2>3, <1>2 DEF ToSet
    <3>2. \A y \in Item : own[y] # a
      BY <2>1, <2>3, <1>5
    <3> QED BY <3>1, <3>2
  <2> QED BY <2>2, <2>3
<1>8. TreeMap(K)
  <2>1. ASSUME NEW a \in h.live PROVE K[a] \in Seq(Item) /\ ToSet(K[a]) \subseteq h.live
    <3>1. K[a] \in Seq(Item)
      <4>1. <<>> \in Seq(Item)
        OBVIOUS
      <4> QED BY <4>1, <1>2, <1>4
    <3>2. ToSet(K[a]) \subseteq h.live
      BY <1>1, <1>5, <1>7
    <3> QED BY <3>1, <3>2
  <2> QED BY <2>1, <1>1, <1>2 DEF TreeMap
<1> QED BY <1>2, <1>3, <1>4, <1>5, <1>6, <1>7, <1>8 DEF K

\* The owners, places and lengths leave no choice.
Spells(K, h, own, pos, len) ==
  /\ K = [x \in h.live |-> K[x]] /\ \A a \in h.live : a \notin ListsOf(h) => K[a] = <<>>
  /\ \A a \in ListsOf(h) :
       /\ K[a] \in Seq(Item) /\ Len(K[a]) = len[a]
       /\ \A k \in 1..len[a] : own[K[a][k]] = a /\ pos[K[a][k]] = k

\* A tree that has in every place the item with that owner and place is the tree of the heap.
LEMMA KidsDetermined ==
  ASSUME NEW h, NEW own, NEW pos, NEW len, NEW e, Shaped(h, own, pos, len, e),
         NEW K, Spells(K, h, own, pos, len)
  PROVE  KidsOf(h) = K
<1>0. /\ K = [x \in h.live |-> K[x]] /\ \A a \in h.live : a \notin ListsOf(h) => K[a] = <<>>
      /\ \A a \in ListsOf(h) :
           /\ K[a] \in Seq(Item) /\ Len(K[a]) = len[a]
           /\ \A k \in 1..len[a] : own[K[a][k]] = a /\ pos[K[a][k]] = k
  BY DEF Spells
<1> DEFINE L == KidsOf(h)
<1>1. L = [x \in h.live |-> L[x]]
  BY DEF KidsOf
<1>2. /\ \A a \in h.live : a \notin ListsOf(h) => L[a] = <<>>
      /\ \A a \in ListsOf(h) : L[a] \in Seq(Item) /\ Len(L[a]) = len[a]
      /\ \A x \in Item : own[x] # NULL => L[own[x]][pos[x]] = x
  <2>1. TreeMap(L) /\ DOMAIN L = h.live
    BY KidsSpelled
  <2>2. \A a \in ListsOf(h) : a \in h.live
    BY DEF ListsOf
  <2> QED BY <2>1, <2>2, KidsSpelled DEF TreeMap
<1>3. h.live \subseteq Item /\ NULL \notin Item
  BY HeapFields DEF Shaped
<1> HIDE DEF L
<1>4. ASSUME NEW a \in ListsOf(h) PROVE L[a] = K[a]
  <2> DEFINE s == L[a]
             t == K[a]
             n == len[a]
  <2>1. s \in Seq(Item) /\ Len(s) = n /\ t \in Seq(Item) /\ Len(t) = n
    BY <1>0, <1>2
  <2>2. ASSUME NEW k \in 1..n PROVE s[k] = t[k]
    <3>1. t[k] \in Item
      BY <2>1, <2>2
    <3>2. own[t[k]] = a /\ pos[t[k]] = k
      BY <1>0, <2>2
    <3>3. a # NULL
      BY <1>3 DEF ListsOf
    <3> QED BY <3>1, <3>2, <3>3, <1>2
  <2> HIDE DEF s, t, n
  <2>3. s = t
    BY <2>1, <2>2
  <2> QED BY <2>3 DEF s, t
<1>5. \A a \in h.live : L[a] = K[a]
  BY <1>0, <1>2, <1>4
<1> QED BY <1>0, <1>1, <1>5 DEF L

\* t is s with x put in at place p.
Inserted(t, s, p, x) ==
  /\ t \in Seq(Item) /\ Len(t) = Len(s) + 1
  /\ \A k \in 1..(Len(s) + 1) : t[k] = IF k < p THEN s[k] ELSE IF k = p THEN x ELSE s[k-1]

\* What InsertAt puts where
LEMMA InsertAtInserts ==
  ASSUME NEW s \in Seq(Item), NEW x \in Item, NEW p \in 1..Len(s) + 1
  PROVE  Inserted(InsertAt(s, p, x), s, p, x)
  BY InsertAtProperties DEF Inserted

\* t is s without what is at place p.
Removed(t, s, p) ==
  /\ t \in Seq(Item) /\ Len(t) = Len(s) - 1
  /\ \A k \in 1..(Len(s) - 1) : t[k] = IF k < p THEN s[k] ELSE s[k+1]

\* What RemoveAt leaves where
LEMMA RemoveAtRemoves ==
  ASSUME NEW s \in Seq(Item), NEW p \in 1..Len(s)
  PROVE  Removed(RemoveAt(s, p), s, p)
  BY RemoveAtProperties DEF Removed

\* i becomes the child of a at place p.
LEMMA PutKids ==
  ASSUME NEW h, NEW own, NEW pos, NEW len, Shaped(h, own, pos, len, NULL),
         NEW a \in ListsOf(h), NEW i \in h.live, own[i] = NULL, NEW p \in 1..len[a] + 1,
         NEW h2, PutPointers(h, h2, own, pos, len, a, i, p)
  PROVE  KidsOf(h2) = [KidsOf(h) EXCEPT ![a] = InsertAt(@, p, i)]
<1> DEFINE K == KidsOf(h)
           s == K[a]
           t == InsertAt(s, p, i)
           K2 == [K EXCEPT ![a] = t]
           own2 == [own EXCEPT ![i] = a]
           pos2 == PutPos(own, pos, a, i, p)
           len2 == [len EXCEPT ![a] = @ + 1]
<1>1. Shaped(h2, own2, pos2, len2, NULL)
  BY PutShapes
<1>2. /\ h.live \subseteq Item /\ NULL \notin Item /\ a \in Item /\ i \in Item /\ a \in h.live /\ a # NULL
      /\ own \in [Item -> Ptr] /\ pos \in [Item -> Nat] /\ len \in [Item -> Nat]
  BY HeapFields DEF Shaped, Ranked, ListsOf
<1>3. h2.live = h.live /\ ListsOf(h2) = ListsOf(h)
  BY <1>2 DEF PutPointers, ListsOf
<1>4. /\ DOMAIN K = h.live /\ TreeMap(K)
      /\ \A b \in h.live : b \notin ListsOf(h) => K[b] = <<>>
      /\ \A b \in ListsOf(h) : /\ b \in h.live /\ Len(K[b]) = len[b]
                               /\ \A k \in 1..len[b] : K[b][k] \in Item /\ own[K[b][k]] = b /\ pos[K[b][k]] = k
  BY KidsSpelled DEF ListsOf
<1>5. K = [x \in h.live |-> K[x]] /\ K2 = [x \in h.live |-> K2[x]]
  BY DEF KidsOf
<1>6. K2[a] = t /\ \A b \in h.live : b # a => K2[b] = K[b]
  BY <1>2, <1>5
<1>7. /\ own2[i] = a /\ len2[a] = len[a] + 1 /\ pos2[i] = p
      /\ \A x \in Item : x # i => own2[x] = own[x]
      /\ \A x \in Item : x # i => pos2[x] = IF own[x] = a /\ pos[x] >= p THEN pos[x] + 1 ELSE pos[x]
      /\ \A b \in Item : b # a => len2[b] = len[b]
  BY <1>2 DEF PutPos
<1>8. s \in Seq(Item) /\ Len(s) = len[a]
  BY <1>2, <1>4 DEF TreeMap
<1> HIDE DEF own2, pos2, len2, K, K2, s
<1>9. /\ t \in Seq(Item) /\ Len(t) = len[a] + 1
      /\ \A k \in 1..len[a] + 1 : t[k] = IF k < p THEN s[k] ELSE IF k = p THEN i ELSE s[k-1]
  <2>1. p \in 1..Len(s) + 1 /\ s \in Seq(Item) /\ i \in Item
    BY <1>2, <1>8
  <2> HIDE DEF t
  <2>2. Inserted(InsertAt(s, p, i), s, p, i)
    BY <2>1, InsertAtInserts
  <2> QED BY <2>2, <1>8 DEF t, Inserted
<1> HIDE DEF t
<1>10. ASSUME NEW k \in 1..len[a] + 1 PROVE own2[t[k]] = a /\ pos2[t[k]] = k
  <2>0. len[a] \in Nat /\ p \in Nat /\ k \in Nat
    BY <1>2
  <2>1. \A j \in 1..len[a] : s[j] \in Item /\ own[s[j]] = a /\ pos[s[j]] = j /\ s[j] # i
    BY <1>2, <1>4 DEF s
  <2>2. CASE k < p
    <3>1. k \in 1..len[a] /\ t[k] = s[k] /\ ~(k >= p)
      BY <2>0, <2>2, <1>9
    <3> QED BY <3>1, <2>1, <1>7
  <2>3. CASE k = p
    BY <2>3, <2>0, <1>7, <1>9
  <2>4. CASE k > p
    <3>1. k-1 \in 1..len[a] /\ t[k] = s[k-1] /\ k - 1 >= p
      BY <2>0, <2>4, <1>9
    <3> QED BY <3>1, <2>0, <2>1, <1>7
  <2> QED BY <2>0, <2>2, <2>3, <2>4
<1>11. ASSUME NEW b \in ListsOf(h), b # a, NEW k \in 1..len[b]
       PROVE  own2[K[b][k]] = b /\ pos2[K[b][k]] = k
  <2>1. K[b][k] \in Item /\ own[K[b][k]] = b /\ pos[K[b][k]] = k
    BY <1>4
  <2>2. b # NULL
    BY <1>2, <1>4
  <2> QED BY <2>1, <2>2, <1>7, <1>11
<1>12. ASSUME NEW b \in ListsOf(h2)
       PROVE  /\ K2[b] \in Seq(Item) /\ Len(K2[b]) = len2[b]
              /\ \A k \in 1..len2[b] : own2[K2[b][k]] = b /\ pos2[K2[b][k]] = k
  <2>1. CASE b = a
    BY <2>1, <1>6, <1>7, <1>9, <1>10
  <2>2. CASE b # a
    BY SMTT(30), <2>2, <1>2, <1>3, <1>4, <1>6, <1>7, <1>11 DEF TreeMap
  <2> QED BY <2>1, <2>2
<1>13. \A b \in h2.live : b \notin ListsOf(h2) => K2[b] = <<>>
  BY <1>3, <1>4, <1>6
<1>14. KidsOf(h2) = K2
  <2>1. K2 = [x \in h2.live |-> K2[x]]
    BY <1>3, <1>5
  <2>2. Spells(K2, h2, own2, pos2, len2)
    BY <2>1, <1>12, <1>13 DEF Spells
  <2> QED BY <2>2, <1>1, KidsDetermined
<1> QED BY <1>14 DEF K, K2, s, t

\* i leaves the list of a.
LEMMA CutKids ==
  ASSUME NEW h, NEW own, NEW pos, NEW len, Shaped(h, own, pos, len, NULL),
         NEW a \in Item, NEW i \in Item, own[i] = a,
         NEW h2, CutPointers(h, h2, own, pos, len, a, i)
  PROVE  KidsOf(h2) = [KidsOf(h) EXCEPT ![a] = RemoveAt(@, pos[i])]
<1> DEFINE K == KidsOf(h)
           s == K[a]
           p == pos[i]
           t == RemoveAt(s, p)
           K2 == [K EXCEPT ![a] = t]
           own2 == [own EXCEPT ![i] = NULL]
           pos2 == CutPos(own, pos, i)
           len2 == [len EXCEPT ![a] = @ - 1]
<1>1. Shaped(h2, own2, pos2, len2, NULL)
  BY CutShapes
<1>2. /\ h.live \subseteq Item /\ NULL \notin Item /\ a # NULL
      /\ own \in [Item -> Ptr] /\ pos \in [Item -> Nat] /\ len \in [Item -> Nat]
      /\ \A x, y \in Item : own[x] # NULL /\ own[x] = own[y] /\ pos[x] = pos[y] => x = y
  BY HeapFields DEF Shaped, Ranked
<1>3. h2.live = h.live /\ ListsOf(h2) = ListsOf(h)
  BY <1>2 DEF CutPointers, ListsOf
<1>4. /\ DOMAIN K = h.live /\ TreeMap(K)
      /\ \A b \in h.live : b \notin ListsOf(h) => K[b] = <<>>
      /\ \A b \in ListsOf(h) : /\ b \in h.live /\ Len(K[b]) = len[b]
                               /\ \A k \in 1..len[b] : K[b][k] \in Item /\ own[K[b][k]] = b /\ pos[K[b][k]] = k
      /\ a \in ListsOf(h) /\ p \in 1..Len(s)
  <2>1. own[i] # NULL
    BY <1>2
  <2> QED BY <2>1, KidsSpelled DEF ListsOf
<1>5. K = [x \in h.live |-> K[x]] /\ K2 = [x \in h.live |-> K2[x]]
  BY DEF KidsOf
<1>6. K2[a] = t /\ \A b \in h.live : b # a => K2[b] = K[b]
  BY <1>4, <1>5
<1>7. /\ len2[a] = len[a] - 1
      /\ \A x \in Item : x # i => own2[x] = own[x]
      /\ \A x \in Item : pos2[x] = IF own[x] = a /\ pos[x] > p THEN pos[x] - 1 ELSE pos[x]
      /\ \A b \in Item : b # a => len2[b] = len[b]
  BY <1>2 DEF CutPos
<1>8. s \in Seq(Item) /\ Len(s) = len[a] /\ p \in Nat
  BY <1>2, <1>4 DEF TreeMap
<1> HIDE DEF own2, pos2, len2, K, K2, s
<1>9. /\ t \in Seq(Item) /\ Len(t) = len[a] - 1
      /\ \A k \in 1..len[a] - 1 : t[k] = IF k < p THEN s[k] ELSE s[k+1]
  <2>1. p \in 1..Len(s) /\ s \in Seq(Item)
    BY <1>4, <1>8 DEF s
  <2> HIDE DEF t, p
  <2>2. Removed(RemoveAt(s, p), s, p)
    BY <2>1, RemoveAtRemoves
  <2> QED BY <2>2, <1>8 DEF t, Removed
<1> HIDE DEF t
<1>10. ASSUME NEW k \in 1..len[a] - 1 PROVE own2[t[k]] = a /\ pos2[t[k]] = k
  <2>0. len[a] \in Nat /\ p \in Nat /\ k \in Nat
    BY <1>2
  <2>1. \A j \in 1..len[a] : s[j] \in Item /\ own[s[j]] = a /\ pos[s[j]] = j
    BY <1>4 DEF s
  <2> HIDE DEF p
  <2>2. CASE k < p
    <3>1. k \in 1..len[a] /\ t[k] = s[k] /\ ~(k > p) /\ k # p
      BY <2>0, <2>2, <1>9
    <3>2. s[k] # i
      BY <3>1, <2>1 DEF p
    <3> QED BY <3>1, <3>2, <2>1, <1>7
  <2>3. CASE ~(k < p)
    <3>1. k+1 \in 1..len[a] /\ t[k] = s[k+1] /\ k + 1 > p /\ k + 1 # p /\ (k + 1) - 1 = k
      BY <2>0, <2>3, <1>9
    <3>2. s[k+1] # i
      BY <3>1, <2>1 DEF p
    <3> QED BY <3>1, <3>2, <2>1, <1>7
  <2> QED BY <2>2, <2>3
<1>11. ASSUME NEW b \in ListsOf(h), b # a, NEW k \in 1..len[b]
       PROVE  own2[K[b][k]] = b /\ pos2[K[b][k]] = k
  <2>1. K[b][k] \in Item /\ own[K[b][k]] = b /\ pos[K[b][k]] = k
    BY <1>4
  <2>2. K[b][k] # i
    BY <2>1, <1>11
  <2> QED BY <2>1, <2>2, <1>7, <1>11
<1>12. ASSUME NEW b \in ListsOf(h2)
       PROVE  /\ K2[b] \in Seq(Item) /\ Len(K2[b]) = len2[b]
              /\ \A k \in 1..len2[b] : own2[K2[b][k]] = b /\ pos2[K2[b][k]] = k
  <2>1. CASE b = a
    BY <2>1, <1>6, <1>7, <1>9, <1>10
  <2>2. CASE b # a
    BY <2>2, <1>2, <1>3, <1>4, <1>6, <1>7, <1>11 DEF TreeMap
  <2> QED BY <2>1, <2>2
<1>13. \A b \in h2.live : b \notin ListsOf(h2) => K2[b] = <<>>
  BY <1>3, <1>4, <1>6
<1>14. KidsOf(h2) = K2
  <2>1. K2 = [x \in h2.live |-> K2[x]]
    BY <1>3, <1>5
  <2>2. Spells(K2, h2, own2, pos2, len2)
    BY <2>1, <1>12, <1>13 DEF Spells
  <2> QED BY <2>2, <1>1, KidsDetermined
<1> QED BY <1>14 DEF K, K2, s, t

\* The root n takes the place of i in the list of a.
LEMMA SwapKids ==
  ASSUME NEW h, NEW own, NEW pos, NEW len, Shaped(h, own, pos, len, NULL),
         NEW a \in Item, NEW i \in Item, own[i] = a, NEW n \in h.live, own[n] = NULL,
         NEW h2, SwapPointers(h, h2, own, pos, len, a, i, n)
  PROVE  KidsOf(h2) = [KidsOf(h) EXCEPT ![a] = ReplaceAt(@, pos[i], n)]
<1> DEFINE K == KidsOf(h)
           s == K[a]
           p == pos[i]
           t == ReplaceAt(s, p, n)
           K2 == [K EXCEPT ![a] = t]
           own2 == [[own EXCEPT ![n] = a] EXCEPT ![i] = NULL]
           pos2 == [pos EXCEPT ![n] = pos[i]]
<1>1. Shaped(h2, own2, pos2, len, NULL)
  BY SwapShapes
<1>2. /\ h.live \subseteq Item /\ NULL \notin Item /\ a # NULL /\ n \in Item /\ n # i
      /\ own \in [Item -> Ptr] /\ pos \in [Item -> Nat] /\ len \in [Item -> Nat]
  BY HeapFields DEF Shaped, Ranked
<1>3. h2.live = h.live /\ ListsOf(h2) = ListsOf(h)
  BY <1>2 DEF SwapPointers, ListsOf
<1>4. /\ DOMAIN K = h.live /\ TreeMap(K)
      /\ \A b \in h.live : b \notin ListsOf(h) => K[b] = <<>>
      /\ \A b \in ListsOf(h) : /\ b \in h.live /\ Len(K[b]) = len[b]
                               /\ \A k \in 1..len[b] : K[b][k] \in Item /\ own[K[b][k]] = b /\ pos[K[b][k]] = k
      /\ a \in ListsOf(h) /\ p \in 1..Len(s) /\ s[p] = i
  <2>1. own[i] # NULL
    BY <1>2
  <2> QED BY <2>1, KidsSpelled DEF ListsOf
<1>5. K = [x \in h.live |-> K[x]] /\ K2 = [x \in h.live |-> K2[x]]
  BY DEF KidsOf
<1>6. K2[a] = t /\ \A b \in h.live : b # a => K2[b] = K[b]
  BY <1>4, <1>5
<1>7. /\ own2[n] = a /\ pos2[n] = p
      /\ \A x \in Item : x # i /\ x # n => own2[x] = own[x] /\ pos2[x] = pos[x]
  BY <1>2
<1>8. s \in Seq(Item) /\ Len(s) = len[a] /\ p \in 1..len[a] /\ len[a] \in Nat
  BY <1>2, <1>4 DEF TreeMap
<1> HIDE DEF own2, pos2, K, K2, s
<1>9. /\ t \in Seq(Item) /\ Len(t) = len[a]
      /\ \A k \in 1..len[a] : t[k] = IF k = p THEN n ELSE s[k]
  <2> HIDE DEF p
  <2>1. t = [s EXCEPT ![p] = n]
    BY DEF ReplaceAt
  <2> HIDE DEF t
  <2> QED BY <2>1, <1>2, <1>8
<1> HIDE DEF t
<1>10. ASSUME NEW k \in 1..len[a] PROVE own2[t[k]] = a /\ pos2[t[k]] = k
  <2>1. s[k] \in Item /\ own[s[k]] = a /\ pos[s[k]] = k
    BY <1>4 DEF s
  <2>2. CASE k = p
    BY <2>2, <1>7, <1>9
  <2>3. CASE k # p
    <3>1. t[k] = s[k] /\ s[k] # i /\ s[k] # n
      BY <2>1, <2>3, <1>2, <1>9
    <3> QED BY <3>1, <2>1, <1>7
  <2> QED BY <2>2, <2>3
<1>11. ASSUME NEW b \in ListsOf(h), b # a, NEW k \in 1..len[b]
       PROVE  own2[K[b][k]] = b /\ pos2[K[b][k]] = k
  <2>1. K[b][k] \in Item /\ own[K[b][k]] = b /\ pos[K[b][k]] = k /\ b # NULL
    BY <1>2, <1>4
  <2>2. K[b][k] # i /\ K[b][k] # n
    BY <2>1, <1>11
  <2> QED BY <2>1, <2>2, <1>7
<1>12. ASSUME NEW b \in ListsOf(h2)
       PROVE  /\ K2[b] \in Seq(Item) /\ Len(K2[b]) = len[b]
              /\ \A k \in 1..len[b] : own2[K2[b][k]] = b /\ pos2[K2[b][k]] = k
  <2>1. CASE b = a
    BY <2>1, <1>6, <1>9, <1>10
  <2>2. CASE b # a
    BY SMTT(30), <2>2, <1>2, <1>3, <1>4, <1>6, <1>11 DEF TreeMap
  <2> QED BY <2>1, <2>2
<1>13. \A b \in h2.live : b \notin ListsOf(h2) => K2[b] = <<>>
  BY <1>3, <1>4, <1>6
<1>14. KidsOf(h2) = K2
  <2>1. K2 = [x \in h2.live |-> K2[x]]
    BY <1>3, <1>5
  <2>2. Spells(K2, h2, own2, pos2, len)
    BY <2>1, <1>12, <1>13 DEF Spells
  <2> QED BY <2>2, <1>1, KidsDetermined
<1> QED BY <1>14 DEF K, K2, s, t

\* K without the items of D
Pruned(K, D) == [x \in DOMAIN K \ D |-> K[x]]

\* What is deleted with a root is what hangs below it, and the rest stays as it is.
LEMMA DeleteKids ==
  ASSUME NEW h, NEW own, NEW pos, NEW len, NEW e, Shaped(h, own, pos, len, e),
         NEW i \in h.live, own[i] = NULL, e = NULL \/ e \in Doomed(h, i)
  PROVE  /\ KidsOf(cJSON_Delete(h, i)) = Pruned(KidsOf(h), Doomed(h, i))
         /\ Doomed(h, i) = BelowIn(KidsOf(h), i)
<1> DEFINE D == Doomed(h, i)
           h2 == cJSON_Delete(h, i)
           K == KidsOf(h)
           K2 == Pruned(K, D)
           own2 == [x \in Item |-> IF x \in D THEN NULL ELSE own[x]]
           len2 == [x \in Item |-> IF x \in D THEN 0 ELSE len[x]]
<1>1. Shaped(h2, own2, pos, len2, NULL)
  BY DeleteKeeps
<1>2. /\ h \in Heap /\ h.live \subseteq Item /\ NULL \notin Item /\ i \in Item
      /\ own \in [Item -> Ptr] /\ len \in [Item -> Nat]
  BY HeapFields DEF Shaped, Ranked
<1>3. /\ D \subseteq h.live /\ i \in D
      /\ \A x \in D : x # i => own[x] \in D
      /\ \A x \in Item : own[x] \in D => x \in D
  BY DoomedBelow
<1>4. /\ DOMAIN K = h.live /\ TreeMap(K)
      /\ \A b \in h.live : b \notin ListsOf(h) => K[b] = <<>>
      /\ \A b \in ListsOf(h) : /\ b \in h.live /\ Len(K[b]) = len[b]
                               /\ \A k \in 1..len[b] : K[b][k] \in Item /\ own[K[b][k]] = b /\ pos[K[b][k]] = k
      /\ \A b \in h.live : \A x : x \in ToSet(K[b]) <=> x \in Item /\ own[x] = b
  BY KidsSpelled DEF ListsOf
<1>5. /\ h2.live = h.live \ D
      /\ \A x \in Item : h2.f[x] = IF x \in D THEN Zero ELSE h.f[x]
  BY DEF cJSON_Delete
<1>6. /\ \A x \in Item : own2[x] = IF x \in D THEN NULL ELSE own[x]
      /\ \A x \in Item : len2[x] = IF x \in D THEN 0 ELSE len[x]
  OBVIOUS
<1>7. K2 = [x \in h.live \ D |-> K[x]]
  BY <1>4 DEF Pruned
<1> HIDE DEF D, h2, K, K2, own2, len2
<1>8. \A b \in ListsOf(h2) : b \in ListsOf(h) /\ b \notin D /\ b \in h2.live /\ b \in Item
  BY <1>2, <1>5 DEF ListsOf
<1>9. \A b \in h2.live : b \notin ListsOf(h2) => b \notin ListsOf(h) /\ b \in h.live
  BY <1>2, <1>5 DEF ListsOf
<1>10. ASSUME NEW b \in ListsOf(h2)
       PROVE  /\ K2[b] \in Seq(Item) /\ Len(K2[b]) = len2[b]
              /\ \A k \in 1..len2[b] : own2[K2[b][k]] = b /\ pos[K2[b][k]] = k
  <2>1. K2[b] = K[b] /\ len2[b] = len[b]
    BY <1>5, <1>6, <1>7, <1>8
  <2>2. K[b] \in Seq(Item) /\ Len(K[b]) = len[b]
    BY <1>4, <1>8 DEF TreeMap
  <2>3. ASSUME NEW k \in 1..len[b] PROVE own2[K[b][k]] = b /\ pos[K[b][k]] = k
    <3>1. K[b][k] \in Item /\ own[K[b][k]] = b /\ pos[K[b][k]] = k
      BY <1>4, <1>8
    <3>2. K[b][k] # i /\ b # NULL
      BY <3>1, <1>2, <1>8
    <3>3. K[b][k] \notin D
      BY <3>1, <3>2, <1>3, <1>8
    <3> QED BY <3>1, <3>3, <1>6
  <2> QED BY <2>1, <2>2, <2>3
<1>11. \A b \in h2.live : b \notin ListsOf(h2) => K2[b] = <<>>
  BY <1>4, <1>5, <1>7, <1>9
<1>12. KidsOf(h2) = K2
  <2>1. K2 = [x \in h2.live |-> K2[x]]
    BY <1>5, <1>7
  <2>2. Spells(K2, h2, own2, pos, len2)
    BY <2>1, <1>10, <1>11 DEF Spells
  <2> QED BY <2>2, <1>1, KidsDetermined
<1>13. D = BelowIn(K, i)
  <2> DEFINE B == BelowIn(K, i)
  <2>1. /\ B \subseteq h.live /\ i \in B /\ KidsStay(K, B)
        /\ \A T \in SUBSET h.live : i \in T /\ KidsStay(K, T) => B \subseteq T
    BY <1>4, BelowLeast
  <2> HIDE DEF B
  <2>2. KidsStay(K, D)
    BY <1>3, <1>4 DEF KidsStay
  <2>3. B \subseteq D
    BY <2>1, <2>2, <1>3
  <2>4. /\ \A x \in h.live : h.f[x].next # NULL =>
             own[x] # NULL /\ h.f[x].next \in Item /\ own[h.f[x].next] = own[x]
        /\ \A b \in ListsOf(h) : h.f[b].child # NULL => h.f[b].child \in Item /\ own[h.f[b].child] = b
    BY PointersLead
  <2>5. B \subseteq {x \in B : x = i \/ own[x] \in B}
    <3> DEFINE T == {x \in B : x = i \/ own[x] \in B}
    <3>1. T \in SUBSET h.live /\ i \in T
      BY <2>1
    <3>2. KidsStay(K, T)
      <4> SUFFICES ASSUME NEW b \in T, NEW x \in ToSet(K[b]) PROVE x \in T
        BY DEF KidsStay
      <4>1. x \in B
        BY <2>1 DEF KidsStay
      <4>2. own[x] = b
        BY <2>1, <1>4
      <4> QED BY <4>1, <4>2
    <3> HIDE DEF T
    <3>3. B \subseteq T
      BY <2>1, <3>1, <3>2
    <3> QED BY <3>3 DEF T
  <2>6. Closed(h, B)
    <3> SUFFICES ASSUME NEW x \in B
                 PROVE  /\ h.f[x].next \in B \cup {NULL}
                        /\ ~h.f[x].IsReference => h.f[x].child \in B \cup {NULL}
      BY DEF Closed
    <3>1. x \in h.live /\ x \in Item
      BY <2>1, <1>2
    <3>2. ASSUME h.f[x].next # NULL PROVE h.f[x].next \in B
      <4>1. own[x] # NULL /\ h.f[x].next \in Item /\ own[h.f[x].next] = own[x]
        BY <2>4, <3>1, <3>2
      <4>2. own[x] \in B
        BY <4>1, <2>5
      <4>3. h.f[x].next \in ToSet(K[own[x]])
        BY <4>1, <4>2, <2>1, <1>4
      <4> QED BY <4>2, <4>3, <2>1 DEF KidsStay
    <3>3. ASSUME ~h.f[x].IsReference, h.f[x].child # NULL PROVE h.f[x].child \in B
      <4>1. h.f[x].child \in Item /\ own[h.f[x].child] = x
        BY <2>4, <3>1, <3>3 DEF ListsOf
      <4>2. h.f[x].child \in ToSet(K[x])
        BY <4>1, <3>1, <1>4
      <4> QED BY <4>2, <2>1 DEF KidsStay
    <3> QED BY <3>2, <3>3
  <2>7. D \subseteq B
    <3>1. \A S : i \in S /\ Closed(h, S) => D \subseteq S
      BY <1>2, DoomedProperties DEF D
    <3> QED BY <3>1, <2>1, <2>6
  <2> QED BY <2>3, <2>7 DEF B
<1> QED BY <1>12, <1>13 DEF D, h2, K, K2

\* What the calls make of a tree K
PutIn(K, a, k, i) == [K EXCEPT ![a] = InsertAt(@, k, i)]
TakenFrom(K, a, k) == [K EXCEPT ![a] = RemoveAt(@, k)]
Swapped(K, a, k, i) == [K EXCEPT ![a] = ReplaceAt(@, k, i)]
Beside(K, a, s) ==
  [y \in DOMAIN K \cup {a} \cup ToSet(s) |->
     IF y = a THEN s ELSE IF y \in DOMAIN K THEN K[y] ELSE <<>>]

\* The tree of a sound heap
LEMMA SoundKids ==
  ASSUME NEW h, NEW R, Sound(h, R)
  PROVE  /\ DOMAIN KidsOf(h) = h.live /\ TreeMap(KidsOf(h)) /\ R \subseteq h.live
         /\ \A a \in ListsOf(h) : /\ a \in h.live /\ KidsOf(h)[a] = Children(h, a)
                                  /\ Children(h, a) \in Seq(Item)
         /\ \A a \in h.live, x \in R : x \notin ToSet(KidsOf(h)[a])
         /\ \A a \in h.live : KidsOf(h)[a] \in Seq(Item) /\ ToSet(KidsOf(h)[a]) \subseteq h.live
<1>1. PICK own, pos, len : Shaped(h, own, pos, len, NULL) /\ R = Roots(h, own)
  BY DEF Sound
<1>2. \A a \in ListsOf(h) : a \in h.live
  BY DEF ListsOf
<1>3. /\ DOMAIN KidsOf(h) = h.live /\ TreeMap(KidsOf(h))
      /\ \A a \in ListsOf(h) : KidsOf(h)[a] = Children(h, a)
      /\ \A a \in h.live : \A x : x \in ToSet(KidsOf(h)[a]) <=> x \in Item /\ own[x] = a
  BY <1>1, KidsSpelled
<1>4. \A a \in h.live : KidsOf(h)[a] \in Seq(Item) /\ ToSet(KidsOf(h)[a]) \subseteq h.live
  BY <1>3 DEF TreeMap
<1>5. \A x \in R : own[x] = NULL /\ x \in h.live
  BY <1>1 DEF Roots
<1>6. NULL \notin h.live
  BY <1>1, HeapFields DEF Shaped
<1>7. \A a \in h.live, x \in R : x \notin ToSet(KidsOf(h)[a])
  BY <1>3, <1>5, <1>6
<1> QED BY <1>2, <1>3, <1>4, <1>5, <1>7

\* add_item_to_array: the item comes last.
LEMMA AddKids ==
  ASSUME NEW h, NEW R, Sound(h, R), NEW a \in ListsOf(h), NEW i \in R, a # i
  PROVE  KidsOf(add_item_to_array(h, a, i).h) = PutIn(KidsOf(h), a, Len(Children(h, a)) + 1, i)
<1>1. PICK own, pos, len : Shaped(h, own, pos, len, NULL) /\ R = Roots(h, own)
  BY DEF Sound
<1>2. i \in h.live /\ own[i] = NULL /\ len[a] \in Nat
  BY <1>1, HeapFields DEF Roots, ListsOf, Shaped, Ranked
<1>3. PutPointers(h, add_item_to_array(h, a, i).h, own, pos, len, a, i, len[a] + 1)
  BY <1>1, <1>2, AddShaped
<1>4. len[a] + 1 \in 1..len[a] + 1 /\ Len(Children(h, a)) = len[a]
  BY <1>1, <1>2, SoundChildren
<1>5. KidsOf(add_item_to_array(h, a, i).h) = [KidsOf(h) EXCEPT ![a] = InsertAt(@, len[a] + 1, i)]
  BY <1>1, <1>2, <1>3, <1>4, PutKids
<1> QED BY <1>4, <1>5 DEF PutIn

\* The k-th child has its list for owner, and place k.
LEMMA ChildAt ==
  ASSUME NEW h, NEW own, NEW pos, NEW len, Shaped(h, own, pos, len, NULL),
         NEW a \in ListsOf(h), NEW k \in 1..Len(Children(h, a))
  PROVE  /\ Children(h, a)[k] \in Item /\ own[Children(h, a)[k]] = a /\ pos[Children(h, a)[k]] = k
         /\ get_array_item(h, a, k - 1) = Children(h, a)[k]
         /\ Children(h, a)[k] \in ToSet(Children(h, a))
<1>1. h \in Heap /\ Ranked(own, pos, len) /\ Linked(h, own, pos, len)
  BY DEF Shaped
<1>2. /\ Len(Children(h, a)) = len[a] /\ DOMAIN Children(h, a) = 1..len[a]
      /\ \A j \in 1..len[a] : /\ Children(h, a)[j] \in Item
                              /\ own[Children(h, a)[j]] = a /\ pos[Children(h, a)[j]] = j
      /\ \A j \in 1..len[a] : Children(h, a)[j] = get_array_item(h, a, j - 1)
  BY <1>1, ChildrenSpelled
<1>3. k \in 1..len[a]
  BY <1>2
<1> QED BY <1>2, <1>3 DEF ToSet

\* cJSON_InsertItemInArray: the item takes the index it was given.
LEMMA InsertKids ==
  ASSUME NEW h, NEW R, Sound(h, R), NEW a \in ListsOf(h), NEW i \in R, a # i,
         NEW which \in 0..Len(Children(h, a))
  PROVE  KidsOf(cJSON_InsertItemInArray(h, a, which, i).h) = PutIn(KidsOf(h), a, which + 1, i)
<1>1. PICK own, pos, len : Shaped(h, own, pos, len, NULL) /\ R = Roots(h, own)
  BY DEF Sound
<1>2. i \in h.live /\ own[i] = NULL /\ len[a] \in Nat /\ Len(Children(h, a)) = len[a]
      /\ h \in Heap /\ Ranked(own, pos, len) /\ Linked(h, own, pos, len)
  <2>1. Len(Children(h, a)) = len[a]
    BY <1>1, SoundChildren
  <2>2. h \in Heap /\ a \in Item /\ Ranked(own, pos, len) /\ Linked(h, own, pos, len)
    BY <1>1, HeapFields DEF ListsOf, Shaped
  <2> QED BY <2>1, <2>2, <1>1 DEF Roots, Ranked
<1>3. CASE which = len[a]
  <2>1. get_array_item(h, a, which) = NULL
    BY <1>2, <1>3, ItemAtIndex
  <2>2. cJSON_InsertItemInArray(h, a, which, i) = add_item_to_array(h, a, i)
    BY <2>1 DEF cJSON_InsertItemInArray
  <2> QED BY <2>2, <1>2, <1>3, AddKids
<1>4. CASE which # len[a]
  <2> DEFINE n == Children(h, a)[which + 1]
  <2>1. which + 1 \in 1..len[a] /\ (which + 1) - 1 = which /\ which + 1 \in 1..len[a] + 1
    BY <1>2, <1>4
  <2>2. n \in Item /\ own[n] = a /\ pos[n] = which + 1 /\ get_array_item(h, a, which) = n
    BY <1>1, <1>2, <2>1, ChildAt
  <2> HIDE DEF n
  <2>3. PutPointers(h, cJSON_InsertItemInArray(h, a, which, i).h, own, pos, len, a, i, pos[n])
    BY <1>1, <1>2, <2>2, InsertShaped
  <2>4. KidsOf(cJSON_InsertItemInArray(h, a, which, i).h)
          = [KidsOf(h) EXCEPT ![a] = InsertAt(@, which + 1, i)]
    BY <1>1, <1>2, <2>1, <2>2, <2>3, PutKids
  <2> QED BY <2>4 DEF PutIn
<1> QED BY <1>3, <1>4

\* cJSON_DetachItemViaPointer of the k-th child
LEMMA DetachKids ==
  ASSUME NEW h, NEW R, Sound(h, R), NEW a \in ListsOf(h), NEW k \in 1..Len(Children(h, a))
  PROVE  /\ KidsOf(cJSON_DetachItemViaPointer(h, a, Children(h, a)[k]).h) = TakenFrom(KidsOf(h), a, k)
         /\ cJSON_DetachItemViaPointer(h, a, Children(h, a)[k]).r = Children(h, a)[k]
<1>1. PICK own, pos, len : Shaped(h, own, pos, len, NULL)
  BY DEF Sound
<1> DEFINE i == Children(h, a)[k]
<1>2. i \in Item /\ own[i] = a /\ pos[i] = k /\ a \in Item
  BY <1>1, ChildAt, HeapFields DEF ListsOf, Sound
<1> HIDE DEF i
<1>3. /\ CutPointers(h, cJSON_DetachItemViaPointer(h, a, i).h, own, pos, len, a, i)
      /\ cJSON_DetachItemViaPointer(h, a, i).r = i
  BY <1>1, <1>2, DetachShaped
<1>4. KidsOf(cJSON_DetachItemViaPointer(h, a, i).h) = [KidsOf(h) EXCEPT ![a] = RemoveAt(@, pos[i])]
  BY <1>1, <1>2, <1>3, CutKids
<1> QED BY <1>2, <1>3, <1>4 DEF TakenFrom, i

\* cJSON_Delete of an item in no list
LEMMA DestroyKids ==
  ASSUME NEW h, NEW R, Sound(h, R), NEW i \in R
  PROVE  /\ KidsOf(cJSON_Delete(h, i)) = Pruned(KidsOf(h), BelowIn(KidsOf(h), i))
         /\ Doomed(h, i) = BelowIn(KidsOf(h), i)
<1>1. PICK own, pos, len : Shaped(h, own, pos, len, NULL) /\ R = Roots(h, own)
  BY DEF Sound
<1>2. i \in h.live /\ own[i] = NULL
  BY <1>1 DEF Roots
<1> QED BY <1>1, <1>2, DeleteKids

\* cJSON_ReplaceItemViaPointer of the k-th child
LEMMA ReplaceKids ==
  ASSUME NEW h, NEW R, Sound(h, R), Hangs(KidsOf(h)), NEW a \in ListsOf(h),
         NEW k \in 1..Len(Children(h, a)), NEW n \in R, a # n
  PROVE  KidsOf(cJSON_ReplaceItemViaPointer(h, a, Children(h, a)[k], n).h)
           = Pruned(Swapped(KidsOf(h), a, k, n), BelowIn(KidsOf(h), Children(h, a)[k]))
<1>1. PICK own, pos, len : Shaped(h, own, pos, len, NULL) /\ R = Roots(h, own)
  BY DEF Sound
<1> DEFINE i == Children(h, a)[k]
           K == KidsOf(h)
<1>2. i \in Item /\ own[i] = a /\ pos[i] = k /\ a \in Item /\ n \in h.live /\ own[n] = NULL
      /\ a \in h.live /\ a # NULL /\ own \in [Item -> Ptr] /\ h.live \subseteq Item
  <2>1. i \in Item /\ own[i] = a /\ pos[i] = k
    BY <1>1, ChildAt
  <2> HIDE DEF i
  <2>2. h.live \subseteq Item /\ NULL \notin Item /\ own \in [Item -> Ptr] /\ a \in h.live
    BY <1>1, HeapFields DEF Shaped, Ranked, ListsOf
  <2> QED BY <2>1, <2>2, <1>1 DEF Roots
<1>3. /\ DOMAIN K = h.live /\ TreeMap(K) /\ K[a] = Children(h, a)
      /\ i \in ToSet(K[a]) /\ i \in h.live
  <2>1. i \in ToSet(Children(h, a))
    BY <1>1, ChildAt
  <2> QED BY <1>2, <2>1, SoundKids
<1> HIDE DEF i, K
<1>4. PICK g : ReplacedFrom(h, g, own, pos, len, a, i, n)
  BY <1>1, <1>2, ReplaceShaped
<1>5. /\ cJSON_ReplaceItemViaPointer(h, a, i, n).h = cJSON_Delete(g, i)
      /\ SwapPointers(h, g, own, pos, len, a, i, n)
  BY <1>4 DEF ReplacedFrom, Answer
<1> DEFINE own2 == [[own EXCEPT ![n] = a] EXCEPT ![i] = NULL]
           pos2 == [pos EXCEPT ![n] = pos[i]]
           K2 == KidsOf(g)
<1>6. Shaped(g, own2, pos2, len, NULL)
  BY <1>1, <1>2, <1>5, SwapShapes
<1>7. K2 = Swapped(K, a, k, n)
  BY <1>1, <1>2, <1>5, SwapKids DEF Swapped, K
<1>8. own2[i] = NULL /\ g.live = h.live
  BY <1>2, <1>5 DEF SwapPointers
<1>9. DOMAIN K2 = g.live /\ TreeMap(K2)
  <2> HIDE DEF own2, pos2
  <2> QED BY <1>6, KidsSpelled
<1>10. KidsOf(cJSON_Delete(g, i)) = Pruned(K2, BelowIn(K2, i))
  <2> HIDE DEF own2, pos2, K2
  <2>1. /\ KidsOf(cJSON_Delete(g, i)) = Pruned(KidsOf(g), Doomed(g, i))
        /\ Doomed(g, i) = BelowIn(KidsOf(g), i)
    BY <1>3, <1>6, <1>8, DeleteKids
  <2> QED BY <2>1 DEF K2
<1> HIDE DEF K2, own2, pos2
<1>11. a \notin BelowIn(K, i)
  BY <1>2, <1>3, HangsAbove DEF K
<1>12. \A b \in DOMAIN K : b # a => K2[b] = K[b]
  BY <1>7 DEF Swapped
<1>13. BelowIn(K2, i) = BelowIn(K, i)
  BY <1>3, <1>8, <1>9, <1>11, <1>12, BelowSame
<1> QED BY <1>5, <1>7, <1>10, <1>13 DEF i, K

\* Two heaps whose items stand at the same places
LEMMA KidsAgree ==
  ASSUME NEW h, NEW own, NEW pos, NEW len, NEW e, Shaped(h, own, pos, len, e),
         NEW g, NEW d, Shaped(g, own, pos, len, d), g.live = h.live, ListsOf(g) = ListsOf(h)
  PROVE  KidsOf(g) = KidsOf(h)
<1> DEFINE K == KidsOf(h)
<1>1. K = [x \in h.live |-> K[x]]
  BY DEF KidsOf
<1>2. /\ \A a \in h.live : a \notin ListsOf(h) => K[a] = <<>>
      /\ \A a \in ListsOf(h) : /\ Len(K[a]) = len[a]
                               /\ \A k \in 1..len[a] : own[K[a][k]] = a /\ pos[K[a][k]] = k
  BY KidsSpelled
<1>3. \A a \in ListsOf(h) : K[a] \in Seq(Item)
  <2>1. DOMAIN K = h.live /\ TreeMap(K)
    BY KidsSpelled
  <2>2. \A a \in ListsOf(h) : a \in h.live
    BY DEF ListsOf
  <2> QED BY <2>1, <2>2 DEF TreeMap
<1> HIDE DEF K
<1>4. Spells(K, g, own, pos, len)
  BY <1>1, <1>2, <1>3 DEF Spells
<1> QED BY <1>4, KidsDetermined DEF K

\* Names are no children.
LEMMA SameKids ==
  ASSUME NEW h, NEW R, Sound(h, R), NEW g, SameLinks(h, g)
  PROVE  KidsOf(g) = KidsOf(h)
<1>1. PICK own, pos, len : Shaped(h, own, pos, len, NULL)
  BY DEF Sound
<1>2. Shaped(g, own, pos, len, NULL)
  BY <1>1, LinksCarry
<1>3. h.live \subseteq Item
  BY HeapFields DEF Sound
<1>4. g.live = h.live /\ ListsOf(g) = ListsOf(h)
  BY <1>3 DEF SameLinks, ListsOf
<1> QED BY <1>1, <1>2, <1>4, KidsAgree

\* An item comes into being and has no children.
LEMMA FreshKids ==
  ASSUME NEW h, NEW R, Sound(h, R), NEW n \in Item, n \notin h.live,
         NEW g \in Heap, g.live = h.live \cup {n},
         \A x \in Item : x # n => g.f[x] = h.f[x],
         g.f[n].next = NULL, g.f[n].prev = NULL, g.f[n].IsReference \/ g.f[n].child = NULL
  PROVE  KidsOf(g) = Beside(KidsOf(h), n, <<>>)
<1> DEFINE K == KidsOf(h)
           L == Beside(K, n, <<>>)
<1>1. PICK own, pos, len : Shaped(h, own, pos, len, NULL)
  BY DEF Sound
<1>2. Shaped(g, own, pos, len, NULL)
  BY <1>1, NewShapes
<1>3. h.live \subseteq Item /\ NULL \notin Item /\ len \in [Item -> Nat]
  BY <1>1, HeapFields DEF Sound, Shaped, Ranked
<1>4. DOMAIN K = h.live
  BY DEF KidsOf
<1>5. /\ \A a \in h.live : a \notin ListsOf(h) => K[a] = <<>>
      /\ \A a \in ListsOf(h) : /\ Len(K[a]) = len[a]
                               /\ \A k \in 1..len[a] : own[K[a][k]] = a /\ pos[K[a][k]] = k
  BY <1>1, KidsSpelled
<1>6. \A a \in ListsOf(h) : K[a] \in Seq(Item) /\ a \in h.live /\ a # n
  <2>1. TreeMap(K)
    BY <1>1, KidsSpelled
  <2>2. \A a \in ListsOf(h) : a \in h.live
    BY DEF ListsOf
  <2> QED BY <2>1, <2>2, <1>4 DEF TreeMap
<1>7. \A b : b \in ListsOf(g) => b = n \/ b \in ListsOf(h)
  BY <1>3 DEF ListsOf
<1>8. \A b \in h.live : b \notin ListsOf(g) => b \notin ListsOf(h)
  BY <1>3 DEF ListsOf
<1>9. len[n] = 0
  <2>1. ASSUME len[n] # 0 PROVE FALSE
    <3>1. 1 \in 1..len[n]
      BY <1>3, <2>1
    <3>2. PICK x \in Item : own[x] = n
      BY <3>1, <1>1 DEF Shaped, Ranked
    <3>3. n \in ListsOf(h)
      BY <3>2, <1>1, <1>3 DEF Shaped, Linked
    <3> QED BY <3>3, <1>6
  <2> QED BY <2>1
<1> HIDE DEF K
<1>10. L = [x \in g.live |-> L[x]] /\ L[n] = <<>> /\ \A x \in h.live : L[x] = K[x]
  <2>1. ToSet(<<>>) = {}
    BY DEF ToSet
  <2>2. L = [y \in g.live |-> IF y = n THEN <<>> ELSE IF y \in h.live THEN K[y] ELSE <<>>]
    BY <2>1, <1>4 DEF Beside
  <2> HIDE DEF L
  <2> QED BY <2>2
<1> HIDE DEF L
<1>11. \A a \in g.live : a \notin ListsOf(g) => L[a] = <<>>
  BY <1>5, <1>8, <1>10
<1>12. ASSUME NEW a \in ListsOf(g)
       PROVE  /\ L[a] \in Seq(Item) /\ Len(L[a]) = len[a]
              /\ \A k \in 1..len[a] : own[L[a][k]] = a /\ pos[L[a][k]] = k
  <2>1. CASE a = n
    <3>1. <<>> \in Seq(Item) /\ Len(<<>>) = 0 /\ 1..0 = {}
      OBVIOUS
    <3> QED BY <3>1, <2>1, <1>9, <1>10
  <2>2. CASE a # n
    <3>1. a \in ListsOf(h) /\ L[a] = K[a]
      BY <2>2, <1>6, <1>7, <1>10
    <3> QED BY <3>1, <1>5, <1>6
  <2> QED BY <2>1, <2>2
<1>13. Spells(L, g, own, pos, len)
  BY <1>10, <1>11, <1>12 DEF Spells
<1>14. KidsOf(g) = L
  BY <1>2, <1>13, KidsDetermined
<1> QED BY <1>14 DEF K, L

\* cJSON_New_Item and create_reference
LEMMA NewKids ==
  ASSUME NEW h, NEW R, Sound(h, R), NEW n \in Item, n \notin h.live
  PROVE  /\ KidsOf(cJSON_New_Item(h, n)) = Beside(KidsOf(h), n, <<>>)
         /\ \A i \in h.live : KidsOf(create_reference(h, i, n)) = Beside(KidsOf(h), n, <<>>)
<1>1. h \in Heap /\ h.live \subseteq Item
  BY HeapFields DEF Sound
<1>2. KidsOf(cJSON_New_Item(h, n)) = Beside(KidsOf(h), n, <<>>)
  <2> DEFINE g == cJSON_New_Item(h, n)
  <2>1. /\ g \in Heap /\ g.live = h.live \cup {n} /\ g.f[n] = Zero
        /\ \A x \in Item : x # n => g.f[x] = h.f[x]
    BY <1>1, NewFields
  <2>2. Zero.next = NULL /\ Zero.prev = NULL /\ Zero.child = NULL
    BY DEF Zero
  <2> HIDE DEF g
  <2>3. KidsOf(g) = Beside(KidsOf(h), n, <<>>)
    BY <2>1, <2>2, FreshKids
  <2> QED BY <2>3 DEF g
<1>3. ASSUME NEW i \in h.live
      PROVE  KidsOf(create_reference(h, i, n)) = Beside(KidsOf(h), n, <<>>)
  <2> DEFINE g == create_reference(h, i, n)
  <2>1. /\ g \in Heap /\ g.live = h.live \cup {n}
        /\ \A x \in Item : x # n => g.f[x] = h.f[x]
        /\ g.f[n].next = NULL /\ g.f[n].prev = NULL /\ g.f[n].IsReference
    BY <1>1, ReferenceFields
  <2> HIDE DEF g
  <2>2. KidsOf(g) = Beside(KidsOf(h), n, <<>>)
    BY <2>1, FreshKids
  <2> QED BY <2>2 DEF g
<1> QED BY <1>2, <1>3

\* K is a function: two trees with the same items and children are one.
IsMap(K) == K = [x \in DOMAIN K |-> K[x]]

\* An insertion behind the last is an append.
LEMMA InsertLast ==
  ASSUME NEW s \in Seq(Item), NEW x \in Item
  PROVE  /\ InsertAt(s, Len(s) + 1, x) = Append(s, x) /\ Append(s, x) \in Seq(Item)
         /\ ToSet(Append(s, x)) = ToSet(s) \cup {x}
<1> DEFINE n == Len(s)
           t == InsertAt(s, n + 1, x)
           u == Append(s, x)
<1>1. n \in Nat /\ n + 1 \in 1..n + 1
  OBVIOUS
<1>2. u \in Seq(Item) /\ Len(u) = n + 1 /\ \A k \in 1..n + 1 : u[k] = IF k = n + 1 THEN x ELSE s[k]
  OBVIOUS
<1>3. t \in Seq(Item) /\ Len(t) = n + 1 /\ \A k \in 1..n + 1 : t[k] = IF k = n + 1 THEN x ELSE s[k]
  <2>1. Inserted(t, s, n + 1, x)
    BY <1>1, InsertAtInserts
  <2> HIDE DEF t
  <2> QED BY <2>1, <1>1 DEF Inserted
<1> HIDE DEF t, u
<1>4. t = u
  BY <1>2, <1>3
<1>5. ASSUME NEW y PROVE y \in ToSet(u) <=> y \in ToSet(s) \/ y = x
  <2>1. y \in ToSet(u) <=> \E k \in 1..n + 1 : u[k] = y
    BY <1>2 DEF ToSet
  <2>2. y \in ToSet(s) <=> \E k \in 1..n : s[k] = y
    BY DEF ToSet
  <2> HIDE DEF n
  <2>3. ASSUME NEW k \in 1..n PROVE k \in 1..n + 1 /\ u[k] = s[k]
    BY <1>1, <1>2
  <2>4. ASSUME NEW k \in 1..n + 1, k # n + 1 PROVE k \in 1..n /\ u[k] = s[k]
    BY <1>1, <1>2, <2>4
  <2>5. u[n + 1] = x
    BY <1>1, <1>2
  <2> QED BY <1>1, <2>1, <2>2, <2>3, <2>4, <2>5
<1>6. ToSet(u) = ToSet(s) \cup {x}
  BY <1>5
<1> QED BY <1>2, <1>4, <1>6 DEF t, u

\* A tree beside which a new item stands with new children
Apart(K, a, s) ==
  /\ TreeMap(K) /\ IsMap(K) /\ a \in Item /\ a \notin DOMAIN K /\ s \in Seq(Item)
  /\ a \notin ToSet(s) /\ ToSet(s) \cap DOMAIN K = {}

\* L is the tree K and, beside it, the new item a with the new leaves s.
ApartFacts(K, a, s, L) ==
  /\ DOMAIN L = DOMAIN K \cup {a} \cup ToSet(s)
  /\ TreeMap(L) /\ IsMap(L) /\ L[a] = s
  /\ \A x \in DOMAIN K : L[x] = K[x]
  /\ \A x \in ToSet(s) : L[x] = <<>>

\* Beside makes such a tree of new items.
LEMMA ApartTree ==
  ASSUME NEW K, NEW a, NEW s, Apart(K, a, s)
  PROVE  ApartFacts(K, a, s, Beside(K, a, s))
<1> DEFINE L == Beside(K, a, s)
           D == DOMAIN K \cup {a} \cup ToSet(s)
<1>1. /\ TreeMap(K) /\ a \in Item /\ a \notin DOMAIN K /\ s \in Seq(Item)
      /\ a \notin ToSet(s) /\ ToSet(s) \cap DOMAIN K = {}
  BY DEF Apart
<1>2. L = [y \in D |-> IF y = a THEN s ELSE IF y \in DOMAIN K THEN K[y] ELSE <<>>]
  BY DEF Beside
<1> HIDE DEF L
<1>3. /\ DOMAIN L = D /\ IsMap(L) /\ L[a] = s /\ \A x \in DOMAIN K : L[x] = K[x]
      /\ \A x \in ToSet(s) : L[x] = <<>>
  BY <1>1, <1>2 DEF IsMap
<1>4. ToSet(s) \subseteq Item
  BY <1>1 DEF ToSet
<1>5. <<>> \in Seq(Item) /\ ToSet(<<>>) = {}
  BY DEF ToSet
<1>6. DOMAIN K \subseteq Item /\ \A x \in DOMAIN K : K[x] \in Seq(Item) /\ ToSet(K[x]) \subseteq DOMAIN K
  BY <1>1 DEF TreeMap
<1>7. TreeMap(L)
  <2>1. ASSUME NEW x \in D PROVE L[x] \in Seq(Item) /\ ToSet(L[x]) \subseteq D
    <3>1. CASE x = a
      BY <3>1, <1>1, <1>3
    <3>2. CASE x \in DOMAIN K
      BY <3>2, <1>3, <1>6
    <3>3. CASE x \in ToSet(s)
      BY <3>3, <1>3, <1>5
    <3> QED BY <3>1, <3>2, <3>3
  <2> QED BY <2>1, <1>1, <1>3, <1>4, <1>6 DEF TreeMap
<1>8. ApartFacts(K, a, s, L)
  BY <1>3, <1>7 DEF ApartFacts
<1> QED BY <1>8 DEF L

\* One more child of the new item
LEMMA ApartMore ==
  ASSUME NEW K, NEW a, NEW s, Apart(K, a, s), NEW z \in Item, z \notin DOMAIN K, z # a, z \notin ToSet(s)
  PROVE  /\ PutIn(Beside(Beside(K, a, s), z, <<>>), a, Len(s) + 1, z) = Beside(K, a, Append(s, z))
         /\ Apart(K, a, Append(s, z)) /\ Apart(Beside(K, a, s), z, <<>>)
<1> DEFINE L == Beside(K, a, s)
           M == Beside(L, z, <<>>)
           u == Append(s, z)
           P == PutIn(M, a, Len(s) + 1, z)
           Q == Beside(K, a, u)
<1>1. /\ TreeMap(K) /\ IsMap(K) /\ a \in Item /\ a \notin DOMAIN K /\ s \in Seq(Item)
      /\ a \notin ToSet(s) /\ ToSet(s) \cap DOMAIN K = {}
  BY DEF Apart
<1>2. /\ DOMAIN L = DOMAIN K \cup {a} \cup ToSet(s) /\ TreeMap(L) /\ IsMap(L) /\ L[a] = s
      /\ \A x \in DOMAIN K : L[x] = K[x]
      /\ \A x \in ToSet(s) : L[x] = <<>>
  <2>1. ApartFacts(K, a, s, L)
    BY ApartTree
  <2> HIDE DEF L
  <2> QED BY <2>1 DEF ApartFacts
<1> HIDE DEF L
<1>3. Apart(L, z, <<>>)
  <2>1. <<>> \in Seq(Item) /\ ToSet(<<>>) = {}
    BY DEF ToSet
  <2> QED BY <2>1, <1>2 DEF Apart
<1>4. /\ DOMAIN M = DOMAIN L \cup {z} /\ IsMap(M) /\ M[z] = <<>>
      /\ \A x \in DOMAIN L : M[x] = L[x]
  <2>1. ToSet(<<>>) = {}
    BY DEF ToSet
  <2>2. ApartFacts(L, z, <<>>, M)
    BY <1>3, ApartTree
  <2> HIDE DEF M
  <2> QED BY <2>1, <2>2 DEF ApartFacts
<1> HIDE DEF M
<1>5. InsertAt(s, Len(s) + 1, z) = u /\ u \in Seq(Item) /\ ToSet(u) = ToSet(s) \cup {z}
  BY <1>1, InsertLast
<1> HIDE DEF u
<1>6. Apart(K, a, u)
  BY <1>1, <1>5 DEF Apart
<1>7. /\ DOMAIN Q = DOMAIN K \cup {a} \cup ToSet(u) /\ IsMap(Q) /\ Q[a] = u
      /\ \A x \in DOMAIN K : Q[x] = K[x]
      /\ \A x \in ToSet(u) : Q[x] = <<>>
  <2>1. ApartFacts(K, a, u, Q)
    BY <1>6, ApartTree
  <2> HIDE DEF Q
  <2> QED BY <2>1 DEF ApartFacts
<1> HIDE DEF Q
<1>8. /\ DOMAIN P = DOMAIN M /\ P = [x \in DOMAIN M |-> P[x]] /\ P[a] = u
      /\ \A x \in DOMAIN M : x # a => P[x] = M[x]
  <2>1. M[a] = s /\ a \in DOMAIN M /\ IsMap(M)
    BY <1>2, <1>4
  <2> HIDE DEF P
  <2>2. P = [M EXCEPT ![a] = InsertAt(s, Len(s) + 1, z)]
    BY <2>1 DEF P, PutIn
  <2>3. P = [M EXCEPT ![a] = u]
    BY <2>2, <1>5
  <2> QED BY <2>1, <2>3 DEF IsMap
<1> HIDE DEF P
<1>9. DOMAIN Q = DOMAIN M
  BY <1>2, <1>4, <1>5, <1>7
<1>10. ASSUME NEW x \in DOMAIN M PROVE P[x] = Q[x]
  <2>1. CASE x = a
    BY <2>1, <1>7, <1>8
  <2>2. CASE x = z
    BY <2>2, <1>4, <1>5, <1>7, <1>8
  <2>3. CASE x # a /\ x # z
    BY <2>3, <1>2, <1>4, <1>5, <1>7, <1>8
  <2> QED BY <2>1, <2>2, <2>3
<1>11. P = Q
  BY <1>7, <1>8, <1>9, <1>10 DEF IsMap
<1> QED BY <1>3, <1>6, <1>11 DEF L, M, P, Q, u

\* The new item is deleted again.
LEMMA ApartGone ==
  ASSUME NEW K, NEW a, NEW s, Apart(K, a, s)
  PROVE  Pruned(Beside(K, a, s), BelowIn(Beside(K, a, s), a)) = K
<1> DEFINE L == Beside(K, a, s)
           B == BelowIn(L, a)
           T == {a} \cup ToSet(s)
<1>1. /\ DOMAIN L = DOMAIN K \cup {a} \cup ToSet(s) /\ TreeMap(L) /\ L[a] = s
      /\ \A x \in DOMAIN K : L[x] = K[x]
      /\ \A x \in ToSet(s) : L[x] = <<>>
  <2>1. ApartFacts(K, a, s, L)
    BY ApartTree
  <2> HIDE DEF L
  <2> QED BY <2>1 DEF ApartFacts
<1>2. IsMap(K) /\ a \notin DOMAIN K /\ a \notin ToSet(s) /\ ToSet(s) \cap DOMAIN K = {}
  BY DEF Apart
<1> HIDE DEF L
<1>3. /\ a \in B /\ KidsStay(L, B) /\ \A U \in SUBSET DOMAIN L : a \in U /\ KidsStay(L, U) => B \subseteq U
  BY <1>1, BelowLeast
<1> HIDE DEF B
<1>4. KidsStay(L, T) /\ T \in SUBSET DOMAIN L
  <2>1. ToSet(<<>>) = {}
    BY DEF ToSet
  <2> QED BY <2>1, <1>1 DEF KidsStay
<1>5. B \subseteq T
  BY <1>3, <1>4
<1>6. T \subseteq B
  BY <1>1, <1>3 DEF KidsStay
<1>7. DOMAIN L \ B = DOMAIN K
  BY <1>1, <1>2, <1>5, <1>6
<1>8. Pruned(L, B) = [x \in DOMAIN K |-> L[x]]
  BY <1>7 DEF Pruned
<1>9. Pruned(L, B) = [x \in DOMAIN K |-> K[x]]
  BY <1>1, <1>8
<1> QED BY <1>2, <1>9 DEF IsMap, L, B

-------------------------------------------------------------------------------
(* What each call makes of the tree of the heap                                *)

\* What a call makes of the tree of h when it leaves g
Took(h, g, a, i) ==
  \E k \in 1..Len(Children(h, a)) :
    i = Children(h, a)[k] /\ KidsOf(g) = TakenFrom(KidsOf(h), a, k)
Dropped(h, g, a) ==
  \E k \in 1..Len(Children(h, a)) :
    KidsOf(g) = Pruned(TakenFrom(KidsOf(h), a, k), BelowIn(KidsOf(h), Children(h, a)[k]))
Exchanged(h, g, a, n) ==
  \E k \in 1..Len(Children(h, a)) :
    KidsOf(g) = Pruned(Swapped(KidsOf(h), a, k, n), BelowIn(KidsOf(h), Children(h, a)[k]))

\* add_item_to_object, when it finds no fault
LEMMA AddNamedKids ==
  ASSUME NEW h, NEW R, Sound(h, R), NEW a \in ListsOf(h), NEW i \in R, NEW name \in Key,
         NEW constant, NEW copy, Nameable(constant, copy), a # i
  PROVE  KidsOf(add_item_to_object(h, a, name, i, constant, copy).h)
           = PutIn(KidsOf(h), a, Len(Children(h, a)) + 1, i)
<1> DEFINE answer == add_item_to_object(h, a, name, i, constant, copy)
           allocated == IF constant THEN h ELSE [h EXCEPT !.keys = @ + 1]
           g == set_name(free_string(allocated, i), i, name, ~constant, constant)
<1>1. i \in h.live /\ i # NULL
  BY HeapFields DEF Sound, Roots
<1>2. constant \in BOOLEAN /\ copy \in BOOLEAN /\ (constant \/ copy)
  BY DEF Nameable
<1>3. Sound(g, R) /\ ListsOf(g) = ListsOf(h) /\ SameLinks(h, g)
  BY <1>1, <1>2, NewName
<1>4. answer = add_item_to_array(g, a, i)
  BY <1>1, <1>2 DEF add_item_to_object
<1> HIDE DEF g, answer
<1>5. KidsOf(g) = KidsOf(h)
  BY <1>3, SameKids
<1>6. a \in ListsOf(g)
  BY <1>3
<1>7. Children(g, a) = Children(h, a)
  <2>1. KidsOf(g)[a] = Children(g, a)
    BY <1>3, <1>6, SoundKids
  <2>2. KidsOf(h)[a] = Children(h, a)
    BY SoundKids
  <2> QED BY <1>5, <2>1, <2>2
<1>8. KidsOf(add_item_to_array(g, a, i).h) = PutIn(KidsOf(g), a, Len(Children(g, a)) + 1, i)
  BY <1>3, <1>6, AddKids
<1> QED BY <1>4, <1>5, <1>7, <1>8 DEF answer

\* The same, of a copied name
LEMMA AddCopyKids ==
  ASSUME NEW h, NEW R, Sound(h, R), NEW a \in ListsOf(h), NEW n \in R, a # n, NEW name \in Key,
         NEW copy \in BOOLEAN, copy
  PROVE  KidsOf(add_item_to_object(h, a, name, n, FALSE, copy).h)
           = PutIn(KidsOf(h), a, Len(Children(h, a)) + 1, n)
<1>1. ASSUME NEW k \in BOOLEAN
      PROVE  KidsOf(add_item_to_object(h, a, name, n, k, copy).h)
               = PutIn(KidsOf(h), a, Len(Children(h, a)) + 1, n)
  <2>1. Nameable(k, copy)
    BY DEF Nameable
  <2> QED BY ZenonT(60), <2>1, AddNamedKids
<1> QED BY <1>1

\* A child has a place.
LEMMA ChildPlace ==
  ASSUME NEW h, NEW R, Sound(h, R), NEW a \in ListsOf(h), NEW i \in ToSet(Children(h, a))
  PROVE  \E k \in 1..Len(Children(h, a)) : i = Children(h, a)[k]
<1>1. Children(h, a) \in Seq(Item)
  BY SoundKids
<1> QED BY <1>1 DEF ToSet

\* cJSON_ReplaceItemViaPointer of what a search found
LEMMA ReplaceFoundKids ==
  ASSUME NEW h, NEW R, Sound(h, R), Hangs(KidsOf(h)), NEW a \in ListsOf(h),
         NEW i \in ToSet(Children(h, a)) \cup {NULL}, NEW n \in R, a # n
  PROVE  LET answer == cJSON_ReplaceItemViaPointer(h, a, i, n)
         IN  \/ answer.r = FALSE /\ KidsOf(answer.h) = KidsOf(h)
             \/ answer.r = TRUE /\ Exchanged(h, answer.h, a, n)
<1> DEFINE answer == cJSON_ReplaceItemViaPointer(h, a, i, n)
<1>1. CASE i = NULL
  <2>1. answer = Answer(h, FALSE)
    BY <1>1 DEF cJSON_ReplaceItemViaPointer
  <2> HIDE DEF answer
  <2>2. answer.h = h /\ answer.r = FALSE
    BY <2>1 DEF Answer
  <2> QED BY <2>2 DEF answer
<1>2. CASE i # NULL
  <2>1. i \in ToSet(Children(h, a))
    BY <1>2
  <2>2. PICK k \in 1..Len(Children(h, a)) : i = Children(h, a)[k]
    BY <2>1, ChildPlace
  <2>3. answer.r = TRUE
    BY <2>1, ReplaceSound
  <2>4. KidsOf(answer.h) = Pruned(Swapped(KidsOf(h), a, k, n), BelowIn(KidsOf(h), Children(h, a)[k]))
    BY <2>2, ReplaceKids
  <2> HIDE DEF answer
  <2>5. Exchanged(h, answer.h, a, n)
    BY <2>4 DEF Exchanged
  <2> QED BY <2>3, <2>5 DEF answer
<1> QED BY <1>1, <1>2

\* replace_item_in_object
LEMMA ReplaceNamedKids ==
  ASSUME NEW h, NEW R, Sound(h, R), Hangs(KidsOf(h)), NEW a \in ListsOf(h), NEW n \in R, a # n,
         NEW name \in Key, NEW sensitive \in BOOLEAN, NEW copy \in BOOLEAN
  PROVE  LET answer == replace_item_in_object(h, a, name, n, sensitive, copy)
         IN  \/ answer.r = FALSE /\ KidsOf(answer.h) = KidsOf(h)
             \/ answer.r = TRUE /\ Exchanged(h, answer.h, a, n)
<1> DEFINE answer == replace_item_in_object(h, a, name, n, sensitive, copy)
           freed == free_string(h, n)
           less == set_name(freed, n, NULL, FALSE, freed.f[n].StringIsConst)
           g == set_name([freed EXCEPT !.keys = @ + 1], n, name, TRUE, FALSE)
           i == get_object_item(g, a, name, sensitive)
<1>1. n \in h.live
  BY DEF Sound, Roots
<1>2. CASE ~copy
  <2>1. SameLinks(h, less)
    BY <1>1, UnnamedSound
  <2>2. answer = Answer(less, FALSE)
    BY <1>2 DEF replace_item_in_object
  <2> HIDE DEF less, answer
  <2>3. answer.h = less /\ answer.r = FALSE
    BY <2>2 DEF Answer
  <2>4. KidsOf(less) = KidsOf(h)
    BY <2>1, SameKids
  <2> QED BY <2>3, <2>4 DEF answer
<1>3. CASE copy
  <2>1. Sound(g, R) /\ ListsOf(g) = ListsOf(h) /\ SameLinks(h, g)
    BY <1>1, RenamedByCopy
  <2>2. answer = cJSON_ReplaceItemViaPointer(g, a, i, n)
    BY <1>3 DEF replace_item_in_object
  <2> HIDE DEF g, answer
  <2>3. i \in ToSet(Children(g, a)) \cup {NULL}
    BY NameAnswers
  <2> HIDE DEF i
  <2>4. a \in ListsOf(g)
    BY <2>1
  <2>5. KidsOf(g) = KidsOf(h)
    BY <2>1, SameKids
  <2>6. Children(g, a) = Children(h, a)
    <3>1. KidsOf(g)[a] = Children(g, a)
      BY <2>1, <2>4, SoundKids
    <3>2. KidsOf(h)[a] = Children(h, a)
      BY SoundKids
    <3> QED BY <2>5, <3>1, <3>2
  <2> DEFINE done == cJSON_ReplaceItemViaPointer(g, a, i, n)
  <2>7. Hangs(KidsOf(g))
    BY <2>5
  <2>8. \/ done.r = FALSE /\ KidsOf(done.h) = KidsOf(g)
        \/ done.r = TRUE /\ Exchanged(g, done.h, a, n)
    BY <2>1, <2>3, <2>4, <2>7, ReplaceFoundKids
  <2> HIDE DEF done
  <2>9. Exchanged(g, done.h, a, n) => Exchanged(h, done.h, a, n)
    BY <2>5, <2>6 DEF Exchanged
  <2>10. answer = done
    BY <2>2 DEF done
  <2> QED BY <2>5, <2>8, <2>9, <2>10 DEF answer
<1> QED BY <1>2, <1>3

\* cJSON_DetachItemViaPointer of what a search found, or of an item in no list
LEMMA DetachFoundKids ==
  ASSUME NEW h, NEW R, Sound(h, R), NEW a \in ListsOf(h),
         NEW i \in ToSet(Children(h, a)) \cup {NULL} \cup R
  PROVE  LET answer == cJSON_DetachItemViaPointer(h, a, i)
         IN  \/ answer.r = NULL /\ answer.h = h
             \/ answer.r = i /\ i # NULL /\ Took(h, answer.h, a, i)
<1> DEFINE answer == cJSON_DetachItemViaPointer(h, a, i)
<1>1. CASE i = NULL \/ i \in R
  <2>1. answer = Answer(h, NULL)
    BY <1>1, DetachRefused
  <2> HIDE DEF answer
  <2>2. answer.h = h /\ answer.r = NULL
    BY <2>1 DEF Answer
  <2> QED BY <2>2 DEF answer
<1>2. CASE i # NULL /\ i \notin R
  <2>1. i \in ToSet(Children(h, a))
    BY <1>2
  <2>2. PICK k \in 1..Len(Children(h, a)) : i = Children(h, a)[k]
    BY <2>1, ChildPlace
  <2>3. KidsOf(answer.h) = TakenFrom(KidsOf(h), a, k) /\ answer.r = i
    BY <2>2, DetachKids
  <2> HIDE DEF answer
  <2>4. Took(h, answer.h, a, i)
    BY <2>2, <2>3 DEF Took
  <2> QED BY <1>2, <2>3, <2>4 DEF answer
<1> QED BY <1>1, <1>2

\* cJSON_DeleteItemFromArray, of what the search found
LEMMA DeleteFoundKids ==
  ASSUME NEW h, NEW R, Sound(h, R), Hangs(KidsOf(h)), NEW a \in ListsOf(h),
         NEW i \in ToSet(Children(h, a)) \cup {NULL}
  PROVE  LET detached == cJSON_DetachItemViaPointer(h, a, i)
             g == cJSON_Delete(detached.h, detached.r)
         IN  KidsOf(g) = KidsOf(h) \/ Dropped(h, g, a)
<1> DEFINE detached == cJSON_DetachItemViaPointer(h, a, i)
           g == detached.h
           done == cJSON_Delete(g, detached.r)
           K == KidsOf(h)
<1>1. \/ detached.r = NULL /\ g = h
      \/ detached.r = i /\ i # NULL /\ Took(h, g, a, i)
  BY DetachFoundKids
<1>2. Sound(g, R \cup ({detached.r} \ {NULL}))
  BY DetachFound
<1>3. h \in Heap
  BY DEF Sound
<1> HIDE DEF detached, K
<1>4. CASE detached.r = NULL /\ g = h
  <2>1. done = h
    BY <1>3, <1>4, DeleteNothing
  <2> QED BY <2>1 DEF done, g, detached
<1>5. CASE detached.r = i /\ i # NULL /\ Took(h, g, a, i)
  <2>1. PICK k \in 1..Len(Children(h, a)) :
          i = Children(h, a)[k] /\ KidsOf(g) = TakenFrom(K, a, k)
    BY <1>5 DEF Took, K
  <2>2. i \in ToSet(Children(h, a))
    BY <1>5
  <2>3. /\ DOMAIN K = h.live /\ TreeMap(K) /\ K[a] = Children(h, a) /\ a \in h.live
        /\ ToSet(K[a]) \subseteq h.live
    BY SoundKids DEF K
  <2>4. DOMAIN KidsOf(g) = g.live /\ TreeMap(KidsOf(g))
    BY <1>2, SoundKids
  <2>5. DOMAIN KidsOf(g) = DOMAIN K /\ \A b \in DOMAIN K : b # a => KidsOf(g)[b] = K[b]
    BY <2>1, <2>3 DEF TakenFrom
  <2>6. a \notin BelowIn(K, i)
    BY <2>2, <2>3, HangsAbove DEF K
  <2>7. BelowIn(KidsOf(g), i) = BelowIn(K, i)
    <3> DEFINE K2 == KidsOf(g)
    <3>1. i \in DOMAIN K /\ TreeMap(K2) /\ DOMAIN K2 = DOMAIN K /\ \A b \in DOMAIN K : b # a => K2[b] = K[b]
      BY <2>2, <2>3, <2>4, <2>5
    <3> HIDE DEF K2
    <3>2. BelowIn(K2, i) = BelowIn(K, i)
      BY <3>1, <2>3, <2>6, BelowSame
    <3> QED BY <3>2 DEF K2
  <2>8. i \in R \cup ({detached.r} \ {NULL})
    BY <1>5
  <2>9. KidsOf(cJSON_Delete(g, i)) = Pruned(KidsOf(g), BelowIn(KidsOf(g), i))
    BY <1>2, <2>8, DestroyKids
  <2>10. Dropped(h, done, a)
    BY <1>5, <2>1, <2>7, <2>9 DEF Dropped, K
  <2> QED BY <2>10 DEF done, g, detached
<1> QED BY <1>1, <1>4, <1>5

\* A new item without children stands apart, and the lists are as they were.
LEMMA BesideLists ==
  ASSUME NEW h, NEW R, Sound(h, R), NEW n \in Item, n \notin h.live,
         NEW m, NEW R2, Sound(m, R2), KidsOf(m) = Beside(KidsOf(h), n, <<>>)
  PROVE  /\ Apart(KidsOf(h), n, <<>>)
         /\ \A a \in ListsOf(h) : a \in ListsOf(m) => Children(m, a) = Children(h, a)
<1> DEFINE K == KidsOf(h)
           L == Beside(K, n, <<>>)
<1>1. DOMAIN K = h.live /\ TreeMap(K) /\ \A a \in ListsOf(h) : a \in h.live /\ K[a] = Children(h, a)
  BY SoundKids
<1>2. \A a \in ListsOf(m) : KidsOf(m)[a] = Children(m, a)
  BY SoundKids
<1>3. IsMap(K)
  BY DEF IsMap, KidsOf
<1> HIDE DEF K
<1>4. Apart(K, n, <<>>)
  <2>1. <<>> \in Seq(Item) /\ ToSet(<<>>) = {}
    BY DEF ToSet
  <2> QED BY <2>1, <1>1, <1>3 DEF Apart
<1>5. ApartFacts(K, n, <<>>, L)
  BY <1>4, ApartTree
<1> HIDE DEF L
<1>6. \A x \in DOMAIN K : L[x] = K[x]
  BY <1>5 DEF ApartFacts
<1>7. KidsOf(m) = L
  BY DEF L, K
<1>8. ASSUME NEW a \in ListsOf(h), a \in ListsOf(m) PROVE Children(m, a) = Children(h, a)
  BY <1>1, <1>2, <1>6, <1>7, <1>8
<1> QED BY <1>4, <1>8 DEF K

\* A new item has become the last child of a.
NewLast(h, g, a, n) ==
  KidsOf(g) = PutIn(Beside(KidsOf(h), n, <<>>), a, Len(Children(h, a)) + 1, n)

\* cJSON_AddNullToObject and its eight fellows
LEMMA AddNewKids ==
  ASSUME NEW h, NEW R, Sound(h, R), NEW a \in ListsOf(h), NEW n \in Ptr, n \notin h.live,
         NEW name \in Key, NEW copy \in BOOLEAN
  PROVE  LET answer == AddNewToObject(h, a, name, n, copy)
         IN  KidsOf(answer.h) = KidsOf(h) \/ (n \in Item /\ NewLast(h, answer.h, a, n))
<1> DEFINE answer == AddNewToObject(h, a, name, n, copy)
           new == cJSON_New_Item(h, n)
           added == add_item_to_object(new, a, name, n, FALSE, copy)
           g == IF added.r THEN added.h ELSE cJSON_Delete(added.h, n)
<1>0. h \in Heap /\ a \in h.live /\ R \subseteq h.live
  BY DEF Sound, ListsOf, Roots
<1>1. answer.h = g
  BY DEF AddNewToObject, Answer
<1>2. CASE n = NULL
  <2>1. added = Answer(h, FALSE)
    BY <1>2, AddNothing DEF cJSON_New_Item
  <2>2. cJSON_Delete(h, n) = h
    BY <1>0, <1>2, DeleteNothing
  <2> HIDE DEF added, answer
  <2>3. answer.h = h
    BY <1>1, <2>1, <2>2 DEF Answer
  <2> QED BY <2>3 DEF answer
<1>3. CASE n # NULL
  <2>1. n \in Item
    BY <1>3 DEF Ptr
  <2> DEFINE R2 == R \cup {n}
  <2>2. Sound(new, R2) /\ Kept(h, new) /\ new.live = h.live \cup {n}
    BY <2>1, NewSound
  <2>3. a \in ListsOf(new) /\ a # n /\ n \in R2
    BY <1>0, <2>2 DEF ListsOf, Kept
  <2>4. KidsOf(new) = Beside(KidsOf(h), n, <<>>)
    BY <2>1, NewKids
  <2> HIDE DEF new, R2, answer
  <2>5. Apart(KidsOf(h), n, <<>>) /\ Children(new, a) = Children(h, a)
    BY <2>1, <2>2, <2>3, <2>4, BesideLists
  <2>6. CASE copy
    <3>1. added.r = TRUE
      BY <2>2, <2>3, <2>6, AddCopySound
    <3>2. KidsOf(added.h) = PutIn(KidsOf(new), a, Len(Children(new, a)) + 1, n)
      BY ZenonT(60), <2>2, <2>3, <2>6, AddCopyKids
    <3> HIDE DEF added
    <3>3. answer.h = added.h
      BY <1>1, <3>1
    <3>4. NewLast(h, answer.h, a, n)
      BY <2>4, <2>5, <3>2, <3>3 DEF NewLast
    <3> QED BY <2>1, <3>4 DEF answer
  <2>7. CASE ~copy
    <3>1. added = Answer(new, FALSE)
      BY <2>7 DEF add_item_to_object
    <3> HIDE DEF added
    <3>2. answer.h = cJSON_Delete(new, n)
      BY <1>1, <3>1 DEF Answer
    <3>3. KidsOf(cJSON_Delete(new, n)) = Pruned(KidsOf(new), BelowIn(KidsOf(new), n))
      BY <2>2, <2>3, DestroyKids
    <3>4. Pruned(KidsOf(new), BelowIn(KidsOf(new), n)) = KidsOf(h)
      BY <2>4, <2>5, ApartGone
    <3> QED BY <3>2, <3>3, <3>4 DEF answer
  <2> QED BY <2>6, <2>7
<1> QED BY <1>2, <1>3

\* A reference is made.
LEMMA ReferenceKids ==
  ASSUME NEW h, NEW R, Sound(h, R), NEW i \in h.live, NEW n \in Item, n \notin h.live,
         NEW a \in ListsOf(h)
  PROVE  LET made == create_reference(h, i, n)
         IN  /\ Sound(made, R \cup {n}) /\ n \in R \cup {n} /\ a # n /\ a \in ListsOf(made)
             /\ KidsOf(made) = Beside(KidsOf(h), n, <<>>) /\ Children(made, a) = Children(h, a)
<1> DEFINE made == create_reference(h, i, n)
           R2 == R \cup {n}
<1>1. Sound(made, R2) /\ Kept(h, made) /\ made.live = h.live \cup {n}
  BY ReferenceSound
<1>2. n \in R2 /\ a \in h.live /\ a # n /\ a \in ListsOf(made)
  BY <1>1 DEF ListsOf, Kept
<1>3. KidsOf(made) = Beside(KidsOf(h), n, <<>>)
  BY NewKids
<1> HIDE DEF made, R2
<1>4. Children(made, a) = Children(h, a)
  BY <1>1, <1>2, <1>3, BesideLists
<1> QED BY <1>1, <1>2, <1>3, <1>4 DEF made, R2

\* A new array with one more new item
LEMMA OneMore ==
  ASSUME NEW g, NEW R, Sound(g, R), NEW a \in ListsOf(g), NEW K, NEW s, Apart(K, a, s),
         KidsOf(g) = Beside(K, a, s), NEW z \in Item, z \notin g.live
  PROVE  LET more == add_item_to_array(cJSON_New_Item(g, z), a, z).h
         IN  KidsOf(more) = Beside(K, a, Append(s, z)) /\ Apart(K, a, Append(s, z))
<1> DEFINE m == cJSON_New_Item(g, z)
           R2 == R \cup {z}
           L == Beside(K, a, s)
<1>1. Sound(m, R2) /\ Kept(g, m) /\ m.live = g.live \cup {z}
  BY NewSound
<1>2. KidsOf(m) = Beside(L, z, <<>>)
  BY NewKids
<1>3. z \in R2 /\ a \in g.live /\ a # z /\ a \in ListsOf(m)
  BY <1>1 DEF ListsOf, Kept
<1>4. ApartFacts(K, a, s, L)
  BY ApartTree
<1>5. KidsOf(g) = L /\ DOMAIN KidsOf(g) = g.live /\ KidsOf(g)[a] = Children(g, a)
  BY SoundKids
<1> HIDE DEF m, L, R2
<1>6. z \notin DOMAIN K /\ z # a /\ z \notin ToSet(s)
  BY <1>3, <1>4, <1>5 DEF ApartFacts
<1>7. Children(m, a) = s
  <2>1. Children(m, a) = Children(g, a)
    <3>1. KidsOf(m) = Beside(KidsOf(g), z, <<>>)
      BY <1>2, <1>5
    <3> QED BY <3>1, <1>1, <1>3, BesideLists
  <2> QED BY <2>1, <1>4, <1>5 DEF ApartFacts
<1>8. KidsOf(add_item_to_array(m, a, z).h) = PutIn(KidsOf(m), a, Len(s) + 1, z)
  BY <1>1, <1>3, <1>7, AddKids
<1>9. /\ PutIn(Beside(Beside(K, a, s), z, <<>>), a, Len(s) + 1, z) = Beside(K, a, Append(s, z))
      /\ Apart(K, a, Append(s, z))
  BY <1>6, ApartMore
<1> QED BY <1>2, <1>8, <1>9 DEF m, L

\* The loop that links the items stopped half-way: all is deleted again.
LEMMA HalfGone ==
  ASSUME NEW k, NEW g, NEW R, NEW a \in R, NEW y \in Item, NEW z, HalfMade(k, g, R, a, y, z),
         NEW K, NEW s, Apart(K, a, s), KidsOf(g) = Beside(K, a, s)
  PROVE  KidsOf(cJSON_Delete(k, a)) = K
<1>1. PICK own, pos, len : Half(k, g, R, own, pos, len, a)
  BY HalfShaped
<1>2. /\ Shaped(g, own, pos, len, NULL) /\ Shaped(k, own, pos, len, a)
      /\ R = Roots(g, own) /\ k.live = g.live /\ ListsOf(k) = ListsOf(g)
  BY <1>1 DEF Half
<1>3. KidsOf(k) = KidsOf(g)
  BY <1>2, KidsAgree
<1>4. a \in k.live /\ own[a] = NULL
  BY <1>2 DEF Roots
<1>5. a \in Doomed(k, a)
  BY <1>2, <1>4, DoomedBelow
<1>6. /\ KidsOf(cJSON_Delete(k, a)) = Pruned(KidsOf(k), Doomed(k, a))
      /\ Doomed(k, a) = BelowIn(KidsOf(k), a)
  BY <1>2, <1>4, <1>5, DeleteKids
<1>7. Pruned(Beside(K, a, s), BelowIn(Beside(K, a, s), a)) = K
  BY ApartGone
<1> QED BY <1>3, <1>6, <1>7

\* The k items that are linked are the children of the new array.
LEMMA LinkedKids ==
  ASSUME NEW new, NEW R, Sound(new, R), NEW a \in ListsOf(new), new.f[a].child = NULL,
         NEW s \in Seq(Ptr), NEW n, AllNew(new, s, n),
         NEW K, Apart(K, a, <<>>), KidsOf(new) = Beside(K, a, <<>>)
  PROVE  \A k \in 0..n : /\ Apart(K, a, SubSeq(s, 1, k))
                         /\ KidsOf(Ringed(new, a, s, k)) = Beside(K, a, SubSeq(s, 1, k))
<1> DEFINE ok(k) == /\ Apart(K, a, SubSeq(s, 1, k))
                    /\ KidsOf(Ringed(new, a, s, k)) = Beside(K, a, SubSeq(s, 1, k))
           bad == {k \in 0..n : ~ok(k)}
<1>1. n \in Nat /\ Len(s) \in Nat /\ n <= Len(s)
  BY DEF AllNew
<1>2. SUFFICES ASSUME bad # {} PROVE FALSE
  OBVIOUS
<1>3. PICK m \in bad : \A k \in bad : m <= k
  <2>1. bad \subseteq Nat
    BY <1>1
  <2> HIDE DEF bad
  <2> QED BY <2>1, <1>2, MinExists
<1>4. m \in 0..n /\ ~ok(m)
  OBVIOUS
<1>5. CASE m = 0
  <2>1. SubSeq(s, 1, 0) = <<>>
    BY SubSeqEmpty
  <2>2. Ringed(new, a, s, 0) = new
    BY DEF Ringed
  <2> QED BY <2>1, <2>2, <1>4, <1>5
<1>6. CASE m # 0
  <2> DEFINE l == m - 1
             g == Ringed(new, a, s, l)
             t == SubSeq(s, 1, l)
             z == s[m]
  <2>1. /\ l \in 0..n /\ l \in Nat /\ ~(m <= l) /\ m \in 1..n /\ m \in 1..Len(s) /\ l + 1 = m
        /\ l \in 0..Len(s) /\ m \in Nat
    BY <1>1, <1>4, <1>6
  <2>2. ok(l)
    <3> HIDE DEF l, bad, ok
    <3>1. l \notin bad
      BY <2>1, <1>3
    <3> QED BY <3>1, <2>1 DEF bad
  <2> HIDE DEF l
  <2>3. Sound(g, R) /\ a \in ListsOf(g) /\ g.live = new.live \cup {s[j] : j \in 1..l}
    <3>1. CASE l = 0
      <4>1. g = new /\ {s[j] : j \in 1..l} = {}
        BY <3>1 DEF Ringed
      <4> QED BY <4>1
    <3>2. CASE l # 0
      <4>1. l \in 1..n
        BY <3>2, <2>1, <1>1
      <4>2. Links(new, R, a, s, l)
        BY <4>1, ChainLinks
      <4> QED BY <4>2 DEF Links, HalfMade
    <3> QED BY <3>1, <3>2
  <2>4. Links(new, R, a, s, m)
    BY <2>1, ChainLinks
  <2>5. Ringed(new, a, s, m) = add_item_to_array(cJSON_New_Item(g, z), a, z).h
    BY <2>4 DEF Links, l
  <2>6. z \in Item /\ z \notin g.live
    <3>1. \A j \in 1..l : j \in 1..n /\ j # m
      BY <2>1, <1>1 DEF l
    <3>2. \A j \in 1..l : s[j] # s[m]
      BY <3>1, <2>1 DEF AllNew
    <3>3. s[m] \in Item /\ s[m] \notin new.live
      BY <2>1 DEF AllNew
    <3> HIDE DEF g
    <3> QED BY <3>2, <3>3, <2>3
  <2>7. Append(t, z) = SubSeq(s, 1, m)
    <3> DEFINE u == SubSeq(s, 1, m)
    <3>0. ASSUME NEW i \in 0..Len(s)
          PROVE  LET v == SubSeq(s, 1, i)
                 IN  v \in Seq(Ptr) /\ Len(v) = i /\ \A j \in 1..i : v[j] = s[j]
      <4>1. /\ i \in Int /\ i - 1 + 1 = i /\ (1 <= i \/ i = 0) /\ \A j \in 1..i : 1 + j - 1 = j
            /\ \A j \in 1..i : j \in 1..Len(s)
        BY <1>1
      <4>2. \A j \in 1..i : s[j] \in Ptr
        BY <4>1
      <4> QED BY <4>1, <4>2, SubSeqProperties
    <3>1. t \in Seq(Ptr) /\ Len(t) = l /\ \A j \in 1..l : t[j] = s[j]
      BY <3>0, <2>1
    <3>2. u \in Seq(Ptr) /\ Len(u) = m /\ \A j \in 1..m : u[j] = s[j]
      BY <3>0, <2>1
    <3>3. z \in Ptr
      BY <2>1
    <3> HIDE DEF t, u, z
    <3>4. /\ Append(t, z) \in Seq(Ptr) /\ Len(Append(t, z)) = m /\ Append(t, z)[m] = z
          /\ \A j \in 1..l : Append(t, z)[j] = t[j]
      BY <3>1, <3>3, <2>1, AppendProperties
    <3>5. \A j \in 1..m : j \in 1..l \/ j = m
      BY <2>1
    <3>6. \A j \in 1..m : Append(t, z)[j] = u[j]
      BY <3>1, <3>2, <3>4, <3>5, <2>1 DEF z
    <3>7. Append(t, z) = u
      BY <3>2, <3>4, <3>6, SeqEqual
    <3> QED BY <3>7 DEF u
  <2> HIDE DEF g, t, z
  <2>8. Apart(K, a, t) /\ KidsOf(g) = Beside(K, a, t)
    BY <2>2 DEF g, t
  <2>9. /\ KidsOf(add_item_to_array(cJSON_New_Item(g, z), a, z).h) = Beside(K, a, Append(t, z))
        /\ Apart(K, a, Append(t, z))
    BY <2>3, <2>6, <2>8, OneMore
  <2> QED BY <2>5, <2>7, <2>9, <1>4
<1> QED BY <1>5, <1>6

\* A new array has come to be, of the new items s.
Arrayed(h, g, a, s) ==
  a \in Item /\ Apart(KidsOf(h), a, s) /\ KidsOf(g) = Beside(KidsOf(h), a, s)

\* cJSON_CreateIntArray and its fellows
LEMMA CreateKids ==
  ASSUME NEW h, NEW R, Sound(h, R), NEW a, NEW s, Granted(h, a, s)
  PROVE  LET answer == CreateArray(h, a, s)
         IN  \/ answer.r = NULL /\ KidsOf(answer.h) = KidsOf(h)
             \/ answer.r = a /\ a # NULL /\ Arrayed(h, answer.h, a, s)
<1> DEFINE answer == CreateArray(h, a, s)
<1>1. CASE a = NULL
  <2>1. answer = Answer(h, NULL)
    BY <1>1 DEF CreateArray
  <2> HIDE DEF answer
  <2>2. answer.h = h /\ answer.r = NULL
    BY <2>1 DEF Answer
  <2> QED BY <2>2 DEF answer
<1>2. CASE a # NULL
  <2> DEFINE new == cJSON_New_Item(h, a)
             R2 == R \cup {a}
             K == KidsOf(h)
  <2>1. PICK n \in 0..Len(s) : (\A k \in 1..n : s[k] # NULL) /\ Ending(h, a, s, n)
    BY <1>2, CreateEnds
  <2>2. /\ Sound(new, R2) /\ new.live = h.live \cup {a} /\ a \in ListsOf(new)
        /\ new.f[a].child = NULL /\ AllNew(new, s, n) /\ a \in Item
        /\ Chain(new, a, s)[0] = new
    BY <2>1, <1>2, CreateStarts
  <2>3. a \in R2 /\ a \notin h.live /\ s \in Seq(Ptr) /\ Len(s) \in Nat
    BY DEF Granted
  <2>4. KidsOf(new) = Beside(K, a, <<>>)
    BY <2>2, <2>3, NewKids
  <2>5. Apart(K, a, <<>>)
    <3> HIDE DEF new, R2, K
    <3>1. KidsOf(new) = Beside(KidsOf(h), a, <<>>)
      BY <2>4 DEF K
    <3> QED BY <3>1, <2>2, <2>3, BesideLists DEF K
  <2> HIDE DEF new, R2, K
  <2>6. \A k \in 0..n : /\ Apart(K, a, SubSeq(s, 1, k))
                        /\ KidsOf(Ringed(new, a, s, k)) = Beside(K, a, SubSeq(s, 1, k))
    BY <2>2, <2>3, <2>4, <2>5, LinkedKids
  <2>7. n \in 0..n /\ n \in Nat
    BY <2>3
  <2>8. CASE answer = Answer(cJSON_Delete(Chain(new, a, s)[n], a), NULL)
    <3> DEFINE c == Chain(new, a, s)[n]
    <3>1. KidsOf(cJSON_Delete(c, a)) = K
      <4>1. CASE n = 0
        <5>1. KidsOf(cJSON_Delete(new, a)) = Pruned(KidsOf(new), BelowIn(KidsOf(new), a))
          BY <2>2, <2>3, DestroyKids
        <5>2. Pruned(Beside(K, a, <<>>), BelowIn(Beside(K, a, <<>>), a)) = K
          BY <2>5, ApartGone
        <5> QED BY <4>1, <5>1, <5>2, <2>2, <2>4
      <4>2. CASE n # 0
        <5>1. n \in 1..n /\ 1 \in 1..n
          BY <4>2, <2>7
        <5>2. Links(new, R2, a, s, n)
          BY <5>1, <2>2, ChainLinks
        <5>3. HalfMade(c, Ringed(new, a, s, n), R2, a, s[1], s[n]) /\ s[1] \in Item
          BY <5>1, <5>2, <2>2 DEF Links, AllNew
        <5> HIDE DEF c
        <5> QED BY <5>3, <2>3, <2>6, <2>7, HalfGone
      <4> QED BY <4>1, <4>2
    <3> HIDE DEF answer, c
    <3>2. answer.h = cJSON_Delete(c, a) /\ answer.r = NULL
      BY <2>8 DEF Answer, c
    <3> QED BY <3>1, <3>2 DEF answer, K
  <2>9. CASE n = Len(s) /\ answer = Answer(Ringed(new, a, s, n), a)
    <3>1. SubSeq(s, 1, n) = s
      BY <2>3, <2>9, SubSeqFull
    <3>2. Apart(K, a, s) /\ KidsOf(Ringed(new, a, s, n)) = Beside(K, a, s)
      BY <3>1, <2>6, <2>7
    <3> HIDE DEF answer
    <3>3. answer.h = Ringed(new, a, s, n) /\ answer.r = a
      BY <2>9 DEF Answer
    <3> QED BY <3>2, <3>3, <2>2, <1>2 DEF Arrayed, answer, K
  <2> QED BY <2>1, <2>8, <2>9 DEF Ending, new
<1> QED BY <1>1, <1>2

-------------------------------------------------------------------------------
(* CJSONTree, on the tree of the heap                                          *)

\* The definitions of CJSONTree, of the tree of the heap
LEMMA TreeTerms ==
  /\ Tree!Exists = DOMAIN KidsOf(heap)
  /\ Tree!New = DOMAIN KidsOf(heap') \ DOMAIN KidsOf(heap)
  /\ \A i : Tree!Below(i) = BelowIn(KidsOf(heap), i)
<1>1. Tree!Exists = DOMAIN KidsOf(heap)
  BY DEF Tree!Exists, KidsOf
<1>2. Tree!New = DOMAIN KidsOf(heap') \ DOMAIN KidsOf(heap)
  BY DEF Tree!New, Tree!Exists, KidsOf
<1>3. ASSUME NEW i PROVE Tree!Below(i) = BelowIn(KidsOf(heap), i)
  BY DEF Tree!Below, BelowIn, KidsOf, Tree!ToSet, ToSet, Tree!Cardinality, Cardinality
<1> QED BY <1>1, <1>2, <1>3

\* The changes of the tree are the actions of CJSONTree: a new item, with leaves or none
LEMMA MapMake ==
  ASSUME NEW i, NEW s, IsInjective(s), held' = held \cup {i}, lost' = lost,
         KidsOf(heap') = Beside(KidsOf(heap), i, s)
  PROVE  Tree!Make(i, s)
<1>1. Tree!IsInjective(s)
  BY DEF Tree!IsInjective, IsInjective
<1>2. Tree!ToSet(s) = ToSet(s)
  BY DEF Tree!ToSet, ToSet
<1> QED BY <1>1, <1>2 DEF Tree!Make, Tree!Exists, KidsOf, Beside

\* An item of the caller's becomes a child.
LEMMA MapGive ==
  ASSUME NEW a, NEW k, NEW i, held' = held \ {i}, lost' = lost,
         KidsOf(heap') = PutIn(KidsOf(heap), a, k, i), a \notin BelowIn(KidsOf(heap), i)
  PROVE  Tree!Give(a, k, i)
<1>1. a \notin Tree!Below(i)
  BY TreeTerms
<1>2. Tree!InsertAt(KidsOf(heap)[a], k, i) = InsertAt(KidsOf(heap)[a], k, i)
  BY DEF Tree!InsertAt, InsertAt
<1>3. KidsOf(heap') = [KidsOf(heap) EXCEPT ![a] = Tree!InsertAt(@, k, i)]
  BY <1>2 DEF PutIn
<1> QED BY <1>1, <1>3 DEF Tree!Give, KidsOf

\* A child becomes the caller's.
LEMMA MapTake ==
  ASSUME NEW a, NEW k, held' = held \cup {KidsOf(heap)[a][k]}, lost' = lost,
         KidsOf(heap') = TakenFrom(KidsOf(heap), a, k)
  PROVE  Tree!Take(a, k)
<1>1. Tree!RemoveAt(KidsOf(heap)[a], k) = RemoveAt(KidsOf(heap)[a], k)
  BY DEF Tree!RemoveAt, RemoveAt
<1>2. KidsOf(heap') = [KidsOf(heap) EXCEPT ![a] = Tree!RemoveAt(@, k)]
  BY <1>1 DEF TakenFrom
<1> QED BY <1>2 DEF Tree!Take, KidsOf

\* A child goes, with all below it.
LEMMA MapDrop ==
  ASSUME NEW a, NEW k, UNCHANGED <<held, lost>>,
         KidsOf(heap') = Pruned(TakenFrom(KidsOf(heap), a, k), BelowIn(KidsOf(heap), KidsOf(heap)[a][k]))
  PROVE  Tree!Drop(a, k)
<1>1. Tree!RemoveAt(KidsOf(heap)[a], k) = RemoveAt(KidsOf(heap)[a], k)
  BY DEF Tree!RemoveAt, RemoveAt
<1>2. KidsOf(heap') = Pruned([KidsOf(heap) EXCEPT ![a] = Tree!RemoveAt(@, k)],
                             Tree!Below(KidsOf(heap)[a][k]))
  BY <1>1, TreeTerms DEF TakenFrom
<1> QED BY <1>2 DEF Tree!Drop, Tree!Without, Pruned, KidsOf

\* An item of the caller's takes the place of a child, which goes with all below it.
LEMMA MapSwap ==
  ASSUME NEW a, NEW k, NEW i, held' = held \ {i}, lost' = lost,
         KidsOf(heap') = Pruned(Swapped(KidsOf(heap), a, k, i), BelowIn(KidsOf(heap), KidsOf(heap)[a][k])),
         a \notin BelowIn(KidsOf(heap), i)
  PROVE  Tree!Swap(a, k, i)
<1>1. Tree!ReplaceAt(KidsOf(heap)[a], k, i) = ReplaceAt(KidsOf(heap)[a], k, i)
  BY DEF Tree!ReplaceAt, ReplaceAt
<1>2. KidsOf(heap') = Pruned([KidsOf(heap) EXCEPT ![a] = Tree!ReplaceAt(@, k, i)],
                             Tree!Below(KidsOf(heap)[a][k]))
  BY <1>1, TreeTerms DEF Swapped
<1>3. a \notin Tree!Below(i)
  BY TreeTerms
<1> QED BY <1>2, <1>3 DEF Tree!Swap, Tree!Without, Pruned, KidsOf

\* An item of the caller's goes, with all below it.
LEMMA MapDestroy ==
  ASSUME NEW i, held' = held \ {i}, lost' = lost,
         KidsOf(heap') = Pruned(KidsOf(heap), BelowIn(KidsOf(heap), i))
  PROVE  Tree!Destroy(i)
<1>1. KidsOf(heap') = Pruned(KidsOf(heap), Tree!Below(i))
  BY TreeTerms
<1> QED BY <1>1 DEF Tree!Destroy, Tree!Without, Pruned, KidsOf

\* A new item is nobody's: the call that made it could not add it.
LEMMA MapLose ==
  ASSUME NEW i, lost' = lost \cup {i}, held' = held,
         i \notin DOMAIN KidsOf(heap), KidsOf(heap') = Beside(KidsOf(heap), i, <<>>)
  PROVE  Tree!Lose(i)
<1> DEFINE K == KidsOf(heap)
<1>1. Beside(K, i, <<>>) = [y \in DOMAIN K \cup {i} |-> IF y = i THEN <<>> ELSE K[y]]
  <2>1. ToSet(<<>>) = {}
    BY DEF ToSet
  <2> HIDE DEF K
  <2> QED BY <2>1 DEF Beside
<1>2. KidsOf(heap') = [y \in DOMAIN K \cup {i} |-> IF y = i THEN <<>> ELSE K[y]]
  BY <1>1
<1> QED BY <1>2 DEF Tree!Lose, Tree!With, KidsOf, K

\* K2 is K with one more item, the last child of a.
OneLast(K2, K, a, n) ==
  K2 = [y \in DOMAIN K \cup {n} |->
          IF y = n THEN <<>> ELSE IF y = a THEN Append(K[a], n) ELSE K[y]]

\* A new item that becomes the last child of another, as one change
LEMMA LastBeside ==
  ASSUME NEW K, TreeMap(K), NEW n \in Item, n \notin DOMAIN K, NEW a \in DOMAIN K
  PROVE  OneLast(PutIn(Beside(K, n, <<>>), a, Len(K[a]) + 1, n), K, a, n)
<1> DEFINE L == Beside(K, n, <<>>)
           s == K[a]
           P == PutIn(L, a, Len(s) + 1, n)
           D == DOMAIN K \cup {n}
<1>1. L = [y \in D |-> IF y = n THEN <<>> ELSE K[y]]
  <2>1. ToSet(<<>>) = {}
    BY DEF ToSet
  <2> QED BY <2>1 DEF Beside
<1>2. InsertAt(s, Len(s) + 1, n) = Append(s, n)
  <2>1. s \in Seq(Item)
    BY DEF TreeMap
  <2> HIDE DEF s
  <2> QED BY <2>1, InsertLast
<1> HIDE DEF L, s
<1>3. a \in D /\ a # n /\ L[a] = s
  BY <1>1 DEF s
<1>4. P = [L EXCEPT ![a] = Append(s, n)]
  <2>1. P = [L EXCEPT ![a] = InsertAt(s, Len(s) + 1, n)]
    BY <1>3 DEF PutIn
  <2> QED BY <2>1, <1>2
<1> HIDE DEF P
<1>5. P = [y \in D |-> IF y = n THEN <<>> ELSE IF y = a THEN Append(s, n) ELSE K[y]]
  BY <1>1, <1>3, <1>4
<1> QED BY <1>5 DEF P, L, s, OneLast

\* A new item becomes the last child.
LEMMA MapMakeLast ==
  ASSUME TreeMap(KidsOf(heap)), NEW n \in Item, n \notin DOMAIN KidsOf(heap), NEW a \in DOMAIN KidsOf(heap),
         UNCHANGED <<held, lost>>,
         KidsOf(heap') = PutIn(Beside(KidsOf(heap), n, <<>>), a, Len(KidsOf(heap)[a]) + 1, n)
  PROVE  Tree!MakeLast(a, n)
<1> DEFINE K == KidsOf(heap)
           K2 == KidsOf(heap')
           M == [K EXCEPT ![a] = Append(@, n)]
<1>1. K2 = [y \in DOMAIN K \cup {n} |-> IF y = n THEN <<>> ELSE IF y = a THEN Append(K[a], n) ELSE K[y]]
  <2>1. OneLast(PutIn(Beside(K, n, <<>>), a, Len(K[a]) + 1, n), K, a, n)
    <3>1. TreeMap(K) /\ n \notin DOMAIN K /\ a \in DOMAIN K
      OBVIOUS
    <3> HIDE DEF K
    <3> QED BY <3>1, LastBeside
  <2> QED BY <2>1 DEF OneLast
<1> HIDE DEF K2
<1>2. DOMAIN M = DOMAIN K /\ \A y \in DOMAIN K : M[y] = IF y = a THEN Append(K[a], n) ELSE K[y]
  <2>1. K = [y \in DOMAIN K |-> K[y]]
    BY DEF KidsOf
  <2> HIDE DEF K
  <2> QED BY <2>1
<1> HIDE DEF M
<1>3. K2 = [y \in DOMAIN M \cup {n} |-> IF y = n THEN <<>> ELSE M[y]]
  <2> HIDE DEF K
  <2> QED BY <1>1, <1>2
<1>4. K2 = Tree!With(M, n, <<>>)
  <2> HIDE DEF K
  <2> QED BY <1>3 DEF Tree!With
<1> QED BY <1>4 DEF Tree!MakeLast, M, K, K2, KidsOf

-------------------------------------------------------------------------------
(* The items still hang after each change of the tree.                         *)

\* The members of a list after an insertion, ...
LEMMA InsertSet ==
  ASSUME NEW s \in Seq(Item), NEW k \in 1..Len(s) + 1, NEW i \in Item
  PROVE  ToSet(InsertAt(s, k, i)) \subseteq ToSet(s) \cup {i}
<1> DEFINE t == InsertAt(s, k, i)
           n == Len(s)
<1>1. Inserted(t, s, k, i)
  BY InsertAtInserts
<1> HIDE DEF t
<1>2. /\ t \in Seq(Item) /\ Len(t) = n + 1
      /\ \A j \in 1..n + 1 : t[j] = IF j < k THEN s[j] ELSE IF j = k THEN i ELSE s[j-1]
  BY <1>1 DEF Inserted
<1>3. n \in Nat /\ k \in 1..n + 1
  OBVIOUS
<1>4. ASSUME NEW j \in 1..n + 1 PROVE t[j] \in ToSet(s) \cup {i}
  <2>1. CASE j = k
    BY <1>2, <2>1
  <2>2. CASE j < k
    <3>1. j \in 1..n /\ t[j] = s[j]
      BY <1>2, <1>3, <2>2
    <3> QED BY <3>1 DEF ToSet
  <2>3. CASE j > k
    <3>1. j - 1 \in 1..n /\ t[j] = s[j-1]
      BY <1>2, <1>3, <2>3
    <3> QED BY <3>1 DEF ToSet
  <2> QED BY <1>3, <2>1, <2>2, <2>3
<1>5. ToSet(t) = {t[j] : j \in 1..n + 1}
  BY SMTT(30), <1>2 DEF ToSet
<1> QED BY <1>4, <1>5 DEF t

\* ... after a removal, ...
LEMMA RemoveSet ==
  ASSUME NEW s \in Seq(Item), NEW k \in 1..Len(s)
  PROVE  ToSet(RemoveAt(s, k)) \subseteq ToSet(s)
<1> DEFINE t == RemoveAt(s, k)
           n == Len(s)
<1>1. Removed(t, s, k)
  BY RemoveAtRemoves
<1> HIDE DEF t
<1>2. /\ t \in Seq(Item) /\ Len(t) = n - 1
      /\ \A j \in 1..n - 1 : t[j] = IF j < k THEN s[j] ELSE s[j+1]
  BY <1>1 DEF Removed
<1>3. n \in Nat /\ k \in 1..n
  OBVIOUS
<1>4. ASSUME NEW j \in 1..n - 1 PROVE t[j] \in ToSet(s)
  <2>1. j \in 1..n /\ j + 1 \in 1..n
    BY <1>3
  <2>2. t[j] = s[j] \/ t[j] = s[j+1]
    BY <1>2
  <2> QED BY <2>1, <2>2 DEF ToSet
<1>5. ToSet(t) = {t[j] : j \in 1..n - 1}
  BY <1>2 DEF ToSet
<1> QED BY <1>4, <1>5 DEF t

\* ... and after an exchange
LEMMA ReplaceSet ==
  ASSUME NEW s \in Seq(Item), NEW k \in 1..Len(s), NEW i
  PROVE  ToSet(ReplaceAt(s, k, i)) \subseteq ToSet(s) \cup {i}
  BY DEF ReplaceAt, ToSet

\* An item may be put under one that is not below it.
LEMMA HangsPut ==
  ASSUME NEW K, TreeMap(K), Hangs(K), NEW a \in DOMAIN K, NEW i \in DOMAIN K, a \notin BelowIn(K, i),
         NEW k \in 1..Len(K[a]) + 1
  PROVE  Hangs(PutIn(K, a, k, i))
<1> DEFINE P == PutIn(K, a, k, i)
           s == K[a]
<1>1. s \in Seq(Item) /\ i \in Item
  BY DEF TreeMap
<1>2. ToSet(InsertAt(s, k, i)) \subseteq ToSet(s) \cup {i}
  <2>1. k \in 1..Len(s) + 1
    OBVIOUS
  <2> HIDE DEF s
  <2> QED BY <1>1, <2>1, InsertSet
<1>3. DOMAIN P = DOMAIN K /\ P[a] = InsertAt(s, k, i) /\ \A b \in DOMAIN K : b # a => P[b] = K[b]
  BY DEF PutIn
<1> HIDE DEF P
<1>4. \A b \in DOMAIN P : \A x \in ToSet(P[b]) : x \in ToSet(K[b]) \/ (b = a /\ x = i)
  BY <1>2, <1>3
<1>5. Hangs(P)
  BY <1>3, <1>4, HangsGrown
<1> QED BY <1>5 DEF P

\* So it may in the place of another.
LEMMA HangsSwapped ==
  ASSUME NEW K, TreeMap(K), Hangs(K), NEW a \in DOMAIN K, NEW i \in DOMAIN K, a \notin BelowIn(K, i),
         NEW k \in 1..Len(K[a])
  PROVE  Hangs(Swapped(K, a, k, i))
<1> DEFINE P == Swapped(K, a, k, i)
           s == K[a]
<1>1. s \in Seq(Item)
  BY DEF TreeMap
<1>2. ToSet(ReplaceAt(s, k, i)) \subseteq ToSet(s) \cup {i}
  <2>1. k \in 1..Len(s)
    OBVIOUS
  <2> HIDE DEF s
  <2> QED BY <1>1, <2>1, ReplaceSet
<1>3. DOMAIN P = DOMAIN K /\ P[a] = ReplaceAt(s, k, i) /\ \A b \in DOMAIN K : b # a => P[b] = K[b]
  BY DEF Swapped
<1> HIDE DEF P
<1>4. \A b \in DOMAIN P : \A x \in ToSet(P[b]) : x \in ToSet(K[b]) \/ (b = a /\ x = i)
  BY <1>2, <1>3
<1>5. Hangs(P)
  BY <1>3, <1>4, HangsGrown
<1> QED BY <1>5 DEF P

\* Fewer children: what hung still hangs.
LEMMA HangsTaken ==
  ASSUME NEW K, TreeMap(K), Hangs(K), NEW a \in DOMAIN K, NEW k \in 1..Len(K[a])
  PROVE  Hangs(TakenFrom(K, a, k))
<1> DEFINE P == TakenFrom(K, a, k)
           s == K[a]
<1>1. s \in Seq(Item)
  BY DEF TreeMap
<1>2. ToSet(RemoveAt(s, k)) \subseteq ToSet(s)
  <2>1. k \in 1..Len(s)
    OBVIOUS
  <2> HIDE DEF s
  <2> QED BY <1>1, <2>1, RemoveSet
<1>3. DOMAIN P = DOMAIN K /\ P[a] = RemoveAt(s, k) /\ \A b \in DOMAIN K : b # a => P[b] = K[b]
  BY DEF TakenFrom
<1> HIDE DEF P
<1>4. \A b \in DOMAIN P : ToSet(P[b]) \subseteq ToSet(K[b])
  BY <1>2, <1>3
<1>5. Hangs(P)
  BY <1>3, <1>4, HangsLess
<1> QED BY <1>5 DEF P

\* Fewer items: what hung still hangs.
LEMMA HangsPruned ==
  ASSUME NEW K, Hangs(K), NEW D PROVE Hangs(Pruned(K, D))
<1> DEFINE P == Pruned(K, D)
<1>1. DOMAIN P \subseteq DOMAIN K /\ \A b \in DOMAIN P : P[b] = K[b]
  BY DEF Pruned
<1> HIDE DEF P
<1>2. Hangs(P)
  BY <1>1, HangsLess
<1> QED BY <1>2 DEF P

\* New items have none below them but new leaves.
LEMMA HangsBeside ==
  ASSUME NEW K, Hangs(K), NEW a, NEW s, Apart(K, a, s) PROVE Hangs(Beside(K, a, s))
<1> DEFINE L == Beside(K, a, s)
<1>1. ApartFacts(K, a, s, L)
  BY ApartTree
<1> HIDE DEF L
<1>2. TreeMap(K) /\ a \notin DOMAIN K /\ a \notin ToSet(s) /\ ToSet(s) \cap DOMAIN K = {}
  BY DEF Apart
<1>3. ToSet(<<>>) = {}
  BY DEF ToSet
<1>4. /\ DOMAIN K \subseteq DOMAIN L /\ L[a] = s /\ \A x \in DOMAIN K : L[x] = K[x]
      /\ \A x \in DOMAIN L \ DOMAIN K : x # a => ToSet(L[x]) = {}
  BY <1>1, <1>3 DEF ApartFacts
<1>5. a \notin ToSet(L[a]) /\ ToSet(L[a]) \cap DOMAIN K = {}
  BY <1>2, <1>4
<1>6. Hangs(L)
  BY <1>2, <1>4, <1>5, HangsNew
<1> QED BY <1>6 DEF L

\* A new item may be put under any other.
LEMMA HangsLast ==
  ASSUME NEW K, Hangs(K), NEW n, Apart(K, n, <<>>), NEW a \in DOMAIN K
  PROVE  Hangs(PutIn(Beside(K, n, <<>>), a, Len(K[a]) + 1, n))
<1> DEFINE L == Beside(K, n, <<>>)
<1>1. ApartFacts(K, n, <<>>, L)
  BY ApartTree
<1>2. Hangs(L)
  BY HangsBeside
<1> HIDE DEF L
<1>3. TreeMap(K) /\ n \notin DOMAIN K
  BY DEF Apart
<1>4. ToSet(<<>>) = {}
  BY DEF ToSet
<1>5. TreeMap(L) /\ n \in DOMAIN L /\ a \in DOMAIN L /\ L[a] = K[a] /\ L[n] = <<>> /\ a # n
  BY <1>1, <1>3 DEF ApartFacts
<1>6. KidsStay(L, {n}) /\ {n} \in SUBSET DOMAIN L
  BY <1>4, <1>5 DEF KidsStay
<1>7. BelowIn(L, n) \subseteq {n}
  BY <1>5, <1>6, BelowLeast
<1>8. Len(L[a]) + 1 \in 1..Len(L[a]) + 1
  <2>1. L[a] \in Seq(Item)
    BY <1>5 DEF TreeMap
  <2> QED BY <2>1
<1>9. Hangs(PutIn(L, a, Len(L[a]) + 1, n))
  BY <1>2, <1>5, <1>7, <1>8, HangsPut
<1> QED BY <1>5, <1>9 DEF L

-------------------------------------------------------------------------------
(* A change of the tree is a step of CJSONTree.                                *)

\* The step is one of CJSONTree or a stutter, and after it no item is below itself.
TreeStep == [Tree!Next]_(Tree!tvars) /\ Hangs(KidsOf(heap'))

\* What the invariant says of the tree of the heap
LEMMA TreeFacts ==
  ASSUME Owners
  PROVE  /\ TreeMap(KidsOf(heap)) /\ IsMap(KidsOf(heap)) /\ DOMAIN KidsOf(heap) = heap.live
         /\ \A a \in Lists : KidsOf(heap)[a] = Children(heap, a) /\ a \in heap.live
         /\ held \subseteq heap.live /\ heap.live \subseteq Item
<1>1. Sound(heap, held \cup lost)
  BY DEF Owners
<1>2. \A a \in Lists : a \in ListsOf(heap)
  BY DEF Lists, ListsOf
<1>3. IsMap(KidsOf(heap))
  BY DEF IsMap, KidsOf
<1>4. heap.live \subseteq Item
  BY <1>1, HeapFields DEF Sound
<1>5. held \subseteq heap.live
  BY <1>1, SoundKids
<1>6. DOMAIN KidsOf(heap) = heap.live /\ TreeMap(KidsOf(heap))
      /\ \A a \in ListsOf(heap) : a \in heap.live /\ KidsOf(heap)[a] = Children(heap, a)
  BY <1>1, SoundKids
<1> QED BY <1>2, <1>3, <1>4, <1>5, <1>6

\* A call that leaves the tree and the owners as they are is a stutter.
LEMMA StepStill ==
  ASSUME Hangs(KidsOf(heap)), KidsOf(heap') = KidsOf(heap), UNCHANGED <<held, lost>>
  PROVE  TreeStep
<1>1. UNCHANGED Tree!tvars
  BY DEF Tree!tvars, KidsOf
<1> QED BY <1>1 DEF TreeStep

\* A call that gives an item away, to be the k-th child of a
LEMMA StepGive ==
  ASSUME Owners, Hangs(KidsOf(heap)), NEW a \in Lists, NEW i \in held,
         NEW k \in 1..Len(Children(heap, a)) + 1, a \notin BelowIn(KidsOf(heap), i),
         held' = held \ {i}, lost' = lost, KidsOf(heap') = PutIn(KidsOf(heap), a, k, i)
  PROVE  TreeStep
<1> DEFINE K == KidsOf(heap)
<1>1. /\ TreeMap(K) /\ DOMAIN K = heap.live /\ K[a] = Children(heap, a)
      /\ a \in DOMAIN K /\ i \in DOMAIN K
  BY TreeFacts
<1>2. Tree!Give(a, k, i)
  BY MapGive
<1>3. a \in Tree!Exists
  BY <1>1, TreeTerms
<1>4. \E j \in 1..Len(K[a]) + 1 : Tree!Give(a, j, i)
  BY <1>1, <1>2
<1>5. Tree!Next
  BY <1>3, <1>4 DEF Tree!Next, KidsOf
<1> HIDE DEF K
<1>6. k \in 1..Len(K[a]) + 1
  BY <1>1
<1>7. Hangs(PutIn(K, a, k, i))
  BY <1>1, <1>6, HangsPut DEF K
<1> QED BY <1>5, <1>7 DEF TreeStep, K

\* A call that takes a child out of its list, for the caller
LEMMA StepTake ==
  ASSUME Owners, Hangs(KidsOf(heap)), NEW a \in Lists, NEW i, Took(heap, heap', a, i),
         held' = held \cup {i}, lost' = lost
  PROVE  TreeStep
<1> DEFINE K == KidsOf(heap)
<1>1. TreeMap(K) /\ DOMAIN K = heap.live /\ K[a] = Children(heap, a) /\ a \in DOMAIN K
  BY TreeFacts
<1>2. PICK k \in 1..Len(K[a]) : i = K[a][k] /\ KidsOf(heap') = TakenFrom(K, a, k)
  BY <1>1 DEF Took
<1>3. Tree!Take(a, k)
  BY <1>2, MapTake
<1>4. a \in Tree!Exists
  BY <1>1, TreeTerms
<1>5. Tree!Next
  <2>1. \E j \in 1..Len(K[a]) : Tree!Take(a, j)
    BY <1>2, <1>3
  <2> QED BY <2>1, <1>4 DEF Tree!Next, KidsOf
<1> HIDE DEF K
<1>6. Hangs(TakenFrom(K, a, k))
  BY <1>1, HangsTaken DEF K
<1> QED BY <1>2, <1>5, <1>6 DEF TreeStep

\* A call that deletes a child
LEMMA StepDrop ==
  ASSUME Owners, Hangs(KidsOf(heap)), NEW a \in Lists, Dropped(heap, heap', a),
         UNCHANGED <<held, lost>>
  PROVE  TreeStep
<1> DEFINE K == KidsOf(heap)
<1>1. TreeMap(K) /\ DOMAIN K = heap.live /\ K[a] = Children(heap, a) /\ a \in DOMAIN K
  BY TreeFacts
<1>2. PICK k \in 1..Len(K[a]) : KidsOf(heap') = Pruned(TakenFrom(K, a, k), BelowIn(K, K[a][k]))
  BY <1>1 DEF Dropped
<1>3. Tree!Drop(a, k)
  BY <1>2, MapDrop
<1>4. a \in Tree!Exists
  BY <1>1, TreeTerms
<1>5. Tree!Next
  <2>1. \E j \in 1..Len(K[a]) : Tree!Drop(a, j)
    BY <1>2, <1>3
  <2> QED BY <2>1, <1>4 DEF Tree!Next, KidsOf
<1> HIDE DEF K
<1>6. Hangs(TakenFrom(K, a, k))
  BY <1>1, HangsTaken DEF K
<1>7. Hangs(Pruned(TakenFrom(K, a, k), BelowIn(K, K[a][k])))
  BY <1>6, HangsPruned
<1> QED BY <1>2, <1>5, <1>7 DEF TreeStep

\* A call that exchanges a child for an item of the caller's
LEMMA StepSwap ==
  ASSUME Owners, Hangs(KidsOf(heap)), NEW a \in Lists, NEW i \in held, Exchanged(heap, heap', a, i),
         a \notin BelowIn(KidsOf(heap), i), held' = held \ {i}, lost' = lost
  PROVE  TreeStep
<1> DEFINE K == KidsOf(heap)
<1>1. /\ TreeMap(K) /\ DOMAIN K = heap.live /\ K[a] = Children(heap, a) /\ a \in DOMAIN K
      /\ i \in DOMAIN K
  BY TreeFacts
<1>2. PICK k \in 1..Len(K[a]) : KidsOf(heap') = Pruned(Swapped(K, a, k, i), BelowIn(K, K[a][k]))
  BY <1>1 DEF Exchanged
<1>3. Tree!Swap(a, k, i)
  BY <1>2, MapSwap
<1>4. a \in Tree!Exists
  BY <1>1, TreeTerms
<1>5. Tree!Next
  <2>1. \E j \in 1..Len(K[a]) : Tree!Swap(a, j, i)
    BY <1>2, <1>3
  <2> QED BY <2>1, <1>4 DEF Tree!Next, KidsOf
<1> HIDE DEF K
<1>6. Hangs(Swapped(K, a, k, i))
  BY <1>1, HangsSwapped DEF K
<1>7. Hangs(Pruned(Swapped(K, a, k, i), BelowIn(K, K[a][k])))
  BY <1>6, HangsPruned
<1> QED BY <1>2, <1>5, <1>7 DEF TreeStep

\* A call that deletes an item of the caller's
LEMMA StepDestroy ==
  ASSUME Owners, Hangs(KidsOf(heap)), NEW i \in held, held' = held \ {i}, lost' = lost,
         KidsOf(heap') = Pruned(KidsOf(heap), BelowIn(KidsOf(heap), i))
  PROVE  TreeStep
<1>1. Tree!Destroy(i)
  BY MapDestroy
<1>2. Tree!Next
  BY <1>1 DEF Tree!Next
<1>3. Hangs(KidsOf(heap'))
  BY HangsPruned
<1> QED BY <1>2, <1>3 DEF TreeStep

\* The items that come into being
LEMMA BesideNew ==
  ASSUME NEW i, NEW s, Apart(KidsOf(heap), i, s), KidsOf(heap') = Beside(KidsOf(heap), i, s)
  PROVE  i \in Tree!New /\ ToSet(s) \subseteq Tree!New \ {i}
<1> DEFINE K == KidsOf(heap)
           L == Beside(K, i, s)
<1>1. ApartFacts(K, i, s, L)
  BY ApartTree
<1>2. i \notin DOMAIN K /\ i \notin ToSet(s) /\ ToSet(s) \cap DOMAIN K = {}
  BY DEF Apart
<1>3. Tree!New = DOMAIN L \ DOMAIN K
  BY TreeTerms
<1> HIDE DEF L, K
<1> QED BY <1>1, <1>2, <1>3 DEF ApartFacts

\* A call that makes an item, with leaves or none
LEMMA StepMake ==
  ASSUME Owners, Hangs(KidsOf(heap)), NEW i, NEW s, Arrayed(heap, heap', i, s), IsInjective(s),
         held' = held \cup {i}, lost' = lost
  PROVE  TreeStep
<1>1. Apart(KidsOf(heap), i, s) /\ KidsOf(heap') = Beside(KidsOf(heap), i, s)
  BY DEF Arrayed
<1>2. Tree!Make(i, s)
  BY <1>1, MapMake
<1>3. i \in Tree!New
  BY <1>1, BesideNew
<1>4. KidsOf(heap')[i] = s
  <2>1. ApartFacts(KidsOf(heap), i, s, Beside(KidsOf(heap), i, s))
    BY <1>1, ApartTree
  <2> QED BY <2>1, <1>1 DEF ApartFacts
<1>5. Tree!Make(i, KidsOf(heap')[i])
  BY <1>2, <1>4 DEF Tree!Make
<1>6. Tree!Next
  BY <1>3, <1>5 DEF Tree!Next, KidsOf
<1>7. Hangs(KidsOf(heap'))
  BY <1>1, HangsBeside
<1> QED BY <1>6, <1>7 DEF TreeStep

\* A call that makes an item and can neither add nor delete it
LEMMA StepLose ==
  ASSUME Hangs(KidsOf(heap)), NEW n, Apart(KidsOf(heap), n, <<>>),
         KidsOf(heap') = Beside(KidsOf(heap), n, <<>>), lost' = lost \cup {n}, held' = held
  PROVE  TreeStep
<1>1. n \notin DOMAIN KidsOf(heap)
  BY DEF Apart
<1>2. Tree!Lose(n)
  BY <1>1, MapLose
<1>3. n \in Tree!New
  BY BesideNew
<1>4. Tree!Next
  BY <1>2, <1>3 DEF Tree!Next
<1>5. Hangs(KidsOf(heap'))
  BY HangsBeside
<1> QED BY <1>4, <1>5 DEF TreeStep

\* A call that makes an item and adds it
LEMMA StepMakeLast ==
  ASSUME Owners, Hangs(KidsOf(heap)), NEW a \in Lists, NEW n \in Item, Apart(KidsOf(heap), n, <<>>),
         NewLast(heap, heap', a, n), UNCHANGED <<held, lost>>
  PROVE  TreeStep
<1> DEFINE K == KidsOf(heap)
           L == Beside(K, n, <<>>)
           P == PutIn(L, a, Len(K[a]) + 1, n)
<1>1. TreeMap(K) /\ DOMAIN K = heap.live /\ K[a] = Children(heap, a) /\ a \in DOMAIN K
  BY TreeFacts
<1>2. n \notin DOMAIN K
  BY DEF Apart
<1>3. KidsOf(heap') = P
  BY <1>1 DEF NewLast
<1>4. Tree!MakeLast(a, n)
  BY <1>1, <1>2, <1>3, MapMakeLast
<1>5. a \in Tree!Exists
  BY <1>1, TreeTerms
<1>6. n \in Tree!New
  <2>1. DOMAIN P = DOMAIN L
    BY DEF PutIn
  <2>2. n \in DOMAIN L
    BY DEF Beside
  <2> HIDE DEF P, L, K
  <2>3. n \in DOMAIN KidsOf(heap')
    BY <1>3, <2>1, <2>2
  <2> QED BY <2>3, <1>2, TreeTerms DEF K
<1>7. Tree!Next
  BY <1>4, <1>5, <1>6 DEF Tree!Next
<1> HIDE DEF K
<1>8. Apart(K, n, <<>>) /\ Hangs(K)
  BY DEF K
<1>9. Hangs(PutIn(Beside(K, n, <<>>), a, Len(K[a]) + 1, n))
  BY <1>1, <1>8, HangsLast
<1> QED BY <1>3, <1>7, <1>9 DEF TreeStep, P, L

-------------------------------------------------------------------------------
(* Every call is a step of CJSONTree, or leaves the tree as it is.             *)

\* What the invariant says of the lists and of the items a caller may add
LEMMA OwnersFacts ==
  ASSUME Owners
  PROVE  /\ Sound(heap, held \cup lost) /\ held \subseteq held \cup lost
         /\ \A a \in Lists : a \in ListsOf(heap) /\ a \in heap.live
         /\ \A a, i : MayAdd(a, i) /\ a # i => i \in held /\ a \notin BelowIn(KidsOf(heap), i)
<1>1. Sound(heap, held \cup lost)
  BY DEF Owners
<1>2. \A a \in Lists : a \in ListsOf(heap) /\ a \in heap.live
  BY DEF Lists, ListsOf
<1>3. ASSUME NEW a, NEW i, MayAdd(a, i), a # i PROVE i \in held /\ a \notin BelowIn(KidsOf(heap), i)
  <2>1. i \in held /\ a \notin Doomed(heap, i)
    BY <1>3 DEF MayAdd
  <2>2. i \in held \cup lost
    BY <2>1
  <2>3. Doomed(heap, i) = BelowIn(KidsOf(heap), i)
    BY <1>1, <2>2, DestroyKids
  <2> QED BY <2>1, <2>3
<1> QED BY <1>1, <1>2, <1>3

\* A call that was refused changes nothing.
LEMMA GivesNothing ==
  ASSUME Hangs(KidsOf(heap)), NEW i, NEW answer, Gives(i, answer), answer.r = FALSE,
         KidsOf(answer.h) = KidsOf(heap)
  PROVE  TreeStep
<1>1. heap' = answer.h /\ held' = held /\ lost' = lost
  BY DEF Gives, Becomes
<1> QED BY <1>1, StepStill

\* When a call takes an item, the caller holds it no longer.
LEMMA GivesTakes ==
  ASSUME NEW i, NEW answer, Gives(i, answer), answer.r = TRUE
  PROVE  heap' = answer.h /\ held' = held \ {i} /\ lost' = lost
  BY DEF Gives, Becomes

\* A call that answers NULL and leaves the tree alone is a stutter.
LEMMA GetsNothing ==
  ASSUME Hangs(KidsOf(heap)), NEW answer, Gets(answer), answer.r = NULL,
         KidsOf(answer.h) = KidsOf(heap)
  PROVE  TreeStep
<1>1. heap' = answer.h /\ held' = held /\ lost' = lost
  BY DEF Gets, Becomes
<1> QED BY <1>1, StepStill

\* When a call answers an item, the caller holds it.
LEMMA GetsItem ==
  ASSUME NEW answer, Gets(answer), answer.r # NULL
  PROVE  heap' = answer.h /\ held' = held \cup {answer.r} /\ lost' = lost
<1>1. {answer.r} \ {NULL} = {answer.r}
  OBVIOUS
<1> QED BY <1>1 DEF Gets, Becomes

\* Each call of the library is one of these steps: cJSON_Create*.
LEMMA CreateSteps ==
  ASSUME Owners, Hangs(KidsOf(heap)), NEW n \in Fresh, Create(n) PROVE TreeStep
<1> DEFINE g == cJSON_New_Item(heap, n)
           answer == Answer(g, n)
           R == held \cup lost
<1>1. Sound(heap, R)
  BY OwnersFacts
<1>2. n \in Ptr /\ n \notin heap.live
  BY FreshGives
<1>3. Gets(answer)
  BY DEF Create
<1>4. answer.h = g /\ answer.r = n
  BY DEF Answer
<1> HIDE DEF answer
<1>5. CASE n = NULL
  <2>1. g = heap
    BY <1>5 DEF cJSON_New_Item
  <2> QED BY <2>1, <1>3, <1>4, <1>5, GetsNothing
<1>6. CASE n # NULL
  <2>1. n \in Item
    BY <1>2, <1>6 DEF Ptr
  <2> DEFINE R2 == R \cup {n}
  <2>2. Sound(g, R2)
    <3> HIDE DEF R
    <3> QED BY <1>1, <1>2, <2>1, NewSound
  <2>3. KidsOf(g) = Beside(KidsOf(heap), n, <<>>)
    <3> HIDE DEF R
    <3> QED BY <1>1, <1>2, <2>1, NewKids
  <2> HIDE DEF g, R, R2
  <2>4. Apart(KidsOf(heap), n, <<>>)
    BY <1>1, <1>2, <2>1, <2>2, <2>3, BesideLists
  <2>5. heap' = g /\ held' = held \cup {n} /\ lost' = lost
    BY <1>3, <1>4, <1>6, GetsItem
  <2>6. Arrayed(heap, heap', n, <<>>)
    BY <2>1, <2>3, <2>4, <2>5 DEF Arrayed
  <2>7. IsInjective(<<>>)
    BY DEF IsInjective
  <2> QED BY <2>5, <2>6, <2>7, StepMake
<1> QED BY <1>5, <1>6

\* cJSON_CreateIntArray and its like
LEMMA CreateXArraySteps ==
  ASSUME Owners, Hangs(KidsOf(heap)), NEW r \in Rows, CreateXArray(Head(r), Tail(r)) PROVE TreeStep
<1> DEFINE a == Head(r)
           s == Tail(r)
           answer == CreateArray(heap, a, s)
           R == held \cup lost
<1>1. Sound(heap, R) /\ Granted(heap, a, s)
  BY RowsGrant, OwnersFacts
<1>2. Gets(answer)
  BY DEF CreateXArray
<1> HIDE DEF a, s, R
<1>3. \/ answer.r = NULL /\ KidsOf(answer.h) = KidsOf(heap)
      \/ answer.r = a /\ a # NULL /\ Arrayed(heap, answer.h, a, s)
  BY <1>1, CreateKids
<1> HIDE DEF answer
<1>4. CASE answer.r = NULL /\ KidsOf(answer.h) = KidsOf(heap)
  BY <1>2, <1>4, GetsNothing
<1>5. CASE answer.r = a /\ a # NULL /\ Arrayed(heap, answer.h, a, s)
  <2>1. heap' = answer.h /\ held' = held \cup {a} /\ lost' = lost
    BY <1>2, <1>5, GetsItem
  <2>2. Arrayed(heap, heap', a, s)
    BY <1>5, <2>1
  <2>3. s \in Seq(Item)
    BY <1>5 DEF Arrayed, Apart
  <2>4. DOMAIN s = 1..Len(s) /\ \A k \in 1..Len(s) : s[k] \in Item
    BY <2>3
  <2>5. \A k \in 1..Len(s) : s[k] # NULL
    BY <2>4, NullIsNothing
  <2>6. IsInjective(s)
    BY <1>1, <2>4, <2>5 DEF Granted, IsInjective
  <2> QED BY <2>1, <2>2, <2>6, StepMake
<1> QED BY <1>3, <1>4, <1>5

\* cJSON_Delete
LEMMA DeleteSteps ==
  ASSUME Owners, Hangs(KidsOf(heap)), NEW i \in held, Delete(i) PROVE TreeStep
<1>1. Sound(heap, held \cup lost) /\ i \in held \cup lost
  BY OwnersFacts
<1>2. KidsOf(cJSON_Delete(heap, i)) = Pruned(KidsOf(heap), BelowIn(KidsOf(heap), i))
  BY <1>1, DestroyKids
<1>3. heap' = cJSON_Delete(heap, i) /\ held' = held \ {i} /\ lost' = lost
  BY DEF Delete, Becomes
<1> QED BY <1>2, <1>3, StepDestroy

\* An item that was added at place k is in the list and no longer the caller's.
LEMMA AddedSteps ==
  ASSUME Owners, Hangs(KidsOf(heap)), NEW a \in Lists, NEW i, MayAdd(a, i), a # i,
         NEW answer, Gives(i, answer), answer.r = TRUE, NEW k \in 1..Len(Children(heap, a)) + 1,
         KidsOf(answer.h) = PutIn(KidsOf(heap), a, k, i)
  PROVE  TreeStep
<1>1. i \in held /\ a \notin BelowIn(KidsOf(heap), i)
  BY OwnersFacts
<1>2. heap' = answer.h /\ held' = held \ {i} /\ lost' = lost
  BY GivesTakes
<1> QED BY <1>1, <1>2, StepGive

\* The place behind the last child
LEMMA LastPlace ==
  ASSUME NEW h, NEW R, Sound(h, R), NEW a \in ListsOf(h)
  PROVE  Len(Children(h, a)) + 1 \in 1..Len(Children(h, a)) + 1
<1>1. Children(h, a) \in Seq(Item)
  BY SoundKids
<1> QED BY <1>1

\* cJSON_AddItemToArray
LEMMA AddItemToArraySteps ==
  ASSUME Owners, Hangs(KidsOf(heap)), NEW a \in Lists, NEW i \in held, AddItemToArray(a, i)
  PROVE  TreeStep
<1> DEFINE R == held \cup lost
           answer == add_item_to_array(heap, a, i)
<1>1. Sound(heap, R) /\ i \in R /\ a \in ListsOf(heap)
  BY OwnersFacts
<1>2. Gives(i, answer) /\ MayAdd(a, i)
  BY DEF AddItemToArray
<1> HIDE DEF R
<1>3. CASE a = i
  <2>1. answer = Answer(heap, FALSE)
    BY <1>3 DEF add_item_to_array
  <2> HIDE DEF answer
  <2>2. answer.h = heap /\ answer.r = FALSE
    BY <2>1 DEF Answer
  <2> QED BY <2>2, <1>2, GivesNothing
<1>4. CASE a # i
  <2>1. answer.r = TRUE
    BY <1>1, <1>4, AddSound
  <2>2. KidsOf(answer.h) = PutIn(KidsOf(heap), a, Len(Children(heap, a)) + 1, i)
    BY <1>1, <1>4, AddKids
  <2>3. Len(Children(heap, a)) + 1 \in 1..Len(Children(heap, a)) + 1
    BY <1>1, LastPlace
  <2> HIDE DEF answer
  <2> QED BY <2>1, <2>2, <2>3, <1>2, <1>4, AddedSteps
<1> QED BY <1>3, <1>4

\* cJSON_AddItemToObject, cJSON_AddItemToObjectCS
LEMMA AddItemToObjectSteps ==
  ASSUME Owners, Hangs(KidsOf(heap)), NEW a \in Lists, NEW i \in held, NEW name \in Name,
         NEW constant_key \in BOOLEAN, NEW copy \in BOOLEAN,
         AddItemToObject(a, name, i, constant_key, copy)
  PROVE  TreeStep
<1> DEFINE R == held \cup lost
           answer == add_item_to_object(heap, a, name, i, constant_key, copy)
<1>1. Sound(heap, R) /\ i \in R /\ a \in ListsOf(heap) /\ name \in Key
  BY OwnersFacts DEF Name
<1>2. Gives(i, answer) /\ MayAdd(a, i)
  BY DEF AddItemToObject
<1> HIDE DEF R
<1>3. CASE a = i \/ (~constant_key /\ ~copy)
  <2>1. answer = Answer(heap, FALSE)
    BY <1>3, AddNamedFails
  <2> HIDE DEF answer
  <2>2. answer.h = heap /\ answer.r = FALSE
    BY <2>1 DEF Answer
  <2> QED BY <2>2, <1>2, GivesNothing
<1>4. CASE a # i /\ (constant_key \/ copy)
  <2>1. Nameable(constant_key, copy) /\ a # i
    BY <1>4 DEF Nameable
  <2>2. answer.r = TRUE
    BY <1>1, <2>1, AddNamedSound
  <2>3. KidsOf(answer.h) = PutIn(KidsOf(heap), a, Len(Children(heap, a)) + 1, i)
    BY <1>1, <2>1, AddNamedKids
  <2>4. Len(Children(heap, a)) + 1 \in 1..Len(Children(heap, a)) + 1
    BY <1>1, LastPlace
  <2> HIDE DEF answer
  <2> QED BY <2>1, <2>2, <2>3, <2>4, <1>2, AddedSteps
<1> QED BY <1>3, <1>4

\* cJSON_InsertItemInArray
LEMMA InsertSteps ==
  ASSUME Owners, Hangs(KidsOf(heap)), NEW a \in Lists, NEW i \in held,
         NEW which \in 0..Len(Children(heap, a)), InsertItemInArray(a, which, i)
  PROVE  TreeStep
<1> DEFINE R == held \cup lost
           answer == cJSON_InsertItemInArray(heap, a, which, i)
<1>1. Sound(heap, R) /\ i \in R /\ a \in ListsOf(heap)
  BY OwnersFacts
<1>2. Gives(i, answer) /\ MayAdd(a, i) /\ a # i
  BY DEF InsertItemInArray
<1> HIDE DEF R
<1>3. answer.r = TRUE
  BY <1>1, <1>2, InsertSound
<1>4. KidsOf(answer.h) = PutIn(KidsOf(heap), a, which + 1, i)
  BY <1>1, <1>2, InsertKids
<1>5. which + 1 \in 1..Len(Children(heap, a)) + 1
  <2>1. Children(heap, a) \in Seq(Item)
    BY <1>1, SoundKids
  <2> QED BY <2>1
<1> HIDE DEF answer
<1> QED BY <1>2, <1>3, <1>4, <1>5, AddedSteps

\* A call that replaces, whether or not it found a child to replace
LEMMA ReplacedSteps ==
  ASSUME Owners, Hangs(KidsOf(heap)), NEW a \in Lists, NEW i, MayAdd(a, i), a # i,
         NEW answer, Gives(i, answer),
         \/ answer.r = FALSE /\ KidsOf(answer.h) = KidsOf(heap)
         \/ answer.r = TRUE /\ Exchanged(heap, answer.h, a, i)
  PROVE  TreeStep
<1>1. i \in held /\ a \notin BelowIn(KidsOf(heap), i)
  BY OwnersFacts
<1>2. CASE answer.r = FALSE /\ KidsOf(answer.h) = KidsOf(heap)
  BY <1>2, GivesNothing
<1>3. CASE answer.r = TRUE /\ Exchanged(heap, answer.h, a, i)
  <2>1. heap' = answer.h /\ held' = held \ {i} /\ lost' = lost
    BY <1>3, GivesTakes
  <2> QED BY <1>1, <1>3, <2>1, StepSwap
<1> QED BY <1>2, <1>3

\* cJSON_ReplaceItemInArray
LEMMA ReplaceInArraySteps ==
  ASSUME Owners, Hangs(KidsOf(heap)), NEW a \in Lists, NEW i \in held,
         NEW which \in 0..Len(Children(heap, a)), ReplaceItemInArray(a, which, i)
  PROVE  TreeStep
<1> DEFINE R == held \cup lost
           hit == get_array_item(heap, a, which)
           answer == cJSON_ReplaceItemViaPointer(heap, a, hit, i)
<1>1. Sound(heap, R) /\ i \in R /\ a \in ListsOf(heap)
  BY OwnersFacts
<1>2. Gives(i, answer) /\ MayAdd(a, i) /\ a # i
  BY DEF ReplaceItemInArray
<1> HIDE DEF R
<1>3. hit \in ToSet(Children(heap, a)) \cup {NULL}
  BY <1>1, IndexAnswers
<1> HIDE DEF hit
<1>4. \/ answer.r = FALSE /\ KidsOf(answer.h) = KidsOf(heap)
      \/ answer.r = TRUE /\ Exchanged(heap, answer.h, a, i)
  BY <1>1, <1>2, <1>3, ReplaceFoundKids
<1> HIDE DEF answer
<1> QED BY <1>2, <1>4, ReplacedSteps

\* cJSON_ReplaceItemInObject and its CaseSensitive form
LEMMA ReplaceInObjectSteps ==
  ASSUME Owners, Hangs(KidsOf(heap)), NEW a \in Lists, NEW i \in held, NEW name \in Name,
         NEW sensitive \in BOOLEAN, NEW copy \in BOOLEAN,
         ReplaceItemInObject(a, name, i, sensitive, copy)
  PROVE  TreeStep
<1> DEFINE R == held \cup lost
           answer == replace_item_in_object(heap, a, name, i, sensitive, copy)
<1>1. Sound(heap, R) /\ i \in R /\ a \in ListsOf(heap) /\ name \in Key
  BY OwnersFacts DEF Name
<1>2. Gives(i, answer) /\ MayAdd(a, i) /\ a # i
  BY DEF ReplaceItemInObject
<1> HIDE DEF R
<1>3. \/ answer.r = FALSE /\ KidsOf(answer.h) = KidsOf(heap)
      \/ answer.r = TRUE /\ Exchanged(heap, answer.h, a, i)
  BY <1>1, <1>2, ReplaceNamedKids
<1> HIDE DEF answer
<1> QED BY <1>2, <1>3, ReplacedSteps

\* The calls that detach an item
LEMMA DetachSteps ==
  ASSUME Owners, Hangs(KidsOf(heap)), NEW a \in Lists,
         NEW i, i \in ToSet(Children(heap, a)) \cup {NULL} \/ i \in held,
         Gets(cJSON_DetachItemViaPointer(heap, a, i))
  PROVE  TreeStep
<1> DEFINE R == held \cup lost
           answer == cJSON_DetachItemViaPointer(heap, a, i)
<1>1. Sound(heap, R) /\ a \in ListsOf(heap) /\ i \in ToSet(Children(heap, a)) \cup {NULL} \cup R
  BY OwnersFacts
<1> HIDE DEF R
<1>2. \/ answer.r = NULL /\ answer.h = heap
      \/ answer.r = i /\ i # NULL /\ Took(heap, answer.h, a, i)
  BY <1>1, DetachFoundKids
<1>3. Gets(answer)
  OBVIOUS
<1> HIDE DEF answer
<1>4. CASE answer.r = NULL /\ answer.h = heap
  BY <1>3, <1>4, GetsNothing
<1>5. CASE answer.r = i /\ i # NULL /\ Took(heap, answer.h, a, i)
  <2>1. heap' = answer.h /\ held' = held \cup {i} /\ lost' = lost
    BY <1>3, <1>5, GetsItem
  <2> QED BY <1>5, <2>1, StepTake
<1> QED BY <1>2, <1>4, <1>5

\* cJSON_DeleteItemFromArray and its like
LEMMA DeleteFromArraySteps ==
  ASSUME Owners, Hangs(KidsOf(heap)), NEW a \in Lists, NEW which \in 0..Len(Children(heap, a)),
         DeleteItemFromArray(a, which)
  PROVE  TreeStep
<1> DEFINE R == held \cup lost
           hit == get_array_item(heap, a, which)
           detached == cJSON_DetachItemViaPointer(heap, a, hit)
           g == cJSON_Delete(detached.h, detached.r)
<1>1. Sound(heap, R) /\ a \in ListsOf(heap)
  BY OwnersFacts
<1>2. heap' = g /\ UNCHANGED <<held, lost>>
  BY DEF DeleteItemFromArray, Becomes
<1> HIDE DEF R
<1>3. hit \in ToSet(Children(heap, a)) \cup {NULL}
  BY <1>1, IndexAnswers
<1> HIDE DEF hit
<1>4. KidsOf(g) = KidsOf(heap) \/ Dropped(heap, g, a)
  BY <1>1, <1>3, DeleteFoundKids
<1> HIDE DEF g
<1> QED BY <1>2, <1>4, StepStill, StepDrop

\* cJSON_AddNullToObject and its like
LEMMA AddXToObjectSteps ==
  ASSUME Owners, Hangs(KidsOf(heap)), NEW a \in Lists, NEW n \in Fresh, NEW name \in Name,
         NEW copy \in BOOLEAN, AddXToObject(a, name, n, copy)
  PROVE  TreeStep
<1> DEFINE R == held \cup lost
           g == AddNewToObject(heap, a, name, n, copy).h
<1>1. Sound(heap, R) /\ a \in ListsOf(heap) /\ n \in Ptr /\ n \notin heap.live /\ name \in Key
  BY FreshGives, OwnersFacts DEF Name
<1>2. heap' = g /\ UNCHANGED <<held, lost>>
  BY DEF AddXToObject, Becomes
<1> HIDE DEF R
<1>3. KidsOf(g) = KidsOf(heap) \/ (n \in Item /\ NewLast(heap, g, a, n))
  BY <1>1, AddNewKids
<1> HIDE DEF g
<1>4. n \in Item => Apart(KidsOf(heap), n, <<>>)
  <2>1. <<>> \in Seq(Item) /\ ToSet(<<>>) = {}
    BY DEF ToSet
  <2>2. n \in Item => n \notin DOMAIN KidsOf(heap)
    BY <1>1, TreeFacts
  <2> QED BY <2>1, <2>2, TreeFacts DEF Apart
<1>5. CASE KidsOf(g) = KidsOf(heap)
  BY <1>2, <1>5, StepStill
<1>6. CASE n \in Item /\ NewLast(heap, g, a, n)
  BY <1>2, <1>4, <1>6, StepMakeLast
<1> QED BY <1>3, <1>5, <1>6

\* The two calls that add a reference
LEMMA ReferenceSteps ==
  ASSUME Owners, Hangs(KidsOf(heap)), NEW a \in Lists, NEW i \in heap.live, NEW n \in Fresh,
         NEW answer, AddReference(i, n, answer),
         \/ answer = Answer(create_reference(heap, i, n), FALSE)
         \/ n # NULL /\ answer.r = TRUE /\ NewLast(heap, answer.h, a, n)
  PROVE  TreeStep
<1> DEFINE made == create_reference(heap, i, n)
<1>1. Sound(heap, held \cup lost) /\ n \in Ptr /\ n \notin heap.live /\ a \in ListsOf(heap)
  BY FreshGives, OwnersFacts
<1>2. /\ heap' = answer.h /\ held' = held
      /\ lost' = IF answer.r \/ n = NULL THEN lost ELSE lost \cup {n}
  BY DEF AddReference, Becomes
<1>3. CASE n = NULL
  <2>1. answer = Answer(heap, FALSE)
    BY <1>3 DEF create_reference
  <2>2. heap' = heap /\ lost' = lost
    BY <2>1, <1>2, <1>3 DEF Answer
  <2> QED BY <2>2, <1>2, StepStill
<1>4. CASE n # NULL
  <2>1. n \in Item
    BY <1>1, <1>4 DEF Ptr
  <2>2. Apart(KidsOf(heap), n, <<>>)
    <3>1. <<>> \in Seq(Item) /\ ToSet(<<>>) = {}
      BY DEF ToSet
    <3>2. n \notin DOMAIN KidsOf(heap)
      BY <1>1, TreeFacts
    <3> QED BY <2>1, <3>1, <3>2, TreeFacts DEF Apart
  <2>3. CASE answer = Answer(made, FALSE)
    <3>1. KidsOf(made) = Beside(KidsOf(heap), n, <<>>)
      BY <1>1, <2>1, ReferenceKids
    <3> HIDE DEF made
    <3>2. answer.h = made /\ answer.r = FALSE
      BY <2>3 DEF Answer
    <3>3. heap' = made /\ lost' = lost \cup {n}
      BY <1>2, <1>4, <3>2
    <3> QED BY <1>2, <2>2, <3>1, <3>3, StepLose
  <2>4. CASE answer.r = TRUE /\ NewLast(heap, answer.h, a, n)
    <3>1. lost' = lost
      BY <1>2, <2>4
    <3> QED BY <1>2, <2>1, <2>2, <2>4, <3>1, StepMakeLast
  <2> QED BY <2>3, <2>4
<1> QED BY <1>3, <1>4

\* cJSON_AddItemReferenceToArray
LEMMA AddReferenceToArraySteps ==
  ASSUME Owners, Hangs(KidsOf(heap)), NEW a \in Lists, NEW i \in heap.live, NEW n \in Fresh,
         AddItemReferenceToArray(a, i, n)
  PROVE  TreeStep
<1> DEFINE R == held \cup lost
           made == create_reference(heap, i, n)
           answer == add_item_to_array(made, a, n)
<1>1. Sound(heap, R) /\ n \in Ptr /\ n \notin heap.live /\ a \in ListsOf(heap)
  BY FreshGives, OwnersFacts
<1>2. AddReference(i, n, answer)
  BY DEF AddItemReferenceToArray
<1>3. CASE n = NULL
  <2>1. answer = Answer(made, FALSE)
    BY <1>3 DEF add_item_to_array
  <2> HIDE DEF answer
  <2> QED BY <2>1, <1>2, ReferenceSteps
<1>4. CASE n # NULL
  <2> DEFINE R2 == R \cup {n}
  <2>1. n \in Item
    BY <1>1, <1>4 DEF Ptr
  <2>2. /\ Sound(made, R2) /\ n \in R2 /\ a # n /\ a \in ListsOf(made)
        /\ KidsOf(made) = Beside(KidsOf(heap), n, <<>>) /\ Children(made, a) = Children(heap, a)
    <3> HIDE DEF R
    <3> QED BY <1>1, <2>1, ReferenceKids
  <2> HIDE DEF made, R2, R
  <2>3. answer.r = TRUE
    BY <2>2, AddSound
  <2>4. KidsOf(answer.h) = PutIn(KidsOf(made), a, Len(Children(made, a)) + 1, n)
    BY <2>2, AddKids
  <2> HIDE DEF answer
  <2>5. NewLast(heap, answer.h, a, n)
    BY <2>2, <2>4 DEF NewLast
  <2> QED BY <2>3, <2>5, <1>2, <1>4, ReferenceSteps
<1> QED BY <1>3, <1>4

\* cJSON_AddItemReferenceToObject
LEMMA AddReferenceToObjectSteps ==
  ASSUME Owners, Hangs(KidsOf(heap)), NEW a \in Lists, NEW i \in heap.live, NEW n \in Fresh,
         NEW name \in Name, NEW copy \in BOOLEAN, AddItemReferenceToObject(a, name, i, n, copy)
  PROVE  TreeStep
<1> DEFINE R == held \cup lost
           made == create_reference(heap, i, n)
           answer == add_item_to_object(made, a, name, n, FALSE, copy)
<1>1. Sound(heap, R) /\ n \in Ptr /\ n \notin heap.live /\ a \in ListsOf(heap) /\ name \in Key
  BY FreshGives, OwnersFacts DEF Name
<1>2. AddReference(i, n, answer)
  BY DEF AddItemReferenceToObject
<1>3. CASE n = NULL \/ ~copy
  <2>1. answer = Answer(made, FALSE)
    BY <1>3 DEF add_item_to_object
  <2> HIDE DEF answer
  <2> QED BY <2>1, <1>2, ReferenceSteps
<1>4. CASE n # NULL /\ copy
  <2> DEFINE R2 == R \cup {n}
  <2>1. n \in Item
    BY <1>1, <1>4 DEF Ptr
  <2>2. /\ Sound(made, R2) /\ n \in R2 /\ a # n /\ a \in ListsOf(made)
        /\ KidsOf(made) = Beside(KidsOf(heap), n, <<>>) /\ Children(made, a) = Children(heap, a)
    <3> HIDE DEF R
    <3> QED BY <1>1, <2>1, ReferenceKids
  <2> HIDE DEF made, R2, R
  <2>3. answer.r = TRUE
    BY <1>1, <1>4, <2>2, AddCopySound
  <2>4. KidsOf(answer.h) = PutIn(KidsOf(made), a, Len(Children(made, a)) + 1, n)
    BY <1>1, <1>4, <2>2, AddCopyKids
  <2> HIDE DEF answer
  <2>5. NewLast(heap, answer.h, a, n)
    BY <2>2, <2>4 DEF NewLast
  <2> QED BY <2>3, <2>5, <1>2, <1>4, ReferenceSteps
<1> QED BY <1>3, <1>4

\* So every step maps to a step of CJSONTree or a stutter, and no item gets below itself.
LEMMA NextSteps ==
  ASSUME Owners, Hangs(KidsOf(heap)), Next PROVE TreeStep
<1>1. ASSUME NEW n \in Fresh, Create(n) PROVE TreeStep
  BY <1>1, CreateSteps
<1>2. ASSUME NEW r \in Rows, CreateXArray(Head(r), Tail(r)) PROVE TreeStep
  BY <1>2, CreateXArraySteps
<1>3. ASSUME NEW i \in held, Delete(i) PROVE TreeStep
  BY <1>3, DeleteSteps
<1>4. ASSUME NEW a \in Lists PROVE
        /\ \A i \in held : AddItemToArray(a, i) => TreeStep
        /\ \A i \in held : DetachStray(a, i) => TreeStep
        /\ \A i \in held, name \in Name, constant_key, copy \in BOOLEAN :
             AddItemToObject(a, name, i, constant_key, copy) => TreeStep
        /\ \A i \in heap.live, n \in Fresh : AddItemReferenceToArray(a, i, n) => TreeStep
        /\ \A i \in heap.live, n \in Fresh, name \in Name, copy \in BOOLEAN :
             AddItemReferenceToObject(a, name, i, n, copy) => TreeStep
        /\ \A n \in Fresh, name \in Name, copy \in BOOLEAN :
             AddXToObject(a, name, n, copy) => TreeStep
  <2>1. ASSUME NEW i \in held, AddItemToArray(a, i) PROVE TreeStep
    BY <2>1, AddItemToArraySteps
  <2>2. ASSUME NEW i \in held, DetachStray(a, i) PROVE TreeStep
    BY <2>2, DetachSteps DEF DetachStray
  <2>3. ASSUME NEW i \in held, NEW name \in Name, NEW constant_key \in BOOLEAN, NEW copy \in BOOLEAN,
               AddItemToObject(a, name, i, constant_key, copy)
        PROVE  TreeStep
    BY <2>3, AddItemToObjectSteps
  <2>4. ASSUME NEW i \in heap.live, NEW n \in Fresh, AddItemReferenceToArray(a, i, n) PROVE TreeStep
    BY <2>4, AddReferenceToArraySteps
  <2>5. ASSUME NEW i \in heap.live, NEW n \in Fresh, NEW name \in Name, NEW copy \in BOOLEAN,
               AddItemReferenceToObject(a, name, i, n, copy)
        PROVE  TreeStep
    BY <2>5, AddReferenceToObjectSteps
  <2>6. ASSUME NEW n \in Fresh, NEW name \in Name, NEW copy \in BOOLEAN, AddXToObject(a, name, n, copy)
        PROVE  TreeStep
    BY <2>6, AddXToObjectSteps
  <2> QED BY <2>1, <2>2, <2>3, <2>4, <2>5, <2>6
<1>5. ASSUME NEW a \in Lists, NEW which \in 0..Len(Children(heap, a)) PROVE
        /\ DetachItemFromArray(a, which) => TreeStep
        /\ DeleteItemFromArray(a, which) => TreeStep
        /\ \A i \in held : InsertItemInArray(a, which, i) => TreeStep
        /\ \A i \in held : ReplaceItemInArray(a, which, i) => TreeStep
  <2>1. ASSUME DetachItemFromArray(a, which) PROVE TreeStep
    <3> DEFINE hit == get_array_item(heap, a, which)
    <3>1. Gets(cJSON_DetachItemViaPointer(heap, a, hit))
      BY <2>1 DEF DetachItemFromArray
    <3>2. hit \in ToSet(Children(heap, a)) \cup {NULL}
      BY IndexAnswers DEF Owners, Lists, ListsOf
    <3> HIDE DEF hit
    <3> QED BY <3>1, <3>2, DetachSteps
  <2>2. ASSUME DeleteItemFromArray(a, which) PROVE TreeStep
    BY <2>2, DeleteFromArraySteps
  <2>3. ASSUME NEW i \in held, InsertItemInArray(a, which, i) PROVE TreeStep
    BY <2>3, InsertSteps
  <2>4. ASSUME NEW i \in held, ReplaceItemInArray(a, which, i) PROVE TreeStep
    BY <2>4, ReplaceInArraySteps
  <2> QED BY <2>1, <2>2, <2>3, <2>4
<1>6. ASSUME NEW a \in Lists, NEW name \in Name, NEW sensitive \in BOOLEAN PROVE
        /\ DetachItemFromObject(a, name, sensitive) => TreeStep
        /\ \A i \in held, copy \in BOOLEAN :
             ReplaceItemInObject(a, name, i, sensitive, copy) => TreeStep
  <2>1. ASSUME DetachItemFromObject(a, name, sensitive) PROVE TreeStep
    <3> DEFINE hit == get_object_item(heap, a, name, sensitive)
    <3>1. Gets(cJSON_DetachItemViaPointer(heap, a, hit))
      BY <2>1 DEF DetachItemFromObject
    <3>2. hit \in ToSet(Children(heap, a)) \cup {NULL}
      BY NameAnswers
    <3> HIDE DEF hit
    <3> QED BY <3>1, <3>2, DetachSteps
  <2>2. ASSUME NEW i \in held, NEW copy \in BOOLEAN, ReplaceItemInObject(a, name, i, sensitive, copy)
        PROVE  TreeStep
    BY <2>2, ReplaceInObjectSteps
  <2> QED BY <2>1, <2>2
<1> QED BY <1>1, <1>2, <1>3, <1>4, <1>5, <1>6, Zenon DEF Next

\* At the start there is no item.
LEMMA InitTree == Init => Tree!Init /\ Hangs(KidsOf(heap))
<1> SUFFICES ASSUME Init PROVE Tree!Init /\ Hangs(KidsOf(heap))
  OBVIOUS
<1>1. heap.live = {} /\ held = {} /\ lost = {}
  BY DEF Init
<1>2. KidsOf(heap) = [x \in {} |-> <<>>]
  BY <1>1 DEF KidsOf
<1>3. Tree!Init
  BY <1>1, <1>2 DEF Tree!Init, KidsOf
<1>4. DOMAIN KidsOf(heap) = {}
  BY <1>2
<1>5. Hangs(KidsOf(heap))
  BY <1>4 DEF Hangs
<1> QED BY <1>3, <1>5

\* What keeps an item from being put below itself, with Owners.
ItemsHang == Hangs(KidsOf(heap))

\* No item is below itself, however the lists were changed: the walk down that
\* cJSON_Delete makes ends.
THEOREM CJSONListHangs == Spec => []ItemsHang
<1>1. Init => ItemsHang
  BY InitTree DEF ItemsHang
<1>2. Owners /\ ItemsHang /\ [Next]_vars => ItemsHang'
  <2> SUFFICES ASSUME Owners, ItemsHang, [Next]_vars PROVE ItemsHang'
    OBVIOUS
  <2>1. CASE Next
    BY <2>1, NextSteps DEF ItemsHang, TreeStep
  <2>2. CASE UNCHANGED vars
    BY <2>2 DEF vars, ItemsHang
  <2> QED BY <2>1, <2>2
<1> QED BY <1>1, <1>2, CJSONListInvariance, PTL DEF Spec

\* The pointer lists implement the tree: every call of the library is one step of
\* CJSONTree, or leaves the tree as it is.
THEOREM CJSONTreeImplemented == Spec => IsTree
<1>1. Init => Tree!Init
  BY InitTree
<1>2. Owners /\ ItemsHang /\ [Next]_vars => [Tree!Next]_(Tree!tvars)
  <2> SUFFICES ASSUME Owners, ItemsHang, [Next]_vars PROVE [Tree!Next]_(Tree!tvars)
    OBVIOUS
  <2>1. CASE Next
    BY <2>1, NextSteps DEF ItemsHang, TreeStep
  <2>2. CASE UNCHANGED vars
    <3>1. UNCHANGED Tree!tvars
      BY <2>2 DEF vars, Tree!tvars
    <3> QED BY <3>1
  <2> QED BY <2>1, <2>2
<1> QED BY <1>1, <1>2, CJSONListInvariance, CJSONListHangs, PTL DEF Spec, IsTree, Tree!Spec

-------------------------------------------------------------------------------
(* What the calls answer                                                       *)

\* The children that a lists in g, of its place in the tree of g
LEMMA ListedKids ==
  ASSUME NEW h, NEW R, Sound(h, R), NEW a \in ListsOf(h), NEW g, NEW R2, Sound(g, R2), Kept(h, g),
         a \in g.live
  PROVE  Children(g, a) = KidsOf(g)[a]
<1>1. a \in ListsOf(g)
  BY DEF ListsOf, Kept
<1> QED BY <1>1, SoundKids

\* The item at an index: the child there, none beyond the end
LEMMA ItemAt ==
  ASSUME NEW h, NEW R, Sound(h, R), NEW a \in ListsOf(h), NEW which \in 0..Size
  PROVE  /\ which < Len(Children(h, a)) => /\ which + 1 \in 1..Len(Children(h, a))
                                           /\ get_array_item(h, a, which) = Children(h, a)[which + 1]
         /\ ~(which < Len(Children(h, a))) => get_array_item(h, a, which) = NULL
<1>1. PICK own, pos, len : Shaped(h, own, pos, len, NULL)
  BY DEF Sound
<1>2. h \in Heap /\ Ranked(own, pos, len) /\ Linked(h, own, pos, len)
  BY <1>1 DEF Shaped
<1>3. Len(Children(h, a)) = len[a] /\ len[a] \in Nat
  <2>1. Len(Children(h, a)) = len[a] /\ Children(h, a) \in Seq(Item)
    BY <1>1, SoundChildren
  <2> QED BY <2>1
<1>4. which \in Nat
  OBVIOUS
<1>5. ASSUME which < len[a]
      PROVE  which + 1 \in 1..Len(Children(h, a)) /\ get_array_item(h, a, which) = Children(h, a)[which + 1]
  <2>1. which + 1 \in 1..Len(Children(h, a)) /\ (which + 1) - 1 = which
    BY <1>3, <1>4, <1>5
  <2>2. get_array_item(h, a, (which + 1) - 1) = Children(h, a)[which + 1]
    BY <1>1, <2>1, ChildAt
  <2> QED BY <2>1, <2>2
<1>6. ASSUME ~(which < len[a]) PROVE get_array_item(h, a, which) = NULL
  <2>1. which >= len[a]
    BY <1>3, <1>4, <1>6
  <2> QED BY <1>2, <2>1, WalkSpells DEF get_array_item
<1> QED BY <1>3, <1>5, <1>6

\* cJSON_DetachItemViaPointer of the item at an index
LEMMA DetachPlace ==
  ASSUME NEW h, NEW R, Sound(h, R), NEW a \in ListsOf(h), NEW which \in 0..Size
  PROVE  Children(cJSON_DetachItemViaPointer(h, a, get_array_item(h, a, which)).h, a)
           = IF which < Len(Children(h, a)) THEN RemoveAt(Children(h, a), which + 1) ELSE Children(h, a)
<1> DEFINE c == Children(h, a)
           nth == get_array_item(h, a, which)
           answer == cJSON_DetachItemViaPointer(h, a, nth)
           K == KidsOf(h)
<1>1. CASE which < Len(c)
  <2>1. which + 1 \in 1..Len(c) /\ nth = c[which + 1]
    BY <1>1, ItemAt
  <2>2. a \in DOMAIN K /\ K[a] = c /\ c \in Seq(Item) /\ a \in h.live
    BY SoundKids
  <2>3. KidsOf(answer.h) = TakenFrom(K, a, which + 1)
    BY <2>1, DetachKids
  <2>4. nth \in ToSet(c)
    BY <2>1, <2>2 DEF ToSet
  <2> HIDE DEF nth, K
  <2>5. Sound(answer.h, R \cup {nth}) /\ answer.h.live = h.live /\ Kept(h, answer.h)
    BY SMTT(30), <2>4, DetachSound
  <2> HIDE DEF answer, c
  <2>6. Children(answer.h, a) = KidsOf(answer.h)[a]
    BY <2>2, <2>5, ListedKids
  <2>7. TakenFrom(K, a, which + 1)[a] = RemoveAt(c, which + 1)
    BY <2>2 DEF TakenFrom
  <2> QED BY <2>3, <2>6, <2>7, <1>1 DEF answer, nth, c
<1>2. CASE ~(which < Len(c))
  <2>1. nth = NULL
    BY <1>2, ItemAt
  <2> HIDE DEF nth
  <2>2. answer = Answer(h, NULL)
    BY <2>1, DetachRefused
  <2> HIDE DEF answer
  <2>3. answer.h = h
    BY <2>2 DEF Answer
  <2> QED BY <2>3, <1>2 DEF answer, nth
<1> QED BY <1>1, <1>2

\* cJSON_InsertItemInArray
LEMMA InsertPlace ==
  ASSUME NEW h, NEW R, Sound(h, R), NEW a \in ListsOf(h), NEW which \in 0..Size, NEW i \in R, a # i
  PROVE  Children(cJSON_InsertItemInArray(h, a, which, i).h, a)
           = IF which < Len(Children(h, a)) THEN InsertAt(Children(h, a), which + 1, i)
             ELSE Append(Children(h, a), i)
<1> DEFINE c == Children(h, a)
           answer == cJSON_InsertItemInArray(h, a, which, i)
           K == KidsOf(h)
<1>1. a \in DOMAIN K /\ K[a] = c /\ c \in Seq(Item) /\ a \in h.live /\ i \in Item
  <2>1. a \in DOMAIN K /\ K[a] = c /\ c \in Seq(Item) /\ a \in h.live
    BY SoundKids
  <2>2. i \in Item
    BY RootsLive
  <2> QED BY <2>1, <2>2
<1>2. CASE which < Len(c)
  <2>1. which \in 0..Len(c)
    BY <1>1, <1>2
  <2>2. KidsOf(answer.h) = PutIn(K, a, which + 1, i)
    BY <2>1, InsertKids
  <2>3. Sound(answer.h, R \ {i}) /\ Kept(h, answer.h)
    BY <2>1, InsertSound
  <2> HIDE DEF answer, c, K
  <2>4. /\ PutIn(K, a, which + 1, i)[a] = InsertAt(c, which + 1, i)
        /\ a \in DOMAIN PutIn(K, a, which + 1, i)
    BY <1>1 DEF PutIn
  <2>5. a \in answer.h.live
    <3>1. DOMAIN KidsOf(answer.h) = answer.h.live
      BY DEF KidsOf
    <3> QED BY <3>1, <2>2, <2>4
  <2>6. Children(answer.h, a) = KidsOf(answer.h)[a]
    BY <2>3, <2>5, ListedKids
  <2> QED BY <2>2, <2>4, <2>6, <1>2 DEF answer, c
<1>3. CASE ~(which < Len(c))
  <2> DEFINE added == add_item_to_array(h, a, i)
  <2>1. get_array_item(h, a, which) = NULL
    BY <1>3, ItemAt
  <2>2. answer = added
    BY <2>1 DEF cJSON_InsertItemInArray
  <2>3. KidsOf(added.h) = PutIn(K, a, Len(c) + 1, i)
    BY AddKids
  <2>4. Sound(added.h, R \ {i}) /\ Kept(h, added.h)
    BY AddSound
  <2> HIDE DEF answer, added, c, K
  <2>5. /\ PutIn(K, a, Len(c) + 1, i)[a] = InsertAt(c, Len(c) + 1, i)
        /\ a \in DOMAIN PutIn(K, a, Len(c) + 1, i)
    BY <1>1 DEF PutIn
  <2>6. a \in added.h.live
    <3>1. DOMAIN KidsOf(added.h) = added.h.live
      BY DEF KidsOf
    <3> QED BY <3>1, <2>3, <2>5
  <2>7. Children(added.h, a) = KidsOf(added.h)[a]
    BY <2>4, <2>6, ListedKids
  <2>8. InsertAt(c, Len(c) + 1, i) = Append(c, i)
    BY <1>1, InsertLast
  <2> QED BY <2>2, <2>3, <2>5, <2>7, <2>8, <1>3 DEF answer, c
<1> QED BY <1>2, <1>3

\* cJSON_ReplaceItemViaPointer of the item at an index
LEMMA ReplacePlace ==
  ASSUME NEW h, NEW R, Sound(h, R), Hangs(KidsOf(h)), NEW a \in ListsOf(h), NEW which \in 0..Size,
         NEW i \in R, a # i
  PROVE  Children(cJSON_ReplaceItemViaPointer(h, a, get_array_item(h, a, which), i).h, a)
           = IF which < Len(Children(h, a)) THEN ReplaceAt(Children(h, a), which + 1, i)
             ELSE Children(h, a)
<1> DEFINE c == Children(h, a)
           nth == get_array_item(h, a, which)
           answer == cJSON_ReplaceItemViaPointer(h, a, nth, i)
           K == KidsOf(h)
<1>1. CASE which < Len(c)
  <2>1. which + 1 \in 1..Len(c) /\ nth = c[which + 1]
    BY <1>1, ItemAt
  <2>2. a \in DOMAIN K /\ K[a] = c /\ c \in Seq(Item) /\ a \in h.live /\ TreeMap(K)
    BY SoundKids
  <2>3. KidsOf(answer.h) = Pruned(Swapped(K, a, which + 1, i), BelowIn(K, nth))
    BY <2>1, ReplaceKids
  <2>4. nth \in ToSet(c)
    BY <2>1, <2>2 DEF ToSet
  <2> HIDE DEF nth
  <2>5. Sound(answer.h, R \ {i}) /\ Kept(h, answer.h)
    BY <2>4, ReplaceSound
  <2>6. a \notin BelowIn(K, nth)
    BY <2>2, <2>4, HangsAbove
  <2> HIDE DEF answer, c, K
  <2>7. a \in DOMAIN Pruned(Swapped(K, a, which + 1, i), BelowIn(K, nth))
        /\ Pruned(Swapped(K, a, which + 1, i), BelowIn(K, nth))[a] = ReplaceAt(c, which + 1, i)
    BY <2>2, <2>6 DEF Pruned, Swapped
  <2>8. a \in answer.h.live
    <3>1. DOMAIN KidsOf(answer.h) = answer.h.live
      BY DEF KidsOf
    <3> QED BY <3>1, <2>3, <2>7
  <2>9. Children(answer.h, a) = KidsOf(answer.h)[a]
    BY <2>5, <2>8, ListedKids
  <2> QED BY <2>3, <2>7, <2>9, <1>1 DEF answer, nth, c
<1>2. CASE ~(which < Len(c))
  <2>1. nth = NULL
    BY <1>2, ItemAt
  <2> HIDE DEF nth
  <2>2. answer = Answer(h, FALSE)
    BY <2>1 DEF cJSON_ReplaceItemViaPointer
  <2> HIDE DEF answer
  <2>3. answer.h = h
    BY <2>2 DEF Answer
  <2> QED BY <2>3, <1>2 DEF answer, nth
<1> QED BY <1>1, <1>2

\* The item a call puts into a list or takes out of it is at the place the call names.
LEMMA OwnersPlace == Owners /\ Hangs(KidsOf(heap)) => PlacesExact
<1> SUFFICES ASSUME Owners, Hangs(KidsOf(heap)) PROVE PlacesExact
  OBVIOUS
<1> DEFINE R == held \cup lost
<1>1. Sound(heap, R) /\ \A a \in Lists : a \in ListsOf(heap)
  BY OwnersFacts
<1>2. \A i \in held : i \in R /\ i \in Item
  BY <1>1, RootsLive
<1> HIDE DEF R
<1>3. ASSUME NEW a \in Lists, NEW which \in 0..Size - 1
      PROVE  /\ Children(cJSON_DetachItemViaPointer(heap, a, get_array_item(heap, a, which)).h, a)
                  = IF which < Len(Children(heap, a)) THEN RemoveAt(Children(heap, a), which + 1)
                    ELSE Children(heap, a)
             /\ \A i \in held : a \notin Doomed(heap, i) =>
                  /\ Children(cJSON_InsertItemInArray(heap, a, which, i).h, a)
                       = IF which < Len(Children(heap, a)) THEN InsertAt(Children(heap, a), which + 1, i)
                         ELSE Append(Children(heap, a), i)
                  /\ Children(cJSON_ReplaceItemViaPointer(heap, a, get_array_item(heap, a, which), i).h, a)
                       = IF which < Len(Children(heap, a)) THEN ReplaceAt(Children(heap, a), which + 1, i)
                         ELSE Children(heap, a)
  <2>1. which \in 0..Size /\ a \in ListsOf(heap)
    BY <1>1, SizeType
  <2>2. Children(cJSON_DetachItemViaPointer(heap, a, get_array_item(heap, a, which)).h, a)
          = IF which < Len(Children(heap, a)) THEN RemoveAt(Children(heap, a), which + 1)
            ELSE Children(heap, a)
    BY <1>1, <2>1, DetachPlace
  <2>3. ASSUME NEW i \in held, a \notin Doomed(heap, i)
        PROVE  /\ Children(cJSON_InsertItemInArray(heap, a, which, i).h, a)
                    = IF which < Len(Children(heap, a)) THEN InsertAt(Children(heap, a), which + 1, i)
                      ELSE Append(Children(heap, a), i)
               /\ Children(cJSON_ReplaceItemViaPointer(heap, a, get_array_item(heap, a, which), i).h, a)
                    = IF which < Len(Children(heap, a)) THEN ReplaceAt(Children(heap, a), which + 1, i)
                      ELSE Children(heap, a)
    <3>1. a # i /\ i \in R
      <4>1. i \in Doomed(heap, i)
        BY <1>1, <1>2, DoomedProperties DEF Sound
      <4> QED BY <4>1, <2>3, <1>2
    <3>2. Children(cJSON_InsertItemInArray(heap, a, which, i).h, a)
            = IF which < Len(Children(heap, a)) THEN InsertAt(Children(heap, a), which + 1, i)
              ELSE Append(Children(heap, a), i)
      BY <1>1, <2>1, <3>1, InsertPlace
    <3>3. Children(cJSON_ReplaceItemViaPointer(heap, a, get_array_item(heap, a, which), i).h, a)
            = IF which < Len(Children(heap, a)) THEN ReplaceAt(Children(heap, a), which + 1, i)
              ELSE Children(heap, a)
      BY <1>1, <2>1, <3>1, ReplacePlace
    <3> QED BY <3>2, <3>3
  <2> QED BY <2>2, <2>3
<1> QED BY <1>3 DEF PlacesExact

\* A search ends at the first of the places it may stop at.
LEMMA FirstFound ==
  ASSUME NEW c, NEW n \in Nat, NEW K \in SUBSET (1..n), K # {}
  PROVE  \E k \in K : FirstOf(c, K) = c[k]
<1>1. \E m \in K : \A j \in K : m <= j
  <2>1. K \subseteq Nat
    OBVIOUS
  <2> QED BY <2>1, MinExists
<1>2. (CHOOSE k \in K : \A j \in K : k <= j) \in K
  BY <1>1
<1> QED BY <1>2 DEF FirstOf

\* get_object_item answers the first child with the name.
LEMMA LookupExact ==
  ASSUME NEW h, NEW R, Sound(h, R), NEW a \in ListsOf(h), NEW name \in Key, NEW sensitive \in BOOLEAN,
         NEW K, K = {k \in DOMAIN Children(h, a) :
                       LET s == h.f[Children(h, a)[k]].string
                       IN  s # NULL /\ IF sensitive THEN s = name ELSE Lower[s] = Lower[name]},
         sensitive => \A k \in DOMAIN Children(h, a) : h.f[Children(h, a)[k]].string # NULL
  PROVE  get_object_item(h, a, name, sensitive) = FirstOf(Children(h, a), K)
<1> DEFINE c == Children(h, a)
           name_of(i) == h.f[i].string
           stops(i) == IF sensitive THEN name_of(i) \in {NULL, name}
                       ELSE name_of(i) # NULL /\ Lower[name_of(i)] = Lower[name]
           hits == {k \in DOMAIN c : stops(c[k])}
           hit == FirstOf(c, hits)
<1>1. c \in Seq(Item)
  BY SoundKids
<1>2. get_object_item(h, a, name, sensitive) = IF hit = NULL \/ name_of(hit) = NULL THEN NULL ELSE hit
  BY DEF get_object_item
<1> HIDE DEF c
<1>3. hits = K
  BY DEF c
<1>4. K \in SUBSET (1..Len(c)) /\ Len(c) \in Nat /\ \A k \in K : name_of(c[k]) # NULL
  BY <1>1 DEF c
<1> HIDE DEF hits
<1>5. CASE K = {}
  <2>1. hit = NULL
    BY <1>3, <1>5 DEF FirstOf
  <2> QED BY <2>1, <1>2, <1>3 DEF c
<1>6. CASE K # {}
  <2>1. PICK k \in K : FirstOf(c, K) = c[k]
    BY <1>4, <1>6, FirstFound
  <2>2. hit = c[k] /\ name_of(hit) # NULL
    BY <2>1, <1>3, <1>4
  <2>3. get_object_item(h, a, name, sensitive) = hit
    BY <1>2, <2>2
  <2> QED BY <2>3, <1>3 DEF c
<1> QED BY <1>5, <1>6

\* A look-up by name answers the first child with it, or NULL if none has it.
LEMMA OwnersLookup == Owners => LookupsAgree
<1> SUFFICES ASSUME Owners PROVE LookupsAgree
  OBVIOUS
<1>1. Sound(heap, held \cup lost) /\ \A a \in Lists : a \in ListsOf(heap)
  BY OwnersFacts
<1>2. ASSUME NEW a \in Lists, NEW name \in Key
      PROVE  LET c == Children(heap, a)
                 named(k) == heap.f[c[k]].string
                 alike == {k \in DOMAIN c : named(k) # NULL /\ Lower[named(k)] = Lower[name]}
                 same == {k \in DOMAIN c : named(k) # NULL /\ named(k) = name}
             IN  /\ get_object_item(heap, a, name, FALSE) = FirstOf(c, alike)
                 /\ (\A k \in DOMAIN c : named(k) # NULL) =>
                      get_object_item(heap, a, name, TRUE) = FirstOf(c, same)
  <2> DEFINE c == Children(heap, a)
             named(k) == heap.f[c[k]].string
             alike == {k \in DOMAIN c : named(k) # NULL /\ Lower[named(k)] = Lower[name]}
             same == {k \in DOMAIN c : named(k) # NULL /\ named(k) = name}
             stops(sensitive) == {k \in DOMAIN Children(heap, a) :
                       LET s == heap.f[Children(heap, a)[k]].string
                       IN  s # NULL /\ IF sensitive THEN s = name ELSE Lower[s] = Lower[name]}
  <2>1. ASSUME NEW sensitive \in BOOLEAN,
               sensitive => \A k \in DOMAIN c : named(k) # NULL
        PROVE  get_object_item(heap, a, name, sensitive) = FirstOf(c, stops(sensitive))
    <3> DEFINE K == stops(sensitive)
    <3>1. K = {k \in DOMAIN Children(heap, a) :
                 LET s == heap.f[Children(heap, a)[k]].string
                 IN  s # NULL /\ IF sensitive THEN s = name ELSE Lower[s] = Lower[name]}
      OBVIOUS
    <3> HIDE DEF K
    <3>2. get_object_item(heap, a, name, sensitive) = FirstOf(Children(heap, a), K)
      BY <1>1, <2>1, <3>1, LookupExact
    <3> QED BY <3>2 DEF K
  <2>2. stops(FALSE) = alike /\ stops(TRUE) = same
    OBVIOUS
  <2>3. get_object_item(heap, a, name, FALSE) = FirstOf(c, stops(FALSE))
    <3> HIDE DEF stops, c
    <3> QED BY <2>1
  <2>4. ASSUME \A k \in DOMAIN c : named(k) # NULL
        PROVE  get_object_item(heap, a, name, TRUE) = FirstOf(c, stops(TRUE))
    <3> HIDE DEF stops
    <3> QED BY <2>1, <2>4
  <2> HIDE DEF stops
  <2> QED BY <2>2, <2>3, <2>4
<1> QED BY <1>2 DEF LookupsAgree, FirstOf

\* A lookup finds what it should, and a call that inserts, detaches or replaces by
\* index changes that place of that list.
THEOREM CJSONListAnswers == Spec => []AnswersExact
<1>1. Owners /\ ItemsHang => AnswersExact
  BY OwnersLookup, OwnersPlace DEF AnswersExact, ItemsHang
<1> QED BY <1>1, CJSONListInvariance, CJSONListHangs, PTL
===============================================================================

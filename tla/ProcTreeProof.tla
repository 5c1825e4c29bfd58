---------------------------- MODULE ProcTreeProof -----------------------------
(***************************************************************************)
(* Proofs about the pointer structure of the process tree, for every set   *)
(* of records. The inductive invariant says that SOME assignment of child  *)
(* sequences describes the pointers; each step of the proof exhibits the   *)
(* sequences after the step.                                               *)
(***************************************************************************)
EXTENDS ProcTree, SeqLemmas

\* k gives every record the list of children its pointers spell out.
Described(k) ==
  /\ \A p \in Rec : firs_chil[p] = IF Len(k[p]) = 0 THEN NULL ELSE k[p][1]
  /\ \A p \in Rec : \A i \in 1..Len(k[p]) :
       next_sibl[k[p][i]] = IF i = Len(k[p]) THEN NULL ELSE k[p][i+1]
  /\ \A p \in Rec : \A i \in 1..Len(k[p]) : pare[k[p][i]] = p

\* No record of a list is in it twice, every record with a parent is in the
\* parent's list, and a record without one has no sibling.
Exact(k) ==
  /\ \A p \in Rec : \A i, j \in 1..Len(k[p]) : k[p][i] = k[p][j] => i = j
  /\ \A c \in Rec : pare[c] # NULL => \E i \in 1..Len(k[pare[c]]) : k[pare[c]][i] = c
  /\ \A c \in Rec : pare[c] = NULL => next_sibl[c] = NULL

\* A running deta_chil stands in the list of its parent, before its child.
Cursor(k) ==
  call # NULL =>
    \E i \in 1..Len(k[call.pare]) :
      /\ k[call.pare][i] = call.curr
      /\ \A j \in 1..i : k[call.pare][j] # call.chil

Lists(k) == k \in [Rec -> Seq(Rec)] /\ Described(k) /\ Exact(k) /\ Cursor(k)

Inv == TypeOK /\ \E k \in [Rec -> Seq(Rec)] : Lists(k)

-------------------------------------------------------------------------------
\* Pushing a detached record at the head of p's list keeps the lists exact.
LEMMA AttachKeepsLists ==
  ASSUME TypeOK, NEW k, Lists(k), NEW p \in Rec, NEW c \in Rec, atta_chil(p, c),
         NEW m, m = [k EXCEPT ![p] = <<c>> \o k[p]]
  PROVE  m \in [Rec -> Seq(Rec)] /\ Described(m)' /\ Exact(m)' /\ Cursor(m)'
<1>1. k \in [Rec -> Seq(Rec)]
  BY DEF Lists
<1>2. ASSUME NEW q \in Rec
      PROVE  Len(k[q]) \in Nat /\ \A i \in 1..Len(k[q]) : k[q][i] \in Rec
  BY <1>1, LenProperties, ElementOfSeq
<1>3. /\ m[p] \in Seq(Rec) /\ Len(m[p]) = Len(k[p]) + 1 /\ m[p][1] = c
      /\ \A j \in 1..Len(k[p]) : m[p][j+1] = k[p][j]
  <2>1. m[p] = <<c>> \o k[p]
    BY <1>1
  <2> QED BY <1>1, <2>1, ConsProperties
<1>4. m \in [Rec -> Seq(Rec)] /\ \A q \in Rec : q # p => m[q] = k[q]
  BY <1>1, <1>3
<1>5. \A q \in Rec : \A i \in 1..Len(k[q]) : pare[k[q][i]] = q
  BY DEF Lists, Described
<1>6. pare[c] = NULL /\ p # c /\ p # NULL /\ c # NULL
  BY NullNotRec DEF atta_chil
<1>7. \A q \in Rec : \A i \in 1..Len(k[q]) : k[q][i] # c
  BY <1>5, <1>6, NullNotRec
<1>8. \A i \in 1..Len(m[p]) : i = 1 \/ (i-1 \in 1..Len(k[p]) /\ m[p][i] = k[p][i-1])
  BY <1>2, <1>3
<1>9. /\ pare' = [pare EXCEPT ![c] = p] /\ pare \in [Rec -> Ptr]
      /\ next_sibl' = [next_sibl EXCEPT ![c] = firs_chil[p]] /\ next_sibl \in [Rec -> Ptr]
      /\ firs_chil' = [firs_chil EXCEPT ![p] = c] /\ firs_chil \in [Rec -> Ptr]
  BY DEF atta_chil, TypeOK
<1>10. /\ pare'[c] = p /\ \A d \in Rec : d # c => pare'[d] = pare[d]
       /\ next_sibl'[c] = firs_chil[p] /\ \A d \in Rec : d # c => next_sibl'[d] = next_sibl[d]
       /\ firs_chil'[p] = c /\ \A d \in Rec : d # p => firs_chil'[d] = firs_chil[d]
  BY <1>9
<1>11. /\ \A q \in Rec : firs_chil[q] = IF Len(k[q]) = 0 THEN NULL ELSE k[q][1]
       /\ \A q \in Rec : \A i \in 1..Len(k[q]) :
            next_sibl[k[q][i]] = IF i = Len(k[q]) THEN NULL ELSE k[q][i+1]
  BY DEF Lists, Described
<1>12. Described(m)'
  <2>1. \A q \in Rec : firs_chil'[q] = IF Len(m[q]) = 0 THEN NULL ELSE m[q][1]
    BY <1>2, <1>3, <1>4, <1>10, <1>11
  <2>2. ASSUME NEW q \in Rec, NEW i \in 1..Len(m[q])
        PROVE  /\ next_sibl'[m[q][i]] = IF i = Len(m[q]) THEN NULL ELSE m[q][i+1]
               /\ pare'[m[q][i]] = q
    <3>1. CASE q = p /\ i = 1
      <4>1. m[q][i] = c
        BY <3>1, <1>3
      <4> QED BY <4>1, <3>1, <1>2, <1>3, <1>10, <1>11
    <3>2. CASE q = p /\ i - 1 \in 1..Len(k[p]) /\ m[p][i] = k[p][i-1]
      <4>1. next_sibl'[m[p][i]] = next_sibl[k[p][i-1]] /\ pare'[m[p][i]] = p
        BY <3>2, <1>2, <1>5, <1>7, <1>10
      <4>2. i # Len(m[p]) => m[p][i+1] = k[p][i]
        BY <3>2, <1>2, <1>3
      <4> QED BY <3>2, <4>1, <4>2, <1>2, <1>3, <1>11
    <3>3. CASE q # p
      <4>1. m[q] = k[q] /\ k[q][i] \in Rec /\ k[q][i] # c
        BY <3>3, <1>2, <1>4, <1>7
      <4> QED BY <4>1, <3>3, <1>5, <1>10, <1>11
    <3> QED BY <3>1, <3>2, <3>3, <1>8
  <2> QED BY <2>1, <2>2 DEF Described
<1>13. Exact(m)'
  <2>0. \A q \in Rec : \A i, j \in 1..Len(k[q]) : k[q][i] = k[q][j] => i = j
    BY DEF Lists, Exact
  <2>1. ASSUME NEW q \in Rec, NEW i \in 1..Len(m[q]), NEW j \in 1..Len(m[q]), m[q][i] = m[q][j]
        PROVE  i = j
    <3>1. CASE q # p
      BY <3>1, <2>0, <2>1, <1>4
    <3>2. CASE q = p
      <4>1. m[p][i] = m[p][j] /\ i \in 1..Len(m[p]) /\ j \in 1..Len(m[p])
        BY <3>2, <2>1
      <4>2. CASE i = 1 \/ j = 1
        BY <4>1, <4>2, <1>3, <1>7, <1>8
      <4>3. CASE i # 1 /\ j # 1
        <5> DEFINE x == i-1
                   y == j-1
        <5>1. x \in 1..Len(k[p]) /\ y \in 1..Len(k[p]) /\ k[p][x] = k[p][y]
          BY <4>1, <4>3, <1>8
        <5> HIDE DEF x, y
        <5>2. x = y
          BY <2>0, <5>1
        <5> QED BY <5>2 DEF x, y
      <4> QED BY <4>2, <4>3
    <3> QED BY <3>1, <3>2
  <2>2. ASSUME NEW d \in Rec, pare'[d] # NULL
        PROVE  \E i \in 1..Len(m[pare'[d]]) : m[pare'[d]][i] = d
    <3>1. CASE d = c
      <4>1. pare'[d] = p /\ 1 \in 1..Len(m[p])
        BY <3>1, <1>2, <1>3, <1>10
      <4> QED BY <4>1, <3>1, <1>3
    <3>2. CASE d # c
      <4>1. pare'[d] = pare[d] /\ pare[d] \in Rec
        BY <3>2, <2>2, <1>9, <1>10 DEF Ptr
      <4>2. PICK i \in 1..Len(k[pare[d]]) : k[pare[d]][i] = d
        BY <4>1, <2>2 DEF Lists, Exact
      <4>3. CASE pare[d] = p
        <5>1. i+1 \in 1..Len(m[p]) /\ m[p][i+1] = d
          BY <4>2, <4>3, <1>2, <1>3
        <5> QED BY <5>1, <4>1, <4>3
      <4>4. CASE pare[d] # p
        BY <4>1, <4>2, <4>4, <1>4
      <4> QED BY <4>3, <4>4
    <3> QED BY <3>1, <3>2
  <2>3. ASSUME NEW d \in Rec, pare'[d] = NULL
        PROVE  next_sibl'[d] = NULL
    <3>1. d # c /\ pare[d] = NULL
      BY <2>3, <1>6, <1>10
    <3> QED BY <3>1, <1>10 DEF Lists, Exact
  <2> QED BY <2>1, <2>2, <2>3 DEF Exact
<1>14. Cursor(m)'
  BY DEF Cursor, atta_chil
<1> QED BY <1>4, <1>12, <1>13, <1>14

\* What both ways of unlinking do to the pointers: c, at place i of p's list,
\* is bypassed by the pointer that led to it, and isolated.
Unlinked(k, p, i) ==
  /\ pare' = [pare EXCEPT ![k[p][i]] = NULL]
  /\ firs_chil' = IF i = 1 THEN [firs_chil EXCEPT ![p] = next_sibl[k[p][1]]] ELSE firs_chil
  /\ next_sibl' = IF i = 1 THEN [next_sibl EXCEPT ![k[p][1]] = NULL]
                  ELSE [next_sibl EXCEPT ![k[p][i-1]] = next_sibl[k[p][i]],
                                         ![k[p][i]] = NULL]
  /\ call' = NULL

\* Unlinking the i-th child of p leaves exact lists, without that child.
LEMMA UnlinkKeepsLists ==
  ASSUME TypeOK, NEW k, Lists(k), NEW p \in Rec, NEW i \in 1..Len(k[p]), Unlinked(k, p, i),
         NEW m, m = [k EXCEPT ![p] = RemoveAt(k[p], i)]
  PROVE  m \in [Rec -> Seq(Rec)] /\ Described(m)' /\ Exact(m)' /\ Cursor(m)'
<1> DEFINE c == k[p][i]
<1>1. k \in [Rec -> Seq(Rec)]
  BY DEF Lists
<1>2. ASSUME NEW q \in Rec
      PROVE  Len(k[q]) \in Nat /\ \A j \in 1..Len(k[q]) : k[q][j] \in Rec
  BY <1>1, LenProperties, ElementOfSeq
<1>3. /\ m[p] \in Seq(Rec) /\ Len(m[p]) = Len(k[p]) - 1
      /\ \A j \in 1..Len(m[p]) : m[p][j] = IF j < i THEN k[p][j] ELSE k[p][j+1]
  <2>1. m[p] = RemoveAt(k[p], i)
    BY <1>1
  <2>2. k[p] \in Seq(Rec)
    BY <1>1
  <2>3. /\ RemoveAt(k[p], i) \in Seq(Rec)
        /\ Len(RemoveAt(k[p], i)) = Len(k[p]) - 1
        /\ \A j \in 1..(Len(k[p]) - 1) :
             RemoveAt(k[p], i)[j] = IF j < i THEN k[p][j] ELSE k[p][j+1]
    BY <2>2, RemoveAtProperties
  <2> QED BY <2>1, <2>3
<1>4. m \in [Rec -> Seq(Rec)] /\ \A q \in Rec : q # p => m[q] = k[q]
  BY <1>1, <1>3
<1>5. /\ \A q \in Rec : firs_chil[q] = IF Len(k[q]) = 0 THEN NULL ELSE k[q][1]
      /\ \A q \in Rec : \A j \in 1..Len(k[q]) :
            next_sibl[k[q][j]] = IF j = Len(k[q]) THEN NULL ELSE k[q][j+1]
      /\ \A q \in Rec : \A j \in 1..Len(k[q]) : pare[k[q][j]] = q
      /\ \A q \in Rec : \A j, l \in 1..Len(k[q]) : k[q][j] = k[q][l] => j = l
  BY DEF Lists, Described, Exact
<1>6. c \in Rec /\ pare[c] = p /\ next_sibl[c] = IF i = Len(k[p]) THEN NULL ELSE k[p][i+1]
  BY <1>2, <1>5
<1>7. /\ pare'[c] = NULL /\ \A d \in Rec : d # c => pare'[d] = pare[d]
      /\ \A q \in Rec : firs_chil'[q] = IF i = 1 /\ q = p THEN next_sibl[c] ELSE firs_chil[q]
      /\ next_sibl'[c] = NULL
      /\ i # 1 => next_sibl'[k[p][i-1]] = next_sibl[c]
      /\ \A d \in Rec : d # c /\ (i = 1 \/ d # k[p][i-1]) => next_sibl'[d] = next_sibl[d]
  <2>1. i # 1 => i - 1 \in 1..Len(k[p]) /\ k[p][i-1] \in Rec /\ k[p][i-1] # c
    BY <1>2, <1>5
  <2> QED BY <2>1, <1>2, <1>6 DEF TypeOK, Unlinked
<1>8. \A q \in Rec : q # p => \A j \in 1..Len(k[q]) : k[q][j] # c /\ (i = 1 \/ k[q][j] # k[p][i-1])
  <2> SUFFICES ASSUME NEW q \in Rec, q # p, NEW j \in 1..Len(k[q])
               PROVE  k[q][j] # c /\ (i = 1 \/ k[q][j] # k[p][i-1])
    OBVIOUS
  <2>1. pare[k[q][j]] = q
    BY <1>5
  <2>2. i # 1 => i - 1 \in 1..Len(k[p])
    BY <1>2
  <2>3. i # 1 => pare[k[p][i-1]] = p
    BY <2>2, <1>5
  <2> QED BY <2>1, <2>3, <1>6
<1>len. Len(k[p]) \in Nat /\ i \in 1..Len(k[p]) /\ Len(m[p]) = Len(k[p]) - 1
  BY <1>2, <1>3
<1> HIDE DEF c
<1>9. Described(m)'
  <2>1. \A q \in Rec : firs_chil'[q] = IF Len(m[q]) = 0 THEN NULL ELSE m[q][1]
    <3>1. firs_chil'[p] = IF Len(m[p]) = 0 THEN NULL ELSE m[p][1]
      <4>1. CASE i = 1
        <5>1. firs_chil'[p] = IF 1 = Len(k[p]) THEN NULL ELSE k[p][2]
          BY <4>1, <1>6, <1>7
        <5>2. Len(m[p]) # 0 => m[p][1] = k[p][2]
          BY <4>1, <1>len, <1>3
        <5>3. \A n \in Nat : n - 1 = 0 <=> 1 = n
          OBVIOUS
        <5>4. Len(m[p]) = 0 <=> 1 = Len(k[p])
          BY <5>3, <1>len
        <5> QED BY <5>1, <5>2, <5>4
      <4>2. CASE i # 1
        <5>1. firs_chil'[p] = k[p][1]
          BY <4>2, <1>len, <1>5, <1>7
        <5>2. Len(m[p]) # 0 /\ m[p][1] = k[p][1]
          BY <4>2, <1>len, <1>3
        <5> QED BY <5>1, <5>2
      <4> QED BY <4>1, <4>2
    <3> QED BY <3>1, <1>4, <1>5, <1>7
  <2>2. ASSUME NEW j \in 1..Len(m[p])
        PROVE  /\ next_sibl'[m[p][j]] = IF j = Len(m[p]) THEN NULL ELSE m[p][j+1]
               /\ pare'[m[p][j]] = p
    <3>1. CASE j < i - 1
      <4>1. /\ j \in 1..Len(k[p]) /\ j+1 \in 1..Len(m[p]) /\ j # i /\ j # i - 1 /\ i - 1 \in 1..Len(k[p])
            /\ m[p][j] = k[p][j] /\ m[p][j+1] = k[p][j+1]
        BY <3>1, <1>len, <1>3
      <4>2. k[p][j] \in Rec /\ k[p][j] # c /\ k[p][j] # k[p][i-1]
        BY <4>1, <1>2, <1>5 DEF c
      <4>3. next_sibl'[k[p][j]] = next_sibl[k[p][j]] /\ pare'[k[p][j]] = pare[k[p][j]]
        BY <4>2, <1>7
      <4>4. next_sibl[k[p][j]] = k[p][j+1] /\ pare[k[p][j]] = p
        BY <3>1, <4>1, <1>len, <1>5
      <4>5. j # Len(m[p])
        BY <3>1, <1>len
      <4> QED BY <4>1, <4>3, <4>4, <4>5
    <3>2. CASE j = i - 1
      <4>1. /\ j \in 1..Len(k[p]) /\ i # 1 /\ m[p][j] = k[p][i-1]
            /\ (i # Len(k[p]) => m[p][j+1] = k[p][i+1])
            /\ (j = Len(m[p]) <=> i = Len(k[p]))
        BY <3>2, <1>len, <1>3
      <4>2. k[p][j] \in Rec /\ k[p][j] # c /\ pare[k[p][j]] = p
        BY <3>2, <4>1, <1>len, <1>2, <1>5 DEF c
      <4>3. next_sibl'[m[p][j]] = next_sibl[c] /\ pare'[m[p][j]] = p
        BY <3>2, <4>1, <4>2, <1>7
      <4> QED BY <4>1, <4>3, <1>6
    <3>3. CASE j >= i
      <4>1. /\ j+1 \in 1..Len(k[p]) /\ j+1 # i /\ j+1 # i-1 /\ m[p][j] = k[p][j+1]
            /\ (i # 1 => i - 1 \in 1..Len(k[p]))
            /\ (j = Len(m[p]) <=> j+1 = Len(k[p]))
            /\ (j # Len(m[p]) => m[p][j+1] = k[p][j+2])
        <5>1. /\ ~(j < i) /\ ~(j+1 < i) /\ (j+1)+1 = j+2
              /\ j # Len(m[p]) => j+1 \in 1..Len(m[p])
          BY <3>3, <1>len
        <5>2. m[p][j] = k[p][j+1]
          BY <5>1, <1>3
        <5>3. j # Len(m[p]) => m[p][j+1] = k[p][(j+1)+1]
          BY <5>1, <1>3
        <5> QED BY <5>1, <5>2, <5>3, <3>3, <1>len
      <4>2. k[p][j+1] \in Rec /\ k[p][j+1] # c /\ (i = 1 \/ k[p][j+1] # k[p][i-1])
        BY <4>1, <1>len, <1>2, <1>5 DEF c
      <4>3. next_sibl'[k[p][j+1]] = next_sibl[k[p][j+1]] /\ pare'[k[p][j+1]] = pare[k[p][j+1]]
        BY <4>2, <1>7
      <4>4. /\ next_sibl[k[p][j+1]] = IF j+1 = Len(k[p]) THEN NULL ELSE k[p][(j+1)+1]
            /\ pare[k[p][j+1]] = p
        BY <4>1, <1>5
      <4>5. k[p][(j+1)+1] = k[p][j+2]
        BY <1>len
      <4> QED BY <4>1, <4>3, <4>4, <4>5
    <3> QED BY <3>1, <3>2, <3>3, <1>len
  <2>3. ASSUME NEW q \in Rec, q # p, NEW j \in 1..Len(m[q])
        PROVE  /\ next_sibl'[m[q][j]] = IF j = Len(m[q]) THEN NULL ELSE m[q][j+1]
               /\ pare'[m[q][j]] = q
    <3>1. m[q] = k[q] /\ k[q][j] \in Rec /\ k[q][j] # c /\ (i = 1 \/ k[q][j] # k[p][i-1])
      BY <2>3, <1>2, <1>4, <1>8
    <3>2. next_sibl'[k[q][j]] = next_sibl[k[q][j]] /\ pare'[k[q][j]] = pare[k[q][j]]
      BY <3>1, <1>7
    <3>3. /\ next_sibl[k[q][j]] = IF j = Len(k[q]) THEN NULL ELSE k[q][j+1]
          /\ pare[k[q][j]] = q
      BY <3>1, <1>5
    <3> QED BY <3>1, <3>2, <3>3
  <2> QED BY <2>1, <2>2, <2>3 DEF Described
<1>10. Exact(m)'
  <2>1. ASSUME NEW q \in Rec, NEW j \in 1..Len(m[q]), NEW l \in 1..Len(m[q]), m[q][j] = m[q][l]
        PROVE  j = l
    <3>1. CASE q # p
      BY <3>1, <2>1, <1>4, <1>5
    <3>2. CASE q = p
      <4> DEFINE at(x) == IF x < i THEN x ELSE x+1
      <4>1. /\ at(j) \in 1..Len(k[p]) /\ at(l) \in 1..Len(k[p])
            /\ at(j) = at(l) => j = l
        BY <3>2, <1>len
      <4>2. m[p][j] = k[p][at(j)] /\ m[p][l] = k[p][at(l)]
        BY <3>2, <1>3
      <4>3. k[p][at(j)] = k[p][at(l)]
        BY <4>2, <3>2, <2>1
      <4> HIDE DEF at
      <4> QED BY <4>1, <4>3, <1>5
    <3> QED BY <3>1, <3>2
  <2>2. ASSUME NEW d \in Rec, pare'[d] # NULL
        PROVE  \E j \in 1..Len(m[pare'[d]]) : m[pare'[d]][j] = d
    <3>1. d # c /\ pare'[d] = pare[d] /\ pare[d] \in Rec
      BY <2>2, <1>7 DEF TypeOK, Ptr
    <3>2. PICK j \in 1..Len(k[pare[d]]) : k[pare[d]][j] = d
      BY <3>1, <2>2 DEF Lists, Exact
    <3>3. CASE pare[d] = p
      <4>1. j # i
        BY <3>1, <3>2, <3>3 DEF c
      <4>2. CASE j < i
        <5>1. j \in 1..Len(m[p]) /\ m[p][j] = d
          BY <4>2, <3>2, <3>3, <1>len, <1>3
        <5> QED BY <5>1, <3>1, <3>3
      <4>3. CASE j > i
        <5>1. j-1 \in 1..Len(m[p]) /\ ~(j-1 < i) /\ (j-1)+1 = j
          BY <4>3, <3>2, <3>3, <1>len
        <5>2. m[p][j-1] = d
          BY <5>1, <3>2, <3>3, <1>3
        <5> QED BY <5>1, <5>2, <3>1, <3>3
      <4> QED BY <4>1, <4>2, <4>3, <1>len, <3>2, <3>3
    <3>4. CASE pare[d] # p
      BY <3>1, <3>2, <3>4, <1>4
    <3> QED BY <3>3, <3>4
  <2>3. ASSUME NEW d \in Rec, pare'[d] = NULL
        PROVE  next_sibl'[d] = NULL
    <3>1. CASE d = c
      BY <3>1, <1>7
    <3>2. CASE d # c
      <4>1. pare[d] = NULL /\ next_sibl[d] = NULL
        BY <3>2, <2>3, <1>7 DEF Lists, Exact
      <4>2. i # 1 => d # k[p][i-1]
        <5>1. i # 1 => i - 1 \in 1..Len(k[p])
          BY <1>len
        <5>2. i # 1 => pare[k[p][i-1]] = p
          BY <5>1, <1>5
        <5> QED BY <5>2, <4>1, NullNotRec
      <4> QED BY <3>2, <4>1, <4>2, <1>7
    <3> QED BY <3>1, <3>2
  <2> QED BY <2>1, <2>2, <2>3 DEF Exact
<1>11. Cursor(m)'
  BY DEF Cursor, Unlinked
<1> QED BY <1>4, <1>9, <1>10, <1>11

-------------------------------------------------------------------------------
LEMMA InitInv == Init => Inv
<1> SUFFICES ASSUME Init PROVE Inv
  OBVIOUS
<1>1. TypeOK
  BY DEF Init, TypeOK, Ptr
<1> DEFINE k == [p \in Rec |-> << >>]
<1>2. k \in [Rec -> Seq(Rec)] /\ \A p \in Rec : Len(k[p]) = 0 /\ 1..Len(k[p]) = {}
  OBVIOUS
<1> HIDE DEF k
<1>3. Lists(k)
  BY <1>2 DEF Init, Lists, Described, Exact, Cursor
<1> QED BY <1>1, <1>2, <1>3 DEF Inv

\* Types are kept by every action; call always names records.
LEMMA NextTypes == TypeOK /\ [Next]_vars => TypeOK'
<1> SUFFICES ASSUME TypeOK, [Next]_vars PROVE TypeOK'
  OBVIOUS
<1> USE NullNotRec DEF TypeOK, Ptr, Call
<1>1. ASSUME NEW p \in Rec, NEW c \in Rec, atta_chil(p, c) PROVE TypeOK'
  BY <1>1 DEF atta_chil
<1>2. ASSUME NEW p \in Rec, NEW c \in Rec, deta_head(p, c) PROVE TypeOK'
  BY <1>2 DEF deta_head
<1>3. ASSUME NEW p \in Rec, NEW c \in Rec, deta_walk(p, c) PROVE TypeOK'
  BY <1>3 DEF deta_walk
<1>4. CASE deta_next
  BY <1>4 DEF deta_next
<1>5. CASE deta_miss
  BY <1>5 DEF deta_miss
<1>6. CASE deta_unlink
  BY <1>6 DEF deta_unlink
<1>7. CASE UNCHANGED vars
  BY <1>7 DEF vars
<1> QED BY <1>1, <1>2, <1>3, <1>4, <1>5, <1>6, <1>7 DEF Next, Walk

\* The walk leaves the pointers alone, so the same lists describe them.
LEMMA SamePointers ==
  ASSUME NEW k, Described(k), Exact(k), UNCHANGED <<pare, firs_chil, next_sibl>>
  PROVE  Described(k)' /\ Exact(k)'
BY DEF Described, Exact

\* What a step does to the lists: nothing, a record is put in front of one, or
\* one is taken out.
Stepped(k, m) ==
  \/ m = k /\ pare' = pare
  \/ \E p, c \in Rec : /\ p # c /\ pare[c] = NULL
                       /\ m = [k EXCEPT ![p] = <<c>> \o k[p]]
                       /\ pare' = [pare EXCEPT ![c] = p]
  \/ \E p \in Rec : \E i \in 1..Len(k[p]) :
       /\ m = [k EXCEPT ![p] = RemoveAt(k[p], i)]
       /\ pare' = [pare EXCEPT ![k[p][i]] = NULL]

LEMMA StepLists ==
  ASSUME TypeOK, NEW k \in [Rec -> Seq(Rec)], Lists(k), [Next]_vars
  PROVE  \E m \in [Rec -> Seq(Rec)] : /\ Described(m)' /\ Exact(m)' /\ Cursor(m)'
                                      /\ Stepped(k, m)
<1> DEFINE Goal == \E m \in [Rec -> Seq(Rec)] : /\ Described(m)' /\ Exact(m)' /\ Cursor(m)'
                                                /\ Stepped(k, m)
<1> SUFFICES Goal
  OBVIOUS
<1>2. ASSUME Described(k)', Exact(k)', Cursor(k)', pare' = pare
      PROVE  Goal
  BY <1>2 DEF Stepped
<1> HIDE DEF Goal
<1>3. ASSUME NEW p \in Rec
      PROVE  Len(k[p]) \in Nat /\ \A i \in 1..Len(k[p]) : k[p][i] \in Rec
  BY LenProperties, ElementOfSeq
<1>4. /\ \A q \in Rec : firs_chil[q] = IF Len(k[q]) = 0 THEN NULL ELSE k[q][1]
      /\ \A q \in Rec : \A j \in 1..Len(k[q]) :
            next_sibl[k[q][j]] = IF j = Len(k[q]) THEN NULL ELSE k[q][j+1]
  BY DEF Lists, Described
<1>5. ASSUME NEW p \in Rec, NEW c \in Rec, atta_chil(p, c)
      PROVE  Goal
  <2> DEFINE m == [k EXCEPT ![p] = <<c>> \o k[p]]
  <2>1. m \in [Rec -> Seq(Rec)] /\ Described(m)' /\ Exact(m)' /\ Cursor(m)'
    BY <1>5, AttachKeepsLists
  <2>2. Stepped(k, m)
    BY <1>5 DEF atta_chil, Stepped
  <2> HIDE DEF m
  <2> QED BY <2>1, <2>2 DEF Goal
<1>13. ASSUME NEW p \in Rec, NEW i \in 1..Len(k[p]), Unlinked(k, p, i)
       PROVE  Goal
  <2> DEFINE m == [k EXCEPT ![p] = RemoveAt(k[p], i)]
  <2>1. m \in [Rec -> Seq(Rec)] /\ Described(m)' /\ Exact(m)' /\ Cursor(m)'
    BY <1>13, UnlinkKeepsLists
  <2>2. Stepped(k, m)
    BY <1>13 DEF Unlinked, Stepped
  <2> HIDE DEF m
  <2> QED BY <2>1, <2>2 DEF Goal
<1>6. ASSUME NEW p \in Rec, NEW c \in Rec, deta_head(p, c)
      PROVE  Goal
  <2>1. firs_chil[p] = c /\ c # NULL
    BY <1>6, NullNotRec DEF deta_head
  <2>2. Len(k[p]) # 0 /\ k[p][1] = c /\ 1 \in 1..Len(k[p])
    BY <2>1, <1>3, <1>4
  <2>3. Unlinked(k, p, 1)
    BY <1>6, <2>2 DEF deta_head, Unlinked
  <2> QED BY <2>2, <2>3, <1>13
<1>7. ASSUME NEW p \in Rec, NEW c \in Rec, deta_walk(p, c)
      PROVE  Goal
  <2>1. Described(k)' /\ Exact(k)'
    BY <1>7, SamePointers DEF deta_walk, Lists
  <2>2. firs_chil[p] # NULL /\ firs_chil[p] # c
        /\ call' = [pare |-> p, chil |-> c, curr |-> firs_chil[p]]
    BY <1>7 DEF deta_walk
  <2>3. 1 \in 1..Len(k[p]) /\ k[p][1] = firs_chil[p] /\ \A j \in 1..1 : k[p][j] # c
    BY <2>2, <1>3, <1>4
  <2>4. Cursor(k)'
    BY <2>2, <2>3 DEF Cursor
  <2> QED BY <1>2, <1>7, <2>1, <2>4 DEF deta_walk
<1>8. ASSUME call # NULL
      PROVE  /\ call \in Call
             /\ \E i \in 1..Len(k[call.pare]) : /\ k[call.pare][i] = call.curr
                                                /\ \A j \in 1..i : k[call.pare][j] # call.chil
  BY <1>8 DEF TypeOK, Lists, Cursor
<1>9. CASE deta_next
  <2>1. Described(k)' /\ Exact(k)'
    BY <1>9, SamePointers DEF deta_next, Lists
  <2>2. /\ call # NULL /\ next_sibl[call.curr] # call.chil /\ next_sibl[call.curr] # NULL
        /\ call' = [call EXCEPT !.curr = next_sibl[call.curr]]
    BY <1>9 DEF deta_next
  <2>3. PICK i \in 1..Len(k[call.pare]) : /\ k[call.pare][i] = call.curr
                                          /\ \A j \in 1..i : k[call.pare][j] # call.chil
    BY <2>2, <1>8
  <2>4. /\ call.pare \in Rec
        /\ call'.pare = call.pare /\ call'.chil = call.chil /\ call'.curr = next_sibl[call.curr]
    BY <2>2, <1>8 DEF Call
  <2>5. i # Len(k[call.pare]) /\ k[call.pare][i+1] = next_sibl[call.curr]
    BY <2>2, <2>3, <2>4, <1>4
  <2>6. i+1 \in 1..Len(k[call.pare]) /\ \A j \in 1..(i+1) : j \in 1..i \/ j = i+1
    BY <2>4, <2>5, <1>3
  <2>7. \A j \in 1..(i+1) : k[call.pare][j] # call.chil
    BY <2>2, <2>3, <2>5, <2>6
  <2>8. Cursor(k)'
    BY <2>4, <2>5, <2>6, <2>7 DEF Cursor
  <2> QED BY <1>2, <1>9, <2>1, <2>8 DEF deta_next
<1>10. CASE deta_miss
  <2>1. Described(k)' /\ Exact(k)'
    BY <1>10, SamePointers DEF deta_miss, Lists
  <2>2. Cursor(k)'
    BY <1>10 DEF deta_miss, Cursor
  <2> QED BY <1>2, <1>10, <2>1, <2>2 DEF deta_miss
<1>11. CASE deta_unlink
  <2>1. call # NULL /\ next_sibl[call.curr] = call.chil
    BY <1>11 DEF deta_unlink
  <2>2. PICK i \in 1..Len(k[call.pare]) : k[call.pare][i] = call.curr
    BY <2>1, <1>8
  <2>3. call.pare \in Rec /\ call.chil \in Rec /\ call.chil # NULL
    BY <2>1, <1>8, NullNotRec DEF Call
  <2>4. i # Len(k[call.pare]) /\ k[call.pare][i+1] = call.chil
    BY <2>1, <2>2, <2>3, <1>4
  <2>5. i+1 \in 1..Len(k[call.pare]) /\ i+1 # 1 /\ (i+1)-1 = i
    BY <2>3, <2>4, <1>3
  <2>6. Unlinked(k, call.pare, i+1)
    BY <1>11, <2>2, <2>4, <2>5 DEF deta_unlink, Unlinked
  <2> QED BY <2>3, <2>5, <2>6, <1>13
<1>12. CASE UNCHANGED vars
  <2>1. Described(k)' /\ Exact(k)'
    BY <1>12, SamePointers DEF vars, Lists
  <2>2. Cursor(k)'
    BY <1>12 DEF vars, Lists, Cursor
  <2> QED BY <1>2, <1>12, <2>1, <2>2 DEF vars
<1> QED BY <1>5, <1>6, <1>7, <1>9, <1>10, <1>11, <1>12 DEF Next, Walk

LEMMA NextInv == Inv /\ [Next]_vars => Inv'
<1> SUFFICES ASSUME Inv, [Next]_vars PROVE Inv'
  OBVIOUS
<1>1. TypeOK /\ TypeOK'
  BY NextTypes DEF Inv
<1>2. PICK k \in [Rec -> Seq(Rec)] : Lists(k)
  BY DEF Inv
<1>3. PICK m \in [Rec -> Seq(Rec)] : Described(m)' /\ Exact(m)' /\ Cursor(m)'
  BY <1>1, <1>2, StepLists
<1> QED BY <1>1, <1>3 DEF Inv, Lists

-------------------------------------------------------------------------------
(* The links of every record and the cursor of a running deta_chil always    *)
(* hold a record or NULL (struct proc, ser_proc.h:31-33).                     *)
THEOREM TypeCorrect == Spec => []TypeOK
<1>1. Init => TypeOK
  BY InitInv DEF Inv
<1> QED BY <1>1, NextTypes, PTL DEF Spec

(* Some child sequence per record describes the pointers in every state.     *)
THEOREM Invariance == Spec => []Inv
BY InitInv, NextInv, PTL DEF Spec

(* A record that is somebody's parent has a first child, so                  *)
(* deta_chil(c->pare, c) never dereferences NULL (ser_proc.c:98-99).          *)
THEOREM ParentsHaveKids == Spec => []ParentHasKids
<1>1. Inv => ParentHasKids
  <2> SUFFICES ASSUME Inv, NEW c \in Rec, pare[c] # NULL PROVE firs_chil[pare[c]] # NULL
    BY DEF ParentHasKids
  <2>1. PICK k \in [Rec -> Seq(Rec)] : Lists(k)
    BY DEF Inv
  <2>2. pare[c] \in Rec
    BY DEF Inv, TypeOK, Ptr
  <2>3. PICK i \in 1..Len(k[pare[c]]) : k[pare[c]][i] = c
    BY <2>1, <2>2 DEF Lists, Exact
  <2>4. Len(k[pare[c]]) # 0 /\ 1 \in 1..Len(k[pare[c]]) /\ k[pare[c]][1] \in Rec
    BY <2>2, <2>3, LenProperties, ElementOfSeq
  <2>5. firs_chil[pare[c]] = k[pare[c]][1]
    BY <2>1, <2>2, <2>4 DEF Lists, Described
  <2> QED BY <2>4, <2>5, NullNotRec
<1> QED BY <1>1, Invariance, PTL

(* While deta_chil(c->pare, c) walks, c is still ahead: it never answers -1   *)
(* (ser_proc.c:99-103), which even_exit would take for a dead process without  *)
(* parent.                                                                    *)
THEOREM WalksFind == Spec => []WalkFinds
<1>1. Inv => WalkFinds
  <2> SUFFICES ASSUME Inv, call # NULL, pare[call.chil] = call.pare
               PROVE  next_sibl[call.curr] # NULL
    BY DEF WalkFinds
  <2>1. PICK k \in [Rec -> Seq(Rec)] : Lists(k)
    BY DEF Inv
  <2>2. call.pare \in Rec /\ call.chil \in Rec /\ call.pare # NULL
    BY NullNotRec DEF Inv, TypeOK, Call
  <2>c. Cursor(k)
    BY <2>1 DEF Lists
  <2>3. PICK i \in 1..Len(k[call.pare]) : /\ k[call.pare][i] = call.curr
                                          /\ \A j \in 1..i : k[call.pare][j] # call.chil
    BY <2>c DEF Cursor
  <2>e. Exact(k)
    BY <2>1 DEF Lists
  <2>f. \E j \in 1..Len(k[pare[call.chil]]) : k[pare[call.chil]][j] = call.chil
    BY <2>e, <2>2 DEF Exact
  <2>4. PICK j \in 1..Len(k[call.pare]) : k[call.pare][j] = call.chil
    BY <2>f
  <2>5. Len(k[call.pare]) \in Nat
    BY <2>2, LenProperties
  <2>6. ~(j \in 1..i)
    BY <2>3, <2>4
  <2>7. i # Len(k[call.pare]) /\ i+1 \in 1..Len(k[call.pare])
    BY <2>5, <2>6
  <2>8. next_sibl[call.curr] = k[call.pare][i+1]
    BY <2>1, <2>2, <2>3, <2>7 DEF Lists, Described
  <2>9. k[call.pare][i+1] \in Rec
    BY <2>2, <2>7, ElementOfSeq
  <2> QED BY <2>8, <2>9, NullNotRec
<1> QED BY <1>1, Invariance, PTL

(* No two records share a successor and no first child is a successor, so    *)
(* unlinking one child never drops another (ser_proc.c:104).                  *)
THEOREM SuccessorsUnique == Spec => []NoSharing
<1>1. Inv => NoSharing
  <2> SUFFICES ASSUME Inv PROVE NoSharing
    OBVIOUS
  <2>1. PICK k \in [Rec -> Seq(Rec)] : Lists(k)
    BY DEF Inv
  <2>2. ASSUME NEW q \in Rec
        PROVE  Len(k[q]) \in Nat /\ \A i \in 1..Len(k[q]) : k[q][i] \in Rec
    BY LenProperties, ElementOfSeq
  <2>3. /\ \A q \in Rec : firs_chil[q] = IF Len(k[q]) = 0 THEN NULL ELSE k[q][1]
        /\ \A q \in Rec : \A i \in 1..Len(k[q]) :
             next_sibl[k[q][i]] = IF i = Len(k[q]) THEN NULL ELSE k[q][i+1]
        /\ \A q \in Rec : \A i \in 1..Len(k[q]) : pare[k[q][i]] = q
        /\ \A q \in Rec : \A i, j \in 1..Len(k[q]) : k[q][i] = k[q][j] => i = j
    BY <2>1 DEF Lists, Described, Exact
  <2>once. ASSUME NEW q \in Rec, NEW r \in Rec,
               NEW i \in 1..Len(k[q]), NEW j \in 1..Len(k[r]), k[q][i] = k[r][j]
        PROVE  q = r /\ i = j
    <3>1. pare[k[q][i]] = q /\ pare[k[r][j]] = r
      BY <2>3
    <3>2. q = r
      BY <3>1, <2>once
    <3> QED BY <3>2, <2>3, <2>once
  <2>4. ASSUME NEW c \in Rec, next_sibl[c] # NULL
        PROVE  \E q \in Rec : \E i \in 1..Len(k[q]) :
                 /\ c = k[q][i] /\ i+1 \in 1..Len(k[q]) /\ next_sibl[c] = k[q][i+1]
    <3>1. pare[c] \in Rec
      BY <2>1, <2>4 DEF Inv, TypeOK, Ptr, Lists, Exact
    <3>2. PICK i \in 1..Len(k[pare[c]]) : k[pare[c]][i] = c
      BY <2>1, <3>1, NullNotRec DEF Lists, Exact
    <3>3. i # Len(k[pare[c]]) /\ next_sibl[c] = k[pare[c]][i+1]
      BY <2>3, <2>4, <3>1, <3>2
    <3>4. i+1 \in 1..Len(k[pare[c]])
      BY <2>2, <3>1, <3>3
    <3> QED BY <3>1, <3>2, <3>3, <3>4
  <2>5. ASSUME NEW c \in Rec, NEW d \in Rec, next_sibl[c] = next_sibl[d], next_sibl[c] # NULL
        PROVE  c = d
    <3>1. PICK q \in Rec : \E i \in 1..Len(k[q]) :
                 /\ c = k[q][i] /\ i+1 \in 1..Len(k[q]) /\ next_sibl[c] = k[q][i+1]
      BY <2>4, <2>5
    <3>2. PICK i \in 1..Len(k[q]) :
                 /\ c = k[q][i] /\ i+1 \in 1..Len(k[q]) /\ next_sibl[c] = k[q][i+1]
      BY <3>1
    <3>3. PICK r \in Rec : \E j \in 1..Len(k[r]) :
                 /\ d = k[r][j] /\ j+1 \in 1..Len(k[r]) /\ next_sibl[d] = k[r][j+1]
      BY <2>4, <2>5
    <3>4. PICK j \in 1..Len(k[r]) :
                 /\ d = k[r][j] /\ j+1 \in 1..Len(k[r]) /\ next_sibl[d] = k[r][j+1]
      BY <3>3
    <3>5. k[q][i+1] = k[r][j+1]
      BY <2>5, <3>2, <3>4
    <3>6. q = r
      BY <2>once, <3>2, <3>4, <3>5
    <3>7. i+1 = j+1
      <4> DEFINE x == i+1
                 y == j+1
      <4>1. x \in 1..Len(k[q]) /\ y \in 1..Len(k[r]) /\ k[q][x] = k[r][y]
        BY <3>2, <3>4, <3>5
      <4> HIDE DEF x, y
      <4>2. x = y
        BY <2>once, <4>1
      <4> QED BY <4>2 DEF x, y
    <3>8. i = j
      BY <3>7
    <3> QED BY <3>2, <3>4, <3>6, <3>8
  <2>6. ASSUME NEW p \in Rec, NEW c \in Rec, firs_chil[p] # NULL, next_sibl[c] = firs_chil[p]
        PROVE  FALSE
    <3>1. PICK q \in Rec : \E i \in 1..Len(k[q]) :
                 /\ c = k[q][i] /\ i+1 \in 1..Len(k[q]) /\ next_sibl[c] = k[q][i+1]
      BY <2>4, <2>6
    <3>2. PICK i \in 1..Len(k[q]) :
                 /\ c = k[q][i] /\ i+1 \in 1..Len(k[q]) /\ next_sibl[c] = k[q][i+1]
      BY <3>1
    <3>3. Len(k[p]) # 0 /\ firs_chil[p] = k[p][1]
      BY <2>3, <2>6
    <3>4. 1 \in 1..Len(k[p])
      BY <2>2, <3>3
    <3>5. k[p][1] = k[q][i+1]
      BY <2>6, <3>2, <3>3
    <3> DEFINE x == i+1
    <3>6. x \in 1..Len(k[q]) /\ k[p][1] = k[q][x] /\ x # 1
      BY <3>2, <3>5
    <3> HIDE DEF x
    <3>7. p = q /\ 1 = x
      BY <2>once, <3>4, <3>6
    <3> QED BY <3>6, <3>7
  <2> QED BY <2>5, <2>6 DEF NoSharing
<1> QED BY <1>1, Invariance, PTL
-------------------------------------------------------------------------------
\* The recursive function of Chain: the list along nx from a pointer.
Along(nx) ==
  LET from[c \in Ptr] == IF c = NULL THEN <<>> ELSE <<c>> \o from[nx[c]]
  IN  from

\* The rest of list s from its i-th element on.
From(s, i) == SubSeq(s, i, Len(s))

\* The elements of a list are followed by each other and the last by nothing.
LEMMA FromStep ==
  ASSUME NEW s \in Seq(Rec), NEW i \in 1..Len(s)
  PROVE  /\ i < Len(s) => i+1 \in 1..Len(s) /\ From(s, i) = <<s[i]>> \o From(s, i+1)
         /\ i = Len(s) => From(s, i) = <<s[i]>> \o <<>>
<1>1. Len(s) \in Nat /\ s[i] \in Rec
  BY LenProperties, ElementOfSeq
<1>2. /\ From(s, i) \in Seq(Rec) /\ Len(From(s, i)) = Len(s) - i + 1
      /\ \A j \in 1..(Len(s) - i + 1) : From(s, i)[j] = s[i + j - 1]
  BY <1>1, SubSeqProperties DEF From
<1>3. CASE i < Len(s)
  <2> DEFINE t == From(s, i+1)
  <2>1. i+1 \in 1..Len(s)
    BY <1>1, <1>3
  <2>2. /\ t \in Seq(Rec) /\ Len(t) = Len(s) - i
        /\ \A j \in 1..(Len(s) - i) : t[j] = s[i + j]
    <3>1. /\ t \in Seq(Rec) /\ Len(t) = Len(s) - (i+1) + 1
          /\ \A j \in 1..(Len(s) - (i+1) + 1) : t[j] = s[(i+1) + j - 1]
      BY <1>1, <2>1, SubSeqProperties DEF From
    <3>2. Len(s) - (i+1) + 1 = Len(s) - i /\ \A j \in 1..(Len(s) - i) : (i+1) + j - 1 = i + j
      BY <1>1
    <3> HIDE DEF t
    <3> QED BY <3>1, <3>2
  <2> HIDE DEF t
  <2>3. /\ <<s[i]>> \o t \in Seq(Rec) /\ Len(<<s[i]>> \o t) = Len(t) + 1
        /\ (<<s[i]>> \o t)[1] = s[i]
        /\ \A j \in 2..(Len(t) + 1) : (<<s[i]>> \o t)[j] = t[j-1]
    BY <1>1, <2>2, ConsProperties
  <2>4. Len(From(s, i)) = Len(<<s[i]>> \o t)
    BY <1>1, <1>2, <2>2, <2>3
  <2>5. ASSUME NEW j \in 1..Len(From(s, i))
        PROVE  From(s, i)[j] = (<<s[i]>> \o t)[j]
    <3>1. From(s, i)[j] = s[i + j - 1]
      BY <1>2
    <3>2. CASE j = 1
      BY <3>1, <3>2, <2>3, <1>1
    <3>3. CASE j # 1
      <4>1. j \in 2..(Len(t) + 1) /\ j-1 \in 1..(Len(s) - i) /\ i + (j-1) = i + j - 1
        BY <3>3, <1>1, <1>2, <2>2
      <4> QED BY <4>1, <3>1, <2>2, <2>3
    <3> QED BY <3>2, <3>3
  <2>6. From(s, i) = <<s[i]>> \o t
    BY <1>2, <2>3, <2>4, <2>5, SeqEqual
  <2> QED BY <1>1, <1>3, <2>1, <2>6 DEF t
<1>4. CASE i = Len(s)
  <2>1. Len(From(s, i)) = 1 /\ From(s, i)[1] = s[i]
    BY <1>1, <1>2, <1>4
  <2>2. <<>> \in Seq(Rec) /\ Len(<<>>) = 0
    BY EmptySeq
  <2>3. /\ <<s[i]>> \o <<>> \in Seq(Rec) /\ Len(<<s[i]>> \o <<>>) = 1
        /\ (<<s[i]>> \o <<>>)[1] = s[i]
    BY <1>1, <2>2, ConsProperties
  <2>4. \A j \in 1..1 : From(s, i)[j] = (<<s[i]>> \o <<>>)[j]
    BY <2>1, <2>3
  <2>5. From(s, i) = <<s[i]>> \o <<>>
    BY <1>2, <2>1, <2>3, <2>4, SeqEqual
  <2> QED BY <1>1, <1>4, <2>5
<1> QED BY <1>1, <1>3, <1>4

\* nx spells out the lists of k: what Described and Exact say of next_sibl and
\* pare, for any two functions.
Spelled(k, nx, pa) ==
  /\ \A p \in Rec : \A i \in 1..Len(k[p]) :
       /\ nx[k[p][i]] = IF i = Len(k[p]) THEN NULL ELSE k[p][i+1]
       /\ pa[k[p][i]] = p
  /\ \A p \in Rec : \A i, j \in 1..Len(k[p]) : k[p][i] = k[p][j] => i = j
  /\ \A c \in Rec : pa[c] # NULL => \E i \in 1..Len(k[pa[c]]) : k[pa[c]][i] = c
  /\ \A c \in Rec : pa[c] = NULL => nx[c] = NULL

\* The recursion has a solution, so Along is one: the rest of the list a record
\* is in, or the record alone.
LEMMA AlongUnfolds ==
  ASSUME NEW k \in [Rec -> Seq(Rec)], NEW nx \in [Rec -> Ptr], NEW pa \in [Rec -> Ptr],
         Spelled(k, nx, pa)
  PROVE  Along(nx) = [c \in Ptr |-> IF c = NULL THEN <<>> ELSE <<c>> \o Along(nx)[nx[c]]]
<1> DEFINE at(c) == CHOOSE i \in 1..Len(k[pa[c]]) : k[pa[c]][i] = c
           rest(c) == IF pa[c] = NULL THEN <<c>> \o <<>> ELSE From(k[pa[c]], at(c))
           g == [c \in Ptr |-> IF c = NULL THEN <<>> ELSE rest(c)]
           body(f, c) == IF c = NULL THEN <<>> ELSE <<c>> \o f[nx[c]]
<1>1. ASSUME NEW p \in Rec, NEW i \in 1..Len(k[p])
      PROVE  k[p][i] \in Rec /\ pa[k[p][i]] = p /\ at(k[p][i]) = i
  <2>1. k[p][i] \in Rec
    BY ElementOfSeq
  <2>2. pa[k[p][i]] = p
    BY DEF Spelled
  <2>3. at(k[p][i]) \in 1..Len(k[p]) /\ k[p][at(k[p][i])] = k[p][i]
    BY <2>2
  <2> HIDE DEF at
  <2>4. at(k[p][i]) = i
    BY <2>3 DEF Spelled
  <2> QED BY <2>1, <2>2, <2>4
<1>2. ASSUME NEW p \in Rec, NEW i \in 1..Len(k[p])
      PROVE  k[p][i] # NULL /\ k[p][i] \in Ptr /\ rest(k[p][i]) = From(k[p], i)
  <2> HIDE DEF at
  <2> QED BY <1>1, NullNotRec DEF Ptr
<1>3. g[NULL] = <<>> /\ \A c \in Rec : g[c] = rest(c)
  <2> HIDE DEF rest
  <2> QED BY NullNotRec DEF Ptr
<1>4. ASSUME NEW c \in Rec PROVE g[c] = <<c>> \o g[nx[c]]
  <2>1. CASE pa[c] = NULL
    <3>1. nx[c] = NULL
      BY <2>1 DEF Spelled
    <3>2. rest(c) = <<c>> \o <<>>
      BY <2>1
    <3> HIDE DEF g, rest
    <3> QED BY <3>1, <3>2, <1>3
  <2>2. CASE pa[c] # NULL
    <3>1. pa[c] \in Rec
      BY <2>2 DEF Ptr
    <3>2. PICK i \in 1..Len(k[pa[c]]) : k[pa[c]][i] = c
      BY <2>2 DEF Spelled
    <3>3. PICK p \in Rec : p = pa[c]
      BY <3>1
    <3>4. i \in 1..Len(k[p]) /\ k[p][i] = c /\ Len(k[p]) \in Nat
      BY <3>2, <3>3, LenProperties
    <3>5. nx[c] = IF i = Len(k[p]) THEN NULL ELSE k[p][i+1]
      BY <3>4 DEF Spelled
    <3>6. rest(c) = From(k[p], i)
      <4> HIDE DEF rest
      <4> QED BY <3>4, <1>2
    <3>7. /\ i < Len(k[p]) => i+1 \in 1..Len(k[p]) /\ From(k[p], i) = <<c>> \o From(k[p], i+1)
          /\ i = Len(k[p]) => From(k[p], i) = <<c>> \o <<>>
      BY <3>4, FromStep
    <3> HIDE DEF g, rest
    <3>8. CASE i = Len(k[p])
      BY <3>5, <3>6, <3>7, <3>8, <1>3
    <3>9. CASE i # Len(k[p])
      <4>1. i < Len(k[p])
        BY <3>4, <3>9
      <4>2. i+1 \in 1..Len(k[p]) /\ nx[c] = k[p][i+1]
        BY <3>5, <3>7, <3>9, <4>1
      <4>3. g[nx[c]] = From(k[p], i+1)
        <5> DEFINE j == i+1
        <5>1. j \in 1..Len(k[p]) /\ nx[c] = k[p][j]
          BY <4>2
        <5> HIDE DEF j
        <5>2. g[k[p][j]] = From(k[p], j)
          BY <5>1, <1>1, <1>2, <1>3
        <5> QED BY <5>1, <5>2 DEF j
      <4> QED BY <3>6, <3>7, <4>1, <4>3, <1>3
    <3> QED BY <3>8, <3>9
  <2> QED BY <2>1, <2>2
<1>5. g = [c \in Ptr |-> body(g, c)]
  <2>1. \A c \in Ptr : g[c] = body(g, c)
    <3> TAKE c \in Ptr
    <3> HIDE DEF g
    <3>1. c = NULL \/ (c \in Rec /\ c # NULL)
      BY NullNotRec DEF Ptr
    <3> QED BY <3>1, <1>3, <1>4
  <2>2. g = [c \in Ptr |-> g[c]]
    <3> HIDE DEF rest
    <3> QED OBVIOUS
  <2> HIDE DEF g, body
  <2> QED BY <2>1, <2>2
<1>6. \E f : f = [c \in Ptr |-> body(f, c)]
  <2> HIDE DEF g, body
  <2> QED BY <1>5
<1> DEFINE a == CHOOSE f : f = [c \in Ptr |-> body(f, c)]
<1>7. a = [c \in Ptr |-> body(a, c)]
  <2> HIDE DEF body
  <2> QED BY <1>6
<1>8. Along(nx) = a
  BY DEF Along
<1> HIDE DEF a
<1> QED BY <1>7, <1>8

\* What Along returns: a counterexample as near as possible to the end of its
\* list would make the next element one.
LEMMA AlongSpells ==
  ASSUME NEW k \in [Rec -> Seq(Rec)], NEW nx \in [Rec -> Ptr], NEW pa \in [Rec -> Ptr],
         Spelled(k, nx, pa), NEW p \in Rec
  PROVE  Along(nx)[IF Len(k[p]) = 0 THEN NULL ELSE k[p][1]] = k[p]
<1> DEFINE f == Along(nx)
           s == k[p]
           n == Len(s)
           wrong == {d \in Nat : \E i \in 1..n : n - i = d /\ f[s[i]] # From(s, i)}
<1>1. n \in Nat /\ s \in Seq(Rec) /\ \A i \in 1..n : s[i] \in Rec /\ s[i] # NULL
  BY LenProperties, ElementOfSeq, NullNotRec
<1>2. f[NULL] = <<>> /\ \A c \in Rec : f[c] = <<c>> \o f[nx[c]]
  <2>1. f = [c \in Ptr |-> IF c = NULL THEN <<>> ELSE <<c>> \o f[nx[c]]]
    BY AlongUnfolds
  <2> HIDE DEF f
  <2>2. NULL \in Ptr /\ \A c \in Rec : c \in Ptr /\ c # NULL
    BY NullNotRec DEF Ptr
  <2>3. \A c \in Ptr : f[c] = IF c = NULL THEN <<>> ELSE <<c>> \o f[nx[c]]
    BY <2>1
  <2> QED BY <2>2, <2>3
<1>3. \A i \in 1..n : nx[s[i]] = IF i = n THEN NULL ELSE s[i+1]
  BY DEF Spelled
<1>4. \A i \in 1..n : /\ i < n => i+1 \in 1..n /\ From(s, i) = <<s[i]>> \o From(s, i+1)
                      /\ i = n => From(s, i) = <<s[i]>> \o <<>>
  BY <1>1, FromStep
<1> HIDE DEF f, s, n
<1>5. wrong = {}
  <2> SUFFICES ASSUME wrong # {} PROVE FALSE
    OBVIOUS
  <2>1. PICK d \in wrong : \A e \in wrong : d <= e
    <3>1. wrong \subseteq Nat
      OBVIOUS
    <3> HIDE DEF wrong
    <3> QED BY <3>1, MinExists
  <2>2. PICK i \in 1..n : n - i = d /\ f[s[i]] # From(s, i)
    OBVIOUS
  <2>3. f[s[i]] = <<s[i]>> \o f[nx[s[i]]]
    BY <1>1, <1>2
  <2>4. i # n
    BY <1>2, <1>3, <1>4, <2>2, <2>3
  <2>5. i < n /\ i+1 \in 1..n /\ nx[s[i]] = s[i+1]
    BY <1>1, <1>3, <1>4, <2>4
  <2>6. f[s[i+1]] # From(s, i+1)
    BY <1>4, <2>2, <2>3, <2>5
  <2> DEFINE j == i+1
  <2>7. j \in 1..n /\ n - j \in Nat /\ n - j < d /\ f[s[j]] # From(s, j)
    BY <1>1, <2>2, <2>5, <2>6
  <2> HIDE DEF j
  <2>8. n - j \in wrong
    BY <2>7
  <2>9. d \in Nat /\ d <= n - j
    BY <2>1, <2>8
  <2> QED BY <1>1, <2>7, <2>9
<1>6. \A i \in 1..n : f[s[i]] = From(s, i)
  <2>1. \A i \in 1..n : n - i \in Nat
    BY <1>1
  <2> QED BY <1>5, <2>1
<1>7. CASE n = 0
  <2>1. s = <<>>
    BY <1>1, <1>7, EmptySeq DEF n
  <2> QED BY <1>2, <1>7, <2>1 DEF f, s, n
<1>8. CASE n # 0
  <2>1. 1 \in 1..n
    BY <1>1, <1>8
  <2>2. f[s[1]] = From(s, 1)
    BY <1>6, <2>1
  <2>3. From(s, 1) = s
    <3>1. /\ From(s, 1) \in Seq(Rec) /\ Len(From(s, 1)) = n
          /\ \A j \in 1..n : From(s, 1)[j] = s[j]
      <4>1. /\ From(s, 1) \in Seq(Rec) /\ Len(From(s, 1)) = n - 1 + 1
            /\ \A j \in 1..(n - 1 + 1) : From(s, 1)[j] = s[1 + j - 1]
        BY <1>1, <2>1, SubSeqProperties DEF From, n
      <4>2. n - 1 + 1 = n /\ \A j \in 1..n : 1 + j - 1 = j
        BY <1>1
      <4> QED BY <4>1, <4>2
    <3> QED BY <1>1, <3>1, SeqEqual DEF n
  <2> QED BY <1>8, <2>2, <2>3 DEF f, s, n
<1> QED BY <1>7, <1>8

\* The lists of the invariant are the chains of the refinement.
ChainsAreLists ==
  \A k \in [Rec -> Seq(Rec)] :
    TypeOK /\ Described(k) /\ Exact(k) => [p \in Rec |-> Chain(p)] = k

LEMMA ChainsSpell == ChainsAreLists
<1> SUFFICES ASSUME NEW k \in [Rec -> Seq(Rec)], TypeOK, Described(k), Exact(k)
             PROVE  [p \in Rec |-> Chain(p)] = k
  BY DEF ChainsAreLists
<1>1. PICK nx \in [Rec -> Ptr] : nx = next_sibl
  BY DEF TypeOK
<1>2. PICK pa \in [Rec -> Ptr] : pa = pare
  BY DEF TypeOK
<1>3. Spelled(k, nx, pa)
  <2>1. \A p \in Rec : \A i \in 1..Len(k[p]) :
          /\ nx[k[p][i]] = IF i = Len(k[p]) THEN NULL ELSE k[p][i+1]
          /\ pa[k[p][i]] = p
    BY <1>1, <1>2 DEF Described
  <2>2. \A p \in Rec : \A i, j \in 1..Len(k[p]) : k[p][i] = k[p][j] => i = j
    BY DEF Exact
  <2>3. /\ \A c \in Rec : pa[c] # NULL => \E i \in 1..Len(k[pa[c]]) : k[pa[c]][i] = c
        /\ \A c \in Rec : pa[c] = NULL => nx[c] = NULL
    BY <1>1, <1>2 DEF Exact
  <2> QED BY <2>1, <2>2, <2>3 DEF Spelled
<1>4. ASSUME NEW p \in Rec PROVE Chain(p) = k[p]
  <2>1. Chain(p) = Along(nx)[firs_chil[p]]
    BY <1>1 DEF Chain, Along
  <2>2. firs_chil[p] = IF Len(k[p]) = 0 THEN NULL ELSE k[p][1]
    BY DEF Described
  <2>3. Along(nx)[IF Len(k[p]) = 0 THEN NULL ELSE k[p][1]] = k[p]
    BY <1>3, AlongSpells
  <2> QED BY <2>1, <2>2, <2>3
<1> QED BY <1>4

(* The pointers implement the forest of child lists, step by step: atta_chil  *)
(* conses, deta_chil takes out exactly its child and keeps the others in      *)
(* order, in one step wherever the child stands, and the iterations of its    *)
(* walk are stutters (ser_proc.c:81-109).                                     *)
THEOREM TreeIsForest == Spec => ImplementsForest
<1> DEFINE kids == [p \in Rec |-> Chain(p)]
<1>1. Init => Forest!ForestInit
  <2> SUFFICES ASSUME Init PROVE Forest!ForestInit
    OBVIOUS
  <2>1. TypeOK /\ \E k \in [Rec -> Seq(Rec)] : Lists(k)
    BY InitInv DEF Inv
  <2>2. PICK k \in [Rec -> Seq(Rec)] : Lists(k)
    BY <2>1
  <2>3. kids = k
    BY <2>1, <2>2, ChainsSpell DEF Lists, ChainsAreLists
  <2>4. \A p \in Rec : Len(k[p]) = 0
    <3>1. \A p \in Rec : NULL = IF Len(k[p]) = 0 THEN NULL ELSE k[p][1]
      BY <2>2 DEF Lists, Described, Init
    <3>2. \A p \in Rec : Len(k[p]) # 0 => k[p][1] # NULL
      <4>1. \A p \in Rec : Len(k[p]) # 0 => 1 \in 1..Len(k[p])
        BY LenProperties
      <4> QED BY <4>1, ElementOfSeq, NullNotRec
    <3> QED BY <3>1, <3>2
  <2>5. \A p \in Rec : k[p] = <<>>
    BY <2>4, EmptySeq
  <2>6. k = [p \in Rec |-> <<>>]
    BY <2>5
  <2> QED BY <2>3, <2>6 DEF Init, Forest!ForestInit
<1>2. Inv /\ Inv' /\ [Next]_vars => [Forest!ForestNext]_(Forest!forestVars)
  <2> SUFFICES ASSUME Inv, [Next]_vars PROVE [Forest!ForestNext]_(Forest!forestVars)
    OBVIOUS
  <2>1. TypeOK /\ TypeOK'
    BY NextTypes DEF Inv
  <2>2. PICK k \in [Rec -> Seq(Rec)] : Lists(k)
    BY DEF Inv
  <2>3. PICK m \in [Rec -> Seq(Rec)] : /\ Described(m)' /\ Exact(m)' /\ Cursor(m)'
                                       /\ Stepped(k, m)
    BY <2>1, <2>2, StepLists
  <2>4. kids = k
    BY <2>1, <2>2, ChainsSpell DEF Lists, ChainsAreLists
  <2>5. kids' = m
    <3>1. ChainsAreLists'
      BY ChainsSpell, PTL
    <3> QED BY <2>1, <2>3, <3>1 DEF ChainsAreLists
  <2> HIDE DEF kids
  <2>6. CASE m = k /\ pare' = pare
    BY <2>4, <2>5, <2>6 DEF Forest!forestVars, kids
  <2>7. CASE \E p, c \in Rec : /\ p # c /\ pare[c] = NULL
                               /\ m = [k EXCEPT ![p] = <<c>> \o k[p]]
                               /\ pare' = [pare EXCEPT ![c] = p]
    <3>1. PICK p \in Rec, c \in Rec : /\ p # c /\ pare[c] = NULL
                                      /\ m = [k EXCEPT ![p] = <<c>> \o k[p]]
                                      /\ pare' = [pare EXCEPT ![c] = p]
      BY <2>7
    <3>2. Forest!CanAttach(p, c)
      BY <3>1 DEF Forest!CanAttach
    <3>3. Forest!atta_chil(p, c)
      BY <2>4, <2>5, <3>1 DEF Forest!atta_chil, kids
    <3> QED BY <3>1, <3>2, <3>3 DEF Forest!ForestNext
  <2>8. CASE \E p \in Rec : \E i \in 1..Len(k[p]) :
               /\ m = [k EXCEPT ![p] = RemoveAt(k[p], i)]
               /\ pare' = [pare EXCEPT ![k[p][i]] = NULL]
    <3>1. PICK p \in Rec : \E i \in 1..Len(k[p]) :
                 /\ m = [k EXCEPT ![p] = RemoveAt(k[p], i)]
                 /\ pare' = [pare EXCEPT ![k[p][i]] = NULL]
      BY <2>8
    <3>2. PICK i \in 1..Len(k[p]) : /\ m = [k EXCEPT ![p] = RemoveAt(k[p], i)]
                                    /\ pare' = [pare EXCEPT ![k[p][i]] = NULL]
      BY <3>1
    <3>3. k[p][i] \in Rec /\ i \in DOMAIN k[p]
      BY ElementOfSeq, LenProperties
    <3>4. Forest!deta_chil(p, k[p][i])
      BY <2>4, <2>5, <3>2, <3>3 DEF Forest!deta_chil, Forest!RemoveAt, RemoveAt, kids
    <3> QED BY <3>3, <3>4 DEF Forest!ForestNext
  <2> QED BY <2>3, <2>6, <2>7, <2>8 DEF Stepped
<1>3. Spec => []Inv
  BY Invariance
<1> QED BY <1>1, <1>2, <1>3, PTL DEF Spec, ImplementsForest, Forest!ForestSpec
===============================================================================

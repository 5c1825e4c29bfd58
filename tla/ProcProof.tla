------------------------------- MODULE ProcProof -------------------------------
(***************************************************************************)
(* The process tree and the process table as the event handlers call them, *)
(* for every set of records and every number of buckets: attaching a       *)
(* detached record and detaching a child keep the child lists and the      *)
(* parent pointers consistent; what a lookup answers and what an insertion *)
(* changes.                                                                *)
(***************************************************************************)
EXTENDS ProcForest, ProcTable, SeqLemmas

ForestTypeOK ==
  /\ kids \in [Rec -> Seq(Rec)]
  /\ pare \in [Rec -> Rec \cup {NULL}]

-------------------------------------------------------------------------------
\* Consistent, with the domains of the lists k spelled out as intervals.
Spelled(k, q) ==
  /\ \A p \in Rec : \A i \in 1..Len(k[p]) : q[k[p][i]] = p
  /\ \A c \in Rec : q[c] # NULL => \E i \in 1..Len(k[q[c]]) : k[q[c]][i] = c
  /\ \A p \in Rec : \A i, j \in 1..Len(k[p]) : k[p][i] = k[p][j] => i = j

LEMMA SpelledOut ==
  ASSUME NEW k \in [Rec -> Seq(Rec)], NEW q \in [Rec -> Rec \cup {NULL}]
  PROVE  Spelled(k, q) <=>
           /\ \A p, c \in Rec : (\E i \in DOMAIN k[p] : k[p][i] = c) <=> q[c] = p
           /\ \A p \in Rec : \A i, j \in DOMAIN k[p] : k[p][i] = k[p][j] => i = j
<1>1. \A p \in Rec : DOMAIN k[p] = 1..Len(k[p])
                     /\ \A i \in 1..Len(k[p]) : k[p][i] \in Rec
  BY LenProperties, ElementOfSeq
<1>2. \A c \in Rec : q[c] \in Rec \/ q[c] = NULL
  OBVIOUS
<1>3. ASSUME \A p, c \in Rec : (\E i \in DOMAIN k[p] : k[p][i] = c) <=> q[c] = p,
             \A p \in Rec : \A i, j \in DOMAIN k[p] : k[p][i] = k[p][j] => i = j
      PROVE  Spelled(k, q)
  <2>1. ASSUME NEW p \in Rec, NEW i \in 1..Len(k[p]) PROVE q[k[p][i]] = p
    BY <1>1, <1>3
  <2>2. ASSUME NEW c \in Rec, q[c] # NULL
        PROVE  \E i \in 1..Len(k[q[c]]) : k[q[c]][i] = c
    <3>1. q[c] \in Rec
      BY <2>2, <1>2
    <3> QED BY <3>1, <1>1, <1>3
  <2>3. \A p \in Rec : \A i, j \in 1..Len(k[p]) : k[p][i] = k[p][j] => i = j
    BY <1>1, <1>3
  <2> QED BY <2>1, <2>2, <2>3 DEF Spelled
<1>4. ASSUME Spelled(k, q), NEW p \in Rec, NEW c \in Rec
      PROVE  (\E i \in DOMAIN k[p] : k[p][i] = c) <=> q[c] = p
  <2>1. (\E i \in DOMAIN k[p] : k[p][i] = c) => q[c] = p
    BY <1>1, <1>4 DEF Spelled
  <2>2. q[c] = p => (\E i \in DOMAIN k[p] : k[p][i] = c)
    BY <1>1, <1>4, NullNotRec DEF Spelled
  <2> QED BY <2>1, <2>2
<1>5. ASSUME Spelled(k, q), NEW p \in Rec
      PROVE  \A i, j \in DOMAIN k[p] : k[p][i] = k[p][j] => i = j
  BY <1>1, <1>5 DEF Spelled
<1> QED BY <1>3, <1>4, <1>5

LEMMA ConsistentSpelled ==
  /\ ForestTypeOK => (Consistent <=> Spelled(kids, pare))
  /\ ForestTypeOK' => (Consistent' <=> Spelled(kids', pare'))
<1>1. ForestTypeOK => (Consistent <=> Spelled(kids, pare))
  BY SpelledOut DEF ForestTypeOK, Consistent, IsKid
<1>2. ForestTypeOK' => (Consistent' <=> Spelled(kids', pare'))
  BY SpelledOut DEF ForestTypeOK, Consistent, IsKid
<1> QED BY <1>1, <1>2

\* Linking a detached record keeps the forest consistent.
LEMMA AttachConsistent ==
  ASSUME ForestTypeOK, Consistent, NEW p \in Rec, NEW c \in Rec, pare[c] = NULL,
         atta_chil(p, c)
  PROVE  ForestTypeOK' /\ Consistent'
<1>1. /\ kids[p] \in Seq(Rec) /\ kids'[p] = <<c>> \o kids[p]
      /\ \A q \in Rec : q # p => kids'[q] = kids[q]
      /\ pare'[c] = p
      /\ \A d \in Rec : d # c => pare'[d] = pare[d]
  BY DEF ForestTypeOK, atta_chil
<1>2. /\ kids'[p] \in Seq(Rec) /\ Len(kids'[p]) = Len(kids[p]) + 1 /\ kids'[p][1] = c
      /\ \A j \in 1..Len(kids[p]) : kids'[p][j+1] = kids[p][j]
      /\ \A j \in 2..(Len(kids[p]) + 1) : kids'[p][j] = kids[p][j-1]
  BY <1>1, ConsProperties
<1>3. ForestTypeOK'
  BY <1>1, <1>2 DEF ForestTypeOK, atta_chil
<1>4. /\ \A q \in Rec : \A i \in 1..Len(kids[q]) : pare[kids[q][i]] = q
      /\ \A d \in Rec : pare[d] # NULL =>
           \E i \in 1..Len(kids[pare[d]]) : kids[pare[d]][i] = d
      /\ \A q \in Rec : \A i, j \in 1..Len(kids[q]) : kids[q][i] = kids[q][j] => i = j
  BY ConsistentSpelled DEF Spelled
<1>5. ASSUME NEW q \in Rec
      PROVE  Len(kids[q]) \in Nat /\ \A i \in 1..Len(kids[q]) : kids[q][i] \in Rec
  BY LenProperties, ElementOfSeq DEF ForestTypeOK
<1>6. \A q \in Rec : \A i \in 1..Len(kids[q]) : kids[q][i] # c
  BY <1>4, NullNotRec
<1>7. \A i \in 1..Len(kids'[p]) :
        i = 1 \/ (i-1 \in 1..Len(kids[p]) /\ kids'[p][i] = kids[p][i-1])
  BY <1>2, <1>5
<1>8. \A q \in Rec : \A i \in 1..Len(kids'[q]) : pare'[kids'[q][i]] = q
  <2> SUFFICES ASSUME NEW q \in Rec, NEW i \in 1..Len(kids'[q])
               PROVE  pare'[kids'[q][i]] = q
    OBVIOUS
  <2>1. CASE q # p
    <3>1. kids'[q] = kids[q] /\ kids[q][i] \in Rec /\ kids[q][i] # c
      BY <2>1, <1>1, <1>5, <1>6
    <3> QED BY <3>1, <1>1, <1>4
  <2>2. CASE q = p /\ i = 1
    <3>1. kids'[q][i] = c
      BY <2>2, <1>2
    <3> QED BY <3>1, <2>2, <1>1
  <2>3. CASE q = p /\ i-1 \in 1..Len(kids[p]) /\ kids'[p][i] = kids[p][i-1]
    <3>1. kids[p][i-1] \in Rec /\ kids[p][i-1] # c /\ pare[kids[p][i-1]] = p
      BY <2>3, <1>4, <1>5, <1>6
    <3> QED BY <3>1, <2>3, <1>1
  <2> QED BY <2>1, <2>2, <2>3, <1>7
<1>9. \A d \in Rec : pare'[d] # NULL =>
        \E i \in 1..Len(kids'[pare'[d]]) : kids'[pare'[d]][i] = d
  <2> SUFFICES ASSUME NEW d \in Rec, pare'[d] # NULL
               PROVE  \E i \in 1..Len(kids'[pare'[d]]) : kids'[pare'[d]][i] = d
    OBVIOUS
  <2>1. CASE d = c
    <3>1. 1 \in 1..Len(kids'[p])
      BY <1>2, <1>5
    <3>2. pare'[d] = p /\ kids'[p][1] = d
      BY <2>1, <1>1, <1>2
    <3> QED BY <3>1, <3>2
  <2>2. CASE d # c
    <3>1. pare'[d] = pare[d] /\ pare[d] \in Rec
      BY <2>2, <1>1 DEF ForestTypeOK
    <3>2. PICK i \in 1..Len(kids[pare[d]]) : kids[pare[d]][i] = d
      BY <3>1, <1>4
    <3>3. CASE pare[d] # p
      BY <3>1, <3>2, <3>3, <1>1
    <3>4. CASE pare[d] = p
      <4>1. i+1 \in 1..Len(kids'[p]) /\ kids'[p][i+1] = d
        BY <3>2, <3>4, <1>2, <1>5
      <4> QED BY <4>1, <3>1, <3>4
    <3> QED BY <3>3, <3>4
  <2> QED BY <2>1, <2>2
<1>10. \A q \in Rec : \A i, j \in 1..Len(kids'[q]) : kids'[q][i] = kids'[q][j] => i = j
  <2> SUFFICES ASSUME NEW q \in Rec, NEW i \in 1..Len(kids'[q]), NEW j \in 1..Len(kids'[q]),
                      kids'[q][i] = kids'[q][j]
               PROVE  i = j
    OBVIOUS
  <2>1. CASE q # p
    BY <2>1, <1>1, <1>4
  <2>2. CASE q = p
    <3>1. CASE i = 1
      <4>1. kids'[p][j] = c
        BY <3>1, <2>2, <1>2
      <4> QED BY <4>1, <3>1, <2>2, <1>6, <1>7
    <3>2. CASE j = 1
      <4>1. kids'[p][i] = c
        BY <3>2, <2>2, <1>2
      <4> QED BY <4>1, <3>2, <2>2, <1>6, <1>7
    <3>3. CASE i # 1 /\ j # 1
      <4>1. /\ i-1 \in 1..Len(kids[p]) /\ j-1 \in 1..Len(kids[p])
            /\ kids[p][i-1] = kids[p][j-1]
        BY <3>3, <2>2, <1>7
      <4>2. i-1 = j-1
        BY <4>1, <1>4
      <4> QED BY <4>1, <4>2
    <3> QED BY <3>1, <3>2, <3>3
  <2> QED BY <2>1, <2>2
<1>11. Spelled(kids', pare')
  BY <1>8, <1>9, <1>10 DEF Spelled
<1> QED BY <1>3, <1>11, ConsistentSpelled

\* Unlinking a child keeps the forest consistent and isolates the child.
LEMMA DetachConsistent ==
  ASSUME ForestTypeOK, Consistent, NEW p \in Rec, NEW c \in Rec, deta_chil(p, c)
  PROVE  ForestTypeOK' /\ Consistent' /\ pare' = [pare EXCEPT ![c] = NULL]
<1>1. ASSUME NEW q \in Rec
      PROVE  /\ Len(kids[q]) \in Nat /\ DOMAIN kids[q] = 1..Len(kids[q])
             /\ \A i \in 1..Len(kids[q]) : kids[q][i] \in Rec
  BY LenProperties, ElementOfSeq DEF ForestTypeOK
<1>2. PICK i \in 1..Len(kids[p]) : /\ kids[p][i] = c
                                   /\ kids' = [kids EXCEPT ![p] = RemoveAt(@, i)]
                                   /\ pare' = [pare EXCEPT ![c] = NULL]
  BY <1>1 DEF deta_chil
<1>3. /\ kids[p] \in Seq(Rec) /\ kids'[p] = RemoveAt(kids[p], i)
      /\ \A q \in Rec : q # p => kids'[q] = kids[q]
      /\ pare'[c] = NULL
      /\ \A d \in Rec : d # c => pare'[d] = pare[d]
  BY <1>2 DEF ForestTypeOK
<1>4. /\ kids'[p] \in Seq(Rec) /\ Len(kids'[p]) = Len(kids[p]) - 1
      /\ \A j \in 1..(Len(kids[p]) - 1) :
           kids'[p][j] = IF j < i THEN kids[p][j] ELSE kids[p][j+1]
  <2>1. /\ RemoveAt(kids[p], i) \in Seq(Rec)
        /\ Len(RemoveAt(kids[p], i)) = Len(kids[p]) - 1
        /\ \A j \in 1..(Len(kids[p]) - 1) :
             RemoveAt(kids[p], i)[j] = IF j < i THEN kids[p][j] ELSE kids[p][j+1]
    BY <1>3, RemoveAtProperties
  <2> QED BY <2>1, <1>3
<1>5. ForestTypeOK'
  BY <1>2, <1>3, <1>4 DEF ForestTypeOK
<1>6. /\ \A q \in Rec : \A j \in 1..Len(kids[q]) : pare[kids[q][j]] = q
      /\ \A d \in Rec : pare[d] # NULL =>
           \E j \in 1..Len(kids[pare[d]]) : kids[pare[d]][j] = d
      /\ \A q \in Rec : \A j, l \in 1..Len(kids[q]) : kids[q][j] = kids[q][l] => j = l
  BY ConsistentSpelled DEF Spelled
<1> DEFINE at(j) == IF j < i THEN j ELSE j+1
<1>7. /\ \A j \in 1..Len(kids'[p]) : at(j) \in 1..Len(kids[p]) /\ at(j) # i
      /\ \A j, l \in 1..Len(kids'[p]) : at(j) = at(l) => j = l
  BY <1>1, <1>4
<1>8. \A j \in 1..Len(kids'[p]) : kids'[p][j] = kids[p][at(j)]
  BY <1>4
<1> HIDE DEF at
<1>9. \A q \in Rec : \A j \in 1..Len(kids'[q]) : pare'[kids'[q][j]] = q
  <2> SUFFICES ASSUME NEW q \in Rec, NEW j \in 1..Len(kids'[q])
               PROVE  pare'[kids'[q][j]] = q
    OBVIOUS
  <2>1. CASE q # p
    <3>1. kids'[q] = kids[q] /\ kids[q][j] \in Rec /\ pare[kids[q][j]] = q
      BY <2>1, <1>1, <1>3, <1>6
    <3>2. kids[q][j] # c
      BY <3>1, <2>1, <1>2, <1>6
    <3> QED BY <3>1, <3>2, <1>3
  <2>2. CASE q = p
    <3>1. at(j) \in 1..Len(kids[p]) /\ at(j) # i /\ kids'[p][j] = kids[p][at(j)]
      BY <2>2, <1>7, <1>8
    <3>2. kids[p][at(j)] # c /\ pare[kids[p][at(j)]] = p /\ kids[p][at(j)] \in Rec
      BY <3>1, <1>1, <1>2, <1>6
    <3> QED BY <2>2, <3>1, <3>2, <1>3
  <2> QED BY <2>1, <2>2
<1>10. \A d \in Rec : pare'[d] # NULL =>
        \E j \in 1..Len(kids'[pare'[d]]) : kids'[pare'[d]][j] = d
  <2> SUFFICES ASSUME NEW d \in Rec, pare'[d] # NULL
               PROVE  \E j \in 1..Len(kids'[pare'[d]]) : kids'[pare'[d]][j] = d
    OBVIOUS
  <2>1. d # c
    BY <1>3
  <2>2. pare'[d] = pare[d] /\ pare[d] \in Rec
    BY <2>1, <1>3 DEF ForestTypeOK
  <2>3. PICK j \in 1..Len(kids[pare[d]]) : kids[pare[d]][j] = d
    BY <2>2, <1>6
  <2>4. CASE pare[d] # p
    BY <2>2, <2>3, <2>4, <1>3
  <2>5. CASE pare[d] = p
    <3>1. j # i
      BY <2>1, <2>3, <2>5, <1>2
    <3>2. CASE j < i
      <4>1. j \in 1..Len(kids'[p]) /\ kids'[p][j] = d
        BY <3>2, <2>3, <2>5, <1>1, <1>4
      <4> QED BY <4>1, <2>2, <2>5
    <3>3. CASE j > i
      <4>1. j-1 \in 1..Len(kids'[p]) /\ ~(j-1 < i) /\ (j-1)+1 = j
        BY <3>3, <2>3, <2>5, <1>1, <1>4
      <4>2. kids'[p][j-1] = d
        BY <4>1, <2>3, <2>5, <1>4
      <4> QED BY <4>1, <4>2, <2>2, <2>5
    <3>4. j \in Int /\ i \in Int
      OBVIOUS
    <3> QED BY <3>1, <3>2, <3>3, <3>4
  <2> QED BY <2>4, <2>5
<1>11. \A q \in Rec : \A j, l \in 1..Len(kids'[q]) : kids'[q][j] = kids'[q][l] => j = l
  <2> SUFFICES ASSUME NEW q \in Rec, NEW j \in 1..Len(kids'[q]), NEW l \in 1..Len(kids'[q]),
                      kids'[q][j] = kids'[q][l]
               PROVE  j = l
    OBVIOUS
  <2>1. CASE q # p
    BY <2>1, <1>3, <1>6
  <2>2. CASE q = p
    <3>1. kids[p][at(j)] = kids[p][at(l)]
      BY <2>2, <1>8
    <3> QED BY <3>1, <2>2, <1>6, <1>7
  <2> QED BY <2>1, <2>2
<1>12. Spelled(kids', pare')
  BY <1>9, <1>10, <1>11 DEF Spelled
<1> QED BY <1>2, <1>5, <1>12, ConsistentSpelled

-------------------------------------------------------------------------------
(* In every state of the abstract forest the parent pointers and the child   *)
(* lists say the same thing (atta_chil, deta_chil, ser_proc.c:81-109).        *)
THEOREM ForestConsistent == ForestSpec => [](ForestTypeOK /\ Consistent)
<1>1. ForestInit => ForestTypeOK /\ Consistent
  <2> SUFFICES ASSUME ForestInit PROVE ForestTypeOK /\ Consistent
    OBVIOUS
  <2>1. ForestTypeOK
    BY DEF ForestInit, ForestTypeOK
  <2>2. \A p \in Rec : kids[p] = << >> /\ Len(kids[p]) = 0 /\ pare[p] = NULL
    BY DEF ForestInit
  <2> QED BY <2>1, <2>2, ConsistentSpelled DEF Spelled
<1>2. ForestTypeOK /\ Consistent /\ [ForestNext]_forestVars => (ForestTypeOK /\ Consistent)'
  <2> SUFFICES ASSUME ForestTypeOK, Consistent, [ForestNext]_forestVars
               PROVE  (ForestTypeOK /\ Consistent)'
    OBVIOUS
  <2>1. ASSUME NEW p \in Rec, NEW c \in Rec, pare[c] = NULL, atta_chil(p, c)
        PROVE  (ForestTypeOK /\ Consistent)'
    BY <2>1, AttachConsistent
  <2>2. ASSUME NEW p \in Rec, NEW c \in Rec, deta_chil(p, c)
        PROVE  (ForestTypeOK /\ Consistent)'
    BY <2>2, DetachConsistent
  <2>3. CASE UNCHANGED forestVars
    BY <2>3 DEF forestVars, ForestTypeOK, Consistent, IsKid
  <2> QED BY <2>1, <2>2, <2>3 DEF ForestNext
<1> QED BY <1>1, <1>2, PTL DEF ForestSpec

-------------------------------------------------------------------------------
BucketsTypeOK == buckets \in [Bucket -> Seq(Rec)]

LEMMA HashInBucket == \A pid \in Nat : proc_hash(pid) \in Bucket
  BY BucketsExist DEF proc_hash, Bucket

LEMMA BucketContents ==
  ASSUME BucketsTypeOK, NEW h \in Bucket
  PROVE  /\ buckets[h] \in Seq(Rec)
         /\ Len(buckets[h]) \in Nat
         /\ DOMAIN buckets[h] = 1..Len(buckets[h])
         /\ \A i \in 1..Len(buckets[h]) : buckets[h][i] \in Rec
  BY LenProperties, ElementOfSeq DEF BucketsTypeOK

(* A lookup that answers a record answers one of the table with the pid, and *)
(* it answers NULL only when the table has none (proc_look).                 *)
THEOREM LookupAnswers ==
  ASSUME BucketsTypeOK, NodesOwnRecords, NEW pid \in Nat
  PROVE  \/ proc_look(pid) = NULL /\ \A r \in Rec : InTable(r) => heap[r].pid # pid
         \/ /\ proc_look(pid) \in Rec /\ InTable(proc_look(pid))
            /\ heap[proc_look(pid)].pid = pid
<1> DEFINE h == proc_hash(pid)
           b == buckets[h]
           hits == {i \in DOMAIN b : heap[b[i]].pid = pid}
<1>1. h \in Bucket
  BY HashInBucket
<1>2. DOMAIN b = 1..Len(b) /\ Len(b) \in Nat /\ \A i \in 1..Len(b) : b[i] \in Rec
  BY <1>1, BucketContents
<1>3. CASE hits = {}
  <2>1. proc_look(pid) = NULL
    BY <1>3 DEF proc_look
  <2>2. ASSUME NEW r \in Rec, InTable(r), heap[r].pid = pid PROVE FALSE
    <3>0. PICK g \in Bucket : InBucket(g, r)
      BY <2>2 DEF InTable
    <3>1. PICK i \in DOMAIN buckets[g] : buckets[g][i] = r
      BY <3>0 DEF InBucket
    <3>2. g = h
      BY <3>1, <2>2 DEF NodesOwnRecords
    <3>3. i \in hits
      BY <3>1, <3>2, <2>2
    <3> QED BY <3>3, <1>3
  <2> QED BY <2>1, <2>2
<1>4. CASE hits # {}
  <2>1. hits \subseteq Nat
    BY <1>2
  <2>2. \E i \in hits : \A j \in hits : i <= j
    BY <2>1, <1>4, MinExists
  <2> DEFINE m == CHOOSE i \in hits : \A j \in hits : i <= j
  <2>3. m \in hits
    BY <2>2
  <2>4. proc_look(pid) = b[m]
    BY <1>4 DEF proc_look
  <2> HIDE DEF m
  <2>5. b[m] \in Rec /\ heap[b[m]].pid = pid
    BY <2>3, <1>2
  <2>6. InTable(b[m])
    BY <2>3, <1>1 DEF InTable, InBucket
  <2> QED BY <2>4, <2>5, <2>6
<1> QED BY <1>3, <1>4

\* Changing records without changing their pids, or freeing records that are
\* in no node, leaves the nodes in order.
LEMMA HeapStepKeepsNodes ==
  ASSUME BucketsTypeOK, NodesOwnRecords, buckets' = buckets,
         \A r \in Rec : InTable(r) => heap'[r] # Free /\ heap'[r].pid = heap[r].pid
  PROVE  BucketsTypeOK' /\ NodesOwnRecords' /\ \A r \in Rec : InTable(r)' <=> InTable(r)
<1>1. BucketsTypeOK' /\ \A r \in Rec : InTable(r)' <=> InTable(r)
  BY DEF BucketsTypeOK, InTable, InBucket
<1>2. ASSUME NEW h \in Bucket, NEW i \in DOMAIN buckets[h]
      PROVE  /\ heap'[buckets[h][i]] # Free
             /\ proc_hash(heap'[buckets[h][i]].pid) = h
             /\ \A j \in DOMAIN buckets[h] : buckets[h][i] = buckets[h][j] => i = j
  <2>1. buckets[h][i] \in Rec /\ InTable(buckets[h][i])
    BY BucketContents DEF InTable, InBucket
  <2>2. /\ heap'[buckets[h][i]] # Free
        /\ heap'[buckets[h][i]].pid = heap[buckets[h][i]].pid
    BY <2>1
  <2> QED BY <2>2 DEF NodesOwnRecords
<1>3. NodesOwnRecords'
  BY <1>2 DEF NodesOwnRecords, proc_hash
<1> QED BY <1>1, <1>3

(* Inserting a record that is in no node puts it, and nothing else, in the   *)
(* table, and leaves the nodes in order (proc_inse).                         *)
THEOREM InsertionAdds ==
  ASSUME BucketsTypeOK, NodesOwnRecords, NEW r \in Rec, NEW pid \in Nat, ~InTable(r),
         proc_inse(r, pid), heap'[r] # Free, heap'[r].pid = pid,
         \A s \in Rec : InTable(s) => heap'[s] # Free /\ heap'[s].pid = heap[s].pid
  PROVE  /\ BucketsTypeOK' /\ NodesOwnRecords'
         /\ \A s \in Rec : InTable(s)' <=> InTable(s) \/ s = r
<1> DEFINE h == proc_hash(pid)
           b == buckets[h]
           c == buckets'[h]
<1>1. h \in Bucket
  BY HashInBucket
<1>2. b \in Seq(Rec) /\ Len(b) \in Nat /\ DOMAIN b = 1..Len(b) /\ \A i \in 1..Len(b) : b[i] \in Rec
  BY <1>1, BucketContents
<1>3. /\ c = <<r>> \o b
      /\ \A g \in Bucket : g # h => buckets'[g] = buckets[g]
      /\ buckets' \in [Bucket -> Seq(Rec)]
  <2>1. <<r>> \o b \in Seq(Rec)
    BY <1>2, ConcatProperties
  <2>2. buckets' = [buckets EXCEPT ![h] = <<r>> \o b]
    BY DEF proc_inse
  <2> QED BY <2>1, <2>2, <1>1 DEF BucketsTypeOK
<1>4. /\ c \in Seq(Rec) /\ Len(c) = Len(b) + 1 /\ DOMAIN c = 1..(Len(b) + 1)
      /\ c[1] = r
      /\ \A i \in 1..Len(b) : c[i+1] = b[i]
      /\ \A i \in 2..(Len(b) + 1) : c[i] = b[i-1]
  <2>1. <<r>> \in Seq(Rec) /\ Len(<<r>>) = 1 /\ <<r>>[1] = r
    OBVIOUS
  <2>2. c \in Seq(Rec) /\ Len(c) = Len(b) + 1
    BY <2>1, <1>2, <1>3, ConcatProperties
  <2>3. DOMAIN c = 1..(Len(b) + 1)
    BY <2>2, LenProperties
  <2> QED BY <2>1, <2>2, <2>3, <1>2, <1>3, ConcatProperties
<1> HIDE DEF h, b, c
<1>5. \A i \in DOMAIN c : i = 1 \/ (i-1 \in DOMAIN b /\ c[i] = b[i-1])
  BY <1>2, <1>4
<1>6. \A g \in Bucket : \A i \in DOMAIN buckets[g] : buckets[g][i] \in Rec /\ InTable(buckets[g][i])
  BY BucketContents DEF InTable, InBucket
<1>7. \A i \in DOMAIN b : b[i] # r /\ b[i] \in Rec /\ InTable(b[i])
  BY <1>1, <1>6 DEF b
<1>8. ASSUME NEW s \in Rec PROVE InTable(s)' <=> InTable(s) \/ s = r
  <2>1. ASSUME InTable(s) PROVE InTable(s)'
    <3>0. PICK g \in Bucket : InBucket(g, s)
      BY <2>1 DEF InTable
    <3>1. PICK i \in DOMAIN buckets[g] : buckets[g][i] = s
      BY <3>0 DEF InBucket
    <3>2. CASE g # h
      BY <3>1, <3>2, <1>3 DEF InTable, InBucket
    <3>3. CASE g = h
      <4>1. i+1 \in DOMAIN c /\ c[i+1] = s
        BY <3>1, <3>3, <1>2, <1>4 DEF b
      <4> QED BY <4>1, <1>1 DEF InTable, InBucket, c
    <3> QED BY <3>2, <3>3
  <2>2. ASSUME s = r PROVE InTable(s)'
    <3>1. 1 \in DOMAIN c /\ c[1] = r
      BY <1>2, <1>4
    <3> QED BY <3>1, <2>2, <1>1 DEF InTable, InBucket, c
  <2>3. ASSUME InTable(s)' PROVE InTable(s) \/ s = r
    <3>0. PICK g \in Bucket : InBucket(g, s)'
      BY <2>3 DEF InTable
    <3>1. PICK i \in DOMAIN buckets'[g] : buckets'[g][i] = s
      BY <3>0 DEF InBucket
    <3>2. CASE g # h
      BY <3>1, <3>2, <1>3 DEF InTable, InBucket
    <3>3. CASE g = h
      <4>1. i \in DOMAIN c /\ c[i] = s
        BY <3>1, <3>3 DEF c
      <4>2. i = 1 \/ InTable(s)
        BY <4>1, <1>5, <1>7
      <4> QED BY <4>1, <4>2, <1>4
    <3> QED BY <3>2, <3>3
  <2> QED BY <2>1, <2>2, <2>3
<1>9. ASSUME NEW g \in Bucket, NEW i \in DOMAIN buckets'[g]
      PROVE  /\ heap'[buckets'[g][i]] # Free
             /\ proc_hash(heap'[buckets'[g][i]].pid) = g
             /\ \A j \in DOMAIN buckets'[g] : buckets'[g][i] = buckets'[g][j] => i = j
  <2>1. \A f \in Bucket : \A j \in DOMAIN buckets[f] :
          /\ heap'[buckets[f][j]] # Free
          /\ proc_hash(heap'[buckets[f][j]].pid) = f
    BY <1>6 DEF NodesOwnRecords
  <2>2. CASE g # h
    BY <2>1, <2>2, <1>3 DEF NodesOwnRecords
  <2>3. CASE g = h
    <3>1. buckets'[g] = c /\ buckets[g] = b
      BY <2>3 DEF b, c
    <3>2. CASE i = 1
      <4>1. c[i] = r /\ heap'[r] # Free /\ proc_hash(heap'[r].pid) = g
        BY <3>2, <2>3, <1>4 DEF h
      <4>2. \A j \in DOMAIN c : c[j] = r => j = 1
        BY <1>5, <1>7
      <4> QED BY <4>1, <4>2, <3>1, <3>2
    <3>3. CASE i # 1
      <4>1. i-1 \in DOMAIN b /\ c[i] = b[i-1]
        BY <3>1, <3>3, <1>5
      <4>2. heap'[c[i]] # Free /\ proc_hash(heap'[c[i]].pid) = g
        BY <4>1, <3>1, <2>1
      <4>3. ASSUME NEW j \in DOMAIN c, c[i] = c[j] PROVE i = j
        <5>1. j # 1
          BY <4>1, <4>3, <1>4, <1>7
        <5>2. j-1 \in DOMAIN b /\ b[i-1] = b[j-1]
          BY <5>1, <4>1, <4>3, <1>5
        <5>3. i-1 = j-1
          BY <5>2, <4>1, <3>1 DEF NodesOwnRecords
        <5>4. i \in Int /\ j \in Int
          BY <3>1, <1>2, <1>4
        <5> QED BY <5>3, <5>4
      <4> QED BY <4>2, <4>3, <3>1
    <3> QED BY <3>2, <3>3
  <2> QED BY <2>2, <2>3
<1> QED BY <1>3, <1>8, <1>9 DEF NodesOwnRecords, BucketsTypeOK, proc_hash
===============================================================================

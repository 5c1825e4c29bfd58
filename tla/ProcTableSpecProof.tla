--------------------------- MODULE ProcTableSpecProof ---------------------------
(***************************************************************************)
(* The process table keeps every record it is given until exactly that     *)
(* record is deleted, and the records of a pid stay in the order of their  *)
(* ages, for every number of buckets and whatever pids collide.            *)
(***************************************************************************)
EXTENDS ProcTableSpec, ProcProof

TableTypeOK ==
  /\ heap \in [Rec -> Key \cup {Free}]
  /\ BucketsTypeOK

\* Two records of the table differ in the pid or in the birth time.
KeysDiffer ==
  \A r, s \in Rec :
    /\ InTable(r) /\ InTable(s)
    /\ heap[r].pid = heap[s].pid /\ heap[r].birth_time = heap[s].birth_time
    => r = s

\* Along a bucket the records of one pid get older.
AgesFall ==
  \A r, s \in Rec : NoLater(r, s) /\ heap[r].pid = heap[s].pid =>
    heap[s].birth_time <= heap[r].birth_time

\* The inductive invariant
TableInv == TableTypeOK /\ NodesOwnRecords /\ NothingLost /\ KeysDiffer /\ AgesFall

-------------------------------------------------------------------------------
LEMMA KeyFields ==
  ASSUME NEW x \in Key
  PROVE  x.pid \in Pid /\ x.pid \in Nat /\ x.birth_time \in 0..MaxTime /\ x.birth_time \in Nat
         /\ x # Free
<1>1. x.pid \in Pid /\ x.birth_time \in 0..MaxTime /\ x # Free
  BY FreeIsNoKey DEF Key
<1>2. x.pid \in Nat
  BY <1>1, PidsAreNumbers
<1>3. x.birth_time \in Nat
  BY <1>1
<1> QED BY <1>1, <1>2, <1>3

\* Where a record of the table stands
LEMMA Standing ==
  ASSUME BucketsTypeOK, NodesOwnRecords, NEW r \in Rec
  PROVE  /\ InTable(r) <=> heap[r] # Free /\ InBucket(proc_hash(heap[r].pid), r)
                           /\ proc_hash(heap[r].pid) \in Bucket
         /\ \A h \in Bucket : \A i \in DOMAIN buckets[h] :
              buckets[h][i] = r => InTable(r) /\ h = proc_hash(heap[r].pid)
<1>1. ASSUME NEW h \in Bucket, NEW i \in DOMAIN buckets[h], buckets[h][i] = r
      PROVE  InTable(r) /\ h = proc_hash(heap[r].pid) /\ heap[r] # Free /\ InBucket(h, r)
  BY <1>1 DEF InTable, InBucket, NodesOwnRecords
<1>2. ASSUME InTable(r)
      PROVE  heap[r] # Free /\ InBucket(proc_hash(heap[r].pid), r) /\ proc_hash(heap[r].pid) \in Bucket
  <2>1. PICK h \in Bucket : InBucket(h, r)
    BY <1>2 DEF InTable
  <2>2. PICK i \in DOMAIN buckets[h] : buckets[h][i] = r
    BY <2>1 DEF InBucket
  <2> QED BY <1>1, <2>1, <2>2
<1>3. ASSUME InBucket(proc_hash(heap[r].pid), r), proc_hash(heap[r].pid) \in Bucket
      PROVE  InTable(r)
  BY <1>3 DEF InTable
<1> QED BY <1>1, <1>2, <1>3

\* A record of the table is no later than itself, and two of one bucket are ordered.
LEMMA Ordered ==
  ASSUME BucketsTypeOK, NodesOwnRecords, NEW r \in Rec, NEW s \in Rec
  PROVE  /\ NoLater(r, r) <=> InTable(r)
         /\ NoLater(r, s) => InTable(r) /\ InTable(s)
<1>1. NoLater(r, s) => InTable(r) /\ InTable(s)
  BY Standing DEF NoLater
<1>2. ASSUME InTable(r) PROVE NoLater(r, r)
  <2>1. PICK h \in Bucket : InBucket(h, r)
    BY <1>2 DEF InTable
  <2>2. PICK i \in DOMAIN buckets[h] : buckets[h][i] = r
    BY <2>1 DEF InBucket
  <2>3. i \in Nat
    BY <2>2, BucketContents
  <2>4. i <= i
    BY <2>3
  <2> QED BY <2>2, <2>4 DEF NoLater
<1>3. NoLater(r, r) => InTable(r)
  BY Standing DEF NoLater
<1> QED BY <1>1, <1>2, <1>3

-------------------------------------------------------------------------------
\* The new record stands before the others of its bucket, which keep their order.
LEMMA InsertionOrder ==
  ASSUME BucketsTypeOK, NodesOwnRecords, NEW r \in Rec, NEW pid \in Nat, proc_inse(r, pid),
         NEW x \in Rec, NEW y \in Rec
  PROVE  NoLater(x, y)' <=> \/ NoLater(x, y)
                            \/ x = r /\ (y = r \/ InBucket(proc_hash(pid), y))
<1> DEFINE h == proc_hash(pid)
           b == buckets[h]
           c == buckets'[h]
<1>1. h \in Bucket
  BY HashInBucket
<1>2. b \in Seq(Rec) /\ Len(b) \in Nat /\ DOMAIN b = 1..Len(b)
  BY <1>1, BucketContents
<1>3. c = <<r>> \o b /\ \A g \in Bucket : g # h => buckets'[g] = buckets[g]
  BY <1>1 DEF proc_inse, BucketsTypeOK
<1>4. /\ c \in Seq(Rec) /\ Len(c) = Len(b) + 1 /\ c[1] = r
      /\ \A i \in 1..Len(b) : c[i+1] = b[i]
      /\ \A i \in 2..(Len(b) + 1) : c[i] = b[i-1]
  BY <1>2, <1>3, ConsProperties
<1>5. DOMAIN c = 1..(Len(b) + 1)
  BY <1>2, <1>4, LenProperties
<1> HIDE DEF h, b, c
<1>6. ASSUME NoLater(x, y)
      PROVE  NoLater(x, y)'
  <2>1. PICK g \in Bucket : \E i, j \in DOMAIN buckets[g] :
                              i <= j /\ buckets[g][i] = x /\ buckets[g][j] = y
    BY <1>6 DEF NoLater
  <2>2. CASE g # h
    BY <2>1, <2>2, <1>3 DEF NoLater
  <2>3. CASE g = h
    <3>1. PICK i \in DOMAIN b, j \in DOMAIN b : i <= j /\ b[i] = x /\ b[j] = y
      BY <2>1, <2>3 DEF b
    <3>2. i+1 \in DOMAIN c /\ j+1 \in DOMAIN c /\ i+1 <= j+1 /\ c[i+1] = x /\ c[j+1] = y
      BY <3>1, <1>2, <1>4, <1>5
    <3> QED BY <3>2, <1>1 DEF NoLater, c
  <2> QED BY <2>2, <2>3
<1>7. ASSUME x = r, y = r \/ InBucket(h, y)
      PROVE  NoLater(x, y)'
  <2>1. PICK j \in DOMAIN c : c[j] = y /\ 1 <= j
    <3>1. CASE y = r
      BY <3>1, <1>2, <1>4, <1>5
    <3>2. CASE InBucket(h, y)
      <4>1. PICK i \in DOMAIN b : b[i] = y
        BY <3>2 DEF InBucket, b
      <4>2. i+1 \in DOMAIN c /\ c[i+1] = y /\ 1 <= i+1
        BY <4>1, <1>2, <1>4, <1>5
      <4> QED BY <4>2
    <3> QED BY <3>1, <3>2, <1>7
  <2>2. 1 \in DOMAIN c /\ c[1] = x
    BY <1>2, <1>4, <1>5, <1>7
  <2> QED BY <2>1, <2>2, <1>1 DEF NoLater, c
<1>8. ASSUME NoLater(x, y)'
      PROVE  NoLater(x, y) \/ (x = r /\ (y = r \/ InBucket(h, y)))
  <2>1. PICK g \in Bucket : \E i, j \in DOMAIN buckets'[g] :
                              i <= j /\ buckets'[g][i] = x /\ buckets'[g][j] = y
    BY <1>8 DEF NoLater
  <2>2. CASE g # h
    BY <2>1, <2>2, <1>3 DEF NoLater
  <2>3. CASE g = h
    <3>1. PICK i \in DOMAIN c, j \in DOMAIN c : i <= j /\ c[i] = x /\ c[j] = y
      BY <2>1, <2>3 DEF c
    <3>2. CASE i = 1
      <4>1. x = r
        BY <3>1, <3>2, <1>4
      <4>2. CASE j = 1
        BY <3>1, <4>1, <4>2, <1>4
      <4>3. CASE j # 1
        <5>1. j-1 \in DOMAIN b /\ b[j-1] = y
          BY <3>1, <4>3, <1>2, <1>4, <1>5
        <5> QED BY <5>1, <4>1 DEF InBucket, b
      <4> QED BY <4>2, <4>3
    <3>3. CASE i # 1
      <4>1. i-1 \in DOMAIN b /\ j-1 \in DOMAIN b /\ i-1 <= j-1 /\ b[i-1] = x /\ b[j-1] = y
        BY <3>1, <3>3, <1>2, <1>4, <1>5
      <4> QED BY <4>1, <1>1 DEF NoLater, b
    <3> QED BY <3>2, <3>3
  <2> QED BY <2>2, <2>3
<1> QED BY <1>6, <1>7, <1>8 DEF h

-------------------------------------------------------------------------------
\* What proc_dele unlinks: the first node with the key of its argument.
LEMMA DeletionFinds ==
  ASSUME TableInv, NEW r \in Rec, InTable(r), proc_dele(r)
  PROVE  \E h \in Bucket : \E k \in DOMAIN buckets[h] :
           /\ buckets[h][k] = r
           /\ buckets' = [buckets EXCEPT ![h] = RemoveAt(buckets[h], k)]
           /\ heap' = [heap EXCEPT ![r] = Free]
<1> DEFINE h == proc_hash(heap[r].pid)
           b == buckets[h]
           hits == {i \in DOMAIN b : /\ heap[b[i]].pid = heap[r].pid
                                     /\ heap[b[i]].birth_time = heap[r].birth_time}
<1>1. PICK k \in hits : /\ buckets' = [buckets EXCEPT ![h] = RemoveAt(b, k)]
                        /\ heap' = [heap EXCEPT ![b[k]] = Free]
  BY DEF proc_dele
<1>2. h \in Bucket
  BY Standing DEF TableInv, TableTypeOK
<1>3. k \in DOMAIN b /\ b[k] \in Rec
  BY <1>2, BucketContents DEF TableInv, TableTypeOK
<1>4. InTable(b[k])
  BY <1>2, <1>3, Standing DEF TableInv, TableTypeOK
<1>5. b[k] = r
  BY <1>3, <1>4 DEF TableInv, KeysDiffer
<1> QED BY <1>1, <1>2, <1>3, <1>5

\* The k-th node of bucket h, which holds r, is unlinked.
Unlinks(h, k, r) ==
  /\ k \in DOMAIN buckets[h] /\ buckets[h][k] = r
  /\ buckets' = [buckets EXCEPT ![h] = RemoveAt(buckets[h], k)]
  /\ \A q \in Rec : q # r => heap'[q] = heap[q]

\* Unlinking a node takes its record from the table, and leaves the others there
\* in their order.
LEMMA Unlinked ==
  ASSUME BucketsTypeOK, NodesOwnRecords, NEW h \in Bucket, NEW k, NEW r \in Rec, Unlinks(h, k, r)
  PROVE  /\ BucketsTypeOK' /\ NodesOwnRecords'
         /\ \A s \in Rec : InTable(s)' <=> InTable(s) /\ s # r
         /\ \A x, y \in Rec : NoLater(x, y)' <=> NoLater(x, y) /\ x # r /\ y # r
<1> DEFINE b == buckets[h]
           c == buckets'[h]
<1> USE DEF Unlinks
<1>1. b \in Seq(Rec) /\ Len(b) \in Nat /\ DOMAIN b = 1..Len(b) /\ \A i \in 1..Len(b) : b[i] \in Rec
  BY BucketContents
<1>2. c = RemoveAt(b, k) /\ \A g \in Bucket : g # h => buckets'[g] = buckets[g]
  BY DEF BucketsTypeOK
<1>3. /\ c \in Seq(Rec) /\ Len(c) = Len(b) - 1
      /\ \A j \in 1..(Len(b) - 1) : c[j] = IF j < k THEN b[j] ELSE b[j+1]
  <2>1. k \in 1..Len(b)
    BY <1>1
  <2> HIDE DEF b, c
  <2> QED BY <2>1, <1>1, <1>2, RemoveAtProperties
<1>4. DOMAIN c = 1..(Len(b) - 1)
  BY <1>3, LenProperties
<1>5. BucketsTypeOK'
  BY <1>2, <1>3 DEF BucketsTypeOK
<1>6. k \in 1..Len(b) /\ \A i \in DOMAIN b : b[i] = r => i = k
  BY <1>1 DEF NodesOwnRecords
<1> HIDE DEF b, c
\* Where a node that stays has gone, and where it came from
<1> DEFINE to(i) == IF i < k THEN i ELSE i-1
           from(j) == IF j < k THEN j ELSE j+1
<1>7. \A i \in DOMAIN b : i # k => to(i) \in DOMAIN c /\ c[to(i)] = b[i] /\ to(i) \in Int
  BY <1>1, <1>3, <1>4, <1>6
<1>8. \A j \in DOMAIN c : /\ from(j) \in DOMAIN b /\ from(j) # k /\ b[from(j)] = c[j]
                          /\ from(j) \in Int
  BY <1>1, <1>3, <1>4, <1>6
<1>9. \A i, j \in DOMAIN b : i # k /\ j # k /\ i <= j => to(i) <= to(j)
  BY <1>1, <1>6
<1>10. \A i, j \in DOMAIN c : /\ i <= j => from(i) <= from(j)
                              /\ from(i) = from(j) => i = j
  BY <1>3, <1>4, <1>1, <1>6
<1> HIDE DEF to, from
<1>11. \A g \in Bucket : \A i \in DOMAIN buckets[g] : buckets[g][i] = r => g = h
  BY DEF NodesOwnRecords
<1>12. \A g \in Bucket : \A i \in DOMAIN buckets'[g] :
         buckets'[g][i] # r /\ InTable(buckets'[g][i]) /\ buckets'[g][i] \in Rec
  <2> SUFFICES ASSUME NEW g \in Bucket, NEW i \in DOMAIN buckets'[g]
               PROVE  buckets'[g][i] # r /\ InTable(buckets'[g][i]) /\ buckets'[g][i] \in Rec
    OBVIOUS
  <2>1. CASE g # h
    <3>1. buckets'[g] = buckets[g] /\ i \in DOMAIN buckets[g] /\ buckets[g][i] \in Rec
      BY <2>1, <1>2, BucketContents
    <3> QED BY <2>1, <3>1, <1>11 DEF InTable, InBucket
  <2>2. CASE g = h
    <3>1. i \in DOMAIN c /\ buckets'[g][i] = c[i]
      BY <2>2 DEF c
    <3>2. from(i) \in DOMAIN b /\ from(i) # k /\ b[from(i)] = c[i]
      BY <3>1, <1>8
    <3> QED BY <3>1, <3>2, <1>1, <1>6 DEF InTable, InBucket, b
  <2> QED BY <2>1, <2>2
<1>13. ASSUME NEW s \in Rec PROVE InTable(s)' <=> InTable(s) /\ s # r
  <2>1. ASSUME InTable(s), s # r PROVE InTable(s)'
    <3>1. PICK g \in Bucket : InBucket(g, s)
      BY <2>1 DEF InTable
    <3>2. PICK i \in DOMAIN buckets[g] : buckets[g][i] = s
      BY <3>1 DEF InBucket
    <3>3. CASE g # h
      BY <3>2, <3>3, <1>2 DEF InTable, InBucket
    <3>4. CASE g = h
      <4>1. i \in DOMAIN b /\ b[i] = s /\ i # k
        BY <3>2, <3>4, <2>1 DEF b
      <4>2. to(i) \in DOMAIN c /\ c[to(i)] = s
        BY <4>1, <1>7
      <4> QED BY <4>2 DEF InTable, InBucket, c
    <3> QED BY <3>3, <3>4
  <2>2. ASSUME InTable(s)' PROVE InTable(s) /\ s # r
    <3>1. PICK g \in Bucket : InBucket(g, s)'
      BY <2>2 DEF InTable
    <3>2. PICK i \in DOMAIN buckets'[g] : buckets'[g][i] = s
      BY <3>1 DEF InBucket
    <3> QED BY <3>2, <1>12
  <2> QED BY <2>1, <2>2
<1>14. ASSUME NEW x \in Rec, NEW y \in Rec
       PROVE  NoLater(x, y)' <=> NoLater(x, y) /\ x # r /\ y # r
  <2>1. ASSUME NoLater(x, y), x # r, y # r PROVE NoLater(x, y)'
    <3>1. PICK g \in Bucket : \E i, j \in DOMAIN buckets[g] :
                                i <= j /\ buckets[g][i] = x /\ buckets[g][j] = y
      BY <2>1 DEF NoLater
    <3>2. CASE g # h
      BY <3>1, <3>2, <1>2 DEF NoLater
    <3>3. CASE g = h
      <4>1. PICK i \in DOMAIN b, j \in DOMAIN b : i <= j /\ b[i] = x /\ b[j] = y
        BY <3>1, <3>3 DEF b
      <4>2. i # k /\ j # k
        BY <4>1, <2>1 DEF b
      <4>3. /\ to(i) \in DOMAIN c /\ to(j) \in DOMAIN c /\ to(i) <= to(j)
            /\ c[to(i)] = x /\ c[to(j)] = y
        BY <4>1, <4>2, <1>7, <1>9
      <4> QED BY <4>3 DEF NoLater, c
    <3> QED BY <3>2, <3>3
  <2>2. ASSUME NoLater(x, y)' PROVE NoLater(x, y) /\ x # r /\ y # r
    <3>1. PICK g \in Bucket : \E i, j \in DOMAIN buckets'[g] :
                                i <= j /\ buckets'[g][i] = x /\ buckets'[g][j] = y
      BY <2>2 DEF NoLater
    <3>2. x # r /\ y # r
      BY <3>1, <1>12
    <3>3. CASE g # h
      BY <3>1, <3>2, <3>3, <1>2 DEF NoLater
    <3>4. CASE g = h
      <4>1. PICK i \in DOMAIN c, j \in DOMAIN c : i <= j /\ c[i] = x /\ c[j] = y
        BY <3>1, <3>4 DEF c
      <4>2. /\ from(i) \in DOMAIN b /\ from(j) \in DOMAIN b /\ from(i) <= from(j)
            /\ b[from(i)] = x /\ b[from(j)] = y
        BY <4>1, <1>8, <1>10
      <4> QED BY <4>2, <3>2 DEF NoLater, b
    <3> QED BY <3>3, <3>4
  <2> QED BY <2>1, <2>2
<1>15. ASSUME NEW g \in Bucket, NEW i \in DOMAIN buckets'[g]
       PROVE  /\ heap'[buckets'[g][i]] # Free
              /\ proc_hash(heap'[buckets'[g][i]].pid) = g
              /\ \A j \in DOMAIN buckets'[g] : buckets'[g][i] = buckets'[g][j] => i = j
  <2>1. heap'[buckets'[g][i]] = heap[buckets'[g][i]]
    BY <1>12
  <2>2. CASE g # h
    BY <2>1, <2>2, <1>2 DEF NodesOwnRecords
  <2>3. CASE g = h
    <3>1. i \in DOMAIN c /\ buckets'[g] = c /\ buckets[g] = b
      BY <2>3 DEF b, c
    <3>2. from(i) \in DOMAIN b /\ b[from(i)] = c[i]
      BY <3>1, <1>8
    <3>3. heap[b[from(i)]] # Free /\ proc_hash(heap[b[from(i)]].pid) = g
      BY <3>1, <3>2 DEF NodesOwnRecords
    <3>4. ASSUME NEW j \in DOMAIN c, c[i] = c[j] PROVE i = j
      <4>1. from(j) \in DOMAIN b /\ b[from(i)] = b[from(j)]
        BY <3>2, <3>4, <1>8
      <4>2. from(i) = from(j)
        BY <3>1, <3>2, <4>1 DEF NodesOwnRecords
      <4> QED BY <3>1, <4>2, <1>10
    <3> QED BY <2>1, <3>1, <3>2, <3>3, <3>4
  <2> QED BY <2>2, <2>3
<1>16. NodesOwnRecords'
  BY <1>15 DEF NodesOwnRecords, proc_hash
<1> QED BY <1>5, <1>13, <1>14, <1>16

-------------------------------------------------------------------------------
\* The history the table keeps of a pid, as ImplementsMap maps it
Hist(pid) ==
  {e \in Rec \X Rec : NoLater(e[1], e[2]) /\ heap[e[1]].pid = pid /\ heap[e[2]].pid = pid}

LEMMA HistRecords ==
  ASSUME BucketsTypeOK, NodesOwnRecords, NEW pid \in Pid
  PROVE  Map!Records(pid) = {r \in Rec : InTable(r) /\ heap[r].pid = pid}
<1>1. \A r \in Rec : <<r, r>> \in Hist(pid) <=> InTable(r) /\ heap[r].pid = pid
  BY Ordered DEF Hist
<1>2. Map!Records(pid) = {r \in Rec : <<r, r>> \in Hist(pid)}
  BY DEF Map!Records, Hist
<1> QED BY <1>1, <1>2

\* Inserting a record that is younger than those of its pid
LEMMA InsertStep ==
  ASSUME TableInv, NEW r \in Rec, NEW pid \in Pid, NEW t \in 0..MaxTime, heap[r] = Free,
         heap' = [heap EXCEPT ![r] = [pid |-> pid, birth_time |-> t]], proc_inse(r, pid),
         \A s \in Rec : InTable(s) => heap[s].pid # pid \/ heap[s].birth_time < t
  PROVE  TableInv' /\ Map!Push(pid, r)
<1> DEFINE x == [pid |-> pid, birth_time |-> t]
<1>1. x \in Key /\ x # Free /\ x.pid = pid /\ x.birth_time = t /\ pid \in Nat
  BY FreeIsNoKey, PidsAreNumbers DEF Key
<1> HIDE DEF x
<1>2. heap \in [Rec -> Key \cup {Free}] /\ BucketsTypeOK /\ NodesOwnRecords
  BY DEF TableInv, TableTypeOK
<1>3. heap'[r] = x /\ \A s \in Rec : s # r => heap'[s] = heap[s]
  BY <1>2 DEF x
<1>4. ~InTable(r)
  BY <1>2, Standing
<1>5. \A s \in Rec : InTable(s) => heap'[s] # Free /\ heap'[s].pid = heap[s].pid
  BY <1>2, <1>3, <1>4, Standing
<1>6. BucketsTypeOK' /\ NodesOwnRecords' /\ \A s \in Rec : InTable(s)' <=> InTable(s) \/ s = r
  BY <1>1, <1>2, <1>3, <1>4, <1>5, InsertionAdds
<1>7. TableTypeOK'
  BY <1>1, <1>2, <1>6 DEF TableTypeOK, x
<1>8. NothingLost'
  BY <1>3, <1>6 DEF TableInv, NothingLost, Allocated
<1>9. KeysDiffer'
  <2> SUFFICES ASSUME NEW s \in Rec, NEW u \in Rec, InTable(s)', InTable(u)',
                      heap'[s].pid = heap'[u].pid, heap'[s].birth_time = heap'[u].birth_time
               PROVE  s = u
    BY DEF KeysDiffer
  <2>1. CASE s # r /\ u # r
    BY <2>1, <1>3, <1>6 DEF TableInv, KeysDiffer
  <2>2. CASE s = r \/ u = r
    <3>1. \A q \in Rec : InTable(q) => heap[q].pid # pid \/ heap[q].birth_time # t
      BY <1>2, Standing, KeyFields
    <3> QED BY <2>2, <3>1, <1>1, <1>3, <1>6
  <2> QED BY <2>1, <2>2
<1>10. \A q \in Pid : r \notin Map!Records(q)
  BY <1>2, <1>4, HistRecords
<1>11. \A y \in Rec : InBucket(proc_hash(pid), y) => InTable(y)
  BY <1>1, HashInBucket DEF InTable
<1>12. \A y \in Rec : InTable(y) /\ heap[y].pid = pid => InBucket(proc_hash(pid), y)
  BY <1>2, Standing
<1>13. \A y, z \in Rec : NoLater(y, z)' <=> NoLater(y, z)
                          \/ (y = r /\ (z = r \/ InBucket(proc_hash(pid), z)))
  BY <1>1, <1>2, InsertionOrder
<1>14. \A y, z \in Rec : NoLater(y, z) => InTable(y) /\ InTable(z)
  BY <1>2, Ordered
<1>15. ASSUME NEW q \in Pid
       PROVE  Hist(q)' = IF q = pid THEN Hist(pid) \cup ({r} \X (Map!Records(pid) \cup {r}))
                                    ELSE Hist(q)
  <2>1. Map!Records(pid) = {s \in Rec : InTable(s) /\ heap[s].pid = pid}
    BY <1>2, HistRecords
  <2>2. ASSUME NEW y \in Rec, NEW z \in Rec
        PROVE  <<y, z>> \in Hist(q)' <=>
                 (<<y, z>> \in Hist(q) \/ (q = pid /\ y = r /\ z \in Map!Records(pid) \cup {r}))
    <3>1. <<y, z>> \in Hist(q)' <=> NoLater(y, z)' /\ heap'[y].pid = q /\ heap'[z].pid = q
      BY DEF Hist
    <3>2. <<y, z>> \in Hist(q) <=> NoLater(y, z) /\ heap[y].pid = q /\ heap[z].pid = q
      BY DEF Hist
    <3>3. CASE y # r
      <4>1. NoLater(y, z)' <=> NoLater(y, z)
        BY <3>3, <1>13
      <4>2. NoLater(y, z) => z # r
        BY <1>4, <1>14
      <4>3. CASE NoLater(y, z)
        <5>1. heap'[y] = heap[y] /\ heap'[z] = heap[z]
          BY <3>3, <4>2, <4>3, <1>3
        <5> QED BY <3>1, <3>2, <3>3, <4>1, <5>1
      <4>4. CASE ~NoLater(y, z)
        BY <3>1, <3>2, <3>3, <4>1, <4>4
      <4> QED BY <4>3, <4>4
    <3>4. CASE y = r
      <4>1. ~NoLater(y, z)
        BY <3>4, <1>4, <1>14
      <4>2. NoLater(y, z)' <=> z = r \/ InBucket(proc_hash(pid), z)
        BY <3>4, <4>1, <1>13
      <4>3. heap'[y].pid = pid
        BY <3>4, <1>1, <1>3
      <4>4. z # r => heap'[z] = heap[z]
        BY <1>3
      <4>5. z # r => (z \in Map!Records(pid) <=> InBucket(proc_hash(pid), z) /\ heap[z].pid = pid)
        BY <2>1, <1>11, <1>12
      <4> QED BY <3>1, <3>2, <3>4, <4>1, <4>2, <4>3, <4>4, <4>5
    <3> QED BY <3>3, <3>4
  <2>3. Hist(q)' \subseteq Rec \X Rec /\ Hist(q) \subseteq Rec \X Rec /\ Map!Records(pid) \subseteq Rec
    BY <2>1 DEF Hist
  <2>4. ASSUME NEW e \in Rec \X Rec
        PROVE  e \in Hist(q)' <=>
                 (e \in Hist(q) \/ (q = pid /\ e \in {r} \X (Map!Records(pid) \cup {r})))
    <3>1. PICK y \in Rec, z \in Rec : e = <<y, z>>
      OBVIOUS
    <3>2. e \in {r} \X (Map!Records(pid) \cup {r}) <=> y = r /\ z \in Map!Records(pid) \cup {r}
      BY <3>1
    <3>3. e \in Hist(q)' <=> <<y, z>> \in Hist(q)'
      BY <3>1
    <3>4. e \in Hist(q) <=> <<y, z>> \in Hist(q)
      BY <3>1
    <3> QED BY <3>2, <3>3, <3>4, <2>2, Zenon
  <2>5. {r} \X (Map!Records(pid) \cup {r}) \subseteq Rec \X Rec
    BY <2>3
  <2> QED BY <2>3, <2>4, <2>5
<1>16. [q \in Pid |-> Hist(q)]' =
         [[q \in Pid |-> Hist(q)] EXCEPT ![pid] = @ \cup ({r} \X (Map!Records(pid) \cup {r}))]
  BY <1>15
<1>17. Map!Push(pid, r)
  BY <1>10, <1>16 DEF Map!Push, Hist
<1>18. AgesFall'
  <2> SUFFICES ASSUME NEW y \in Rec, NEW z \in Rec, NoLater(y, z)', heap'[y].pid = heap'[z].pid
               PROVE  heap'[z].birth_time <= heap'[y].birth_time
    BY DEF AgesFall
  <2>1. CASE NoLater(y, z)
    <3>1. y # r /\ z # r
      BY <2>1, <1>4, <1>14
    <3> QED BY <2>1, <3>1, <1>3 DEF TableInv, AgesFall
  <2>2. CASE ~NoLater(y, z)
    <3>1. y = r /\ (z = r \/ InTable(z))
      BY <2>2, <1>11, <1>13
    <3>2. CASE z = r
      <4>1. t \in Nat /\ t <= t
        BY PidsAreNumbers
      <4> QED BY <3>1, <3>2, <4>1, <1>1, <1>3
    <3>3. CASE z # r
      <4>1. InTable(z) /\ heap'[z] = heap[z] /\ heap[z].pid = pid /\ heap'[y].birth_time = t
        BY <3>1, <3>3, <1>1, <1>3
      <4>2. heap[z].birth_time < t /\ heap[z].birth_time \in Nat /\ t \in Nat
        BY <4>1, <1>2, Standing, KeyFields, PidsAreNumbers
      <4> QED BY <4>1, <4>2
    <3> QED BY <3>2, <3>3
  <2> QED BY <2>1, <2>2
<1> QED BY <1>6, <1>7, <1>8, <1>9, <1>17, <1>18 DEF TableInv

\* Deleting a record
LEMMA DeleteStep ==
  ASSUME TableInv, NEW r \in Rec, InTable(r), proc_dele(r)
  PROVE  /\ TableInv' /\ \E pid \in Pid : Map!Drop(pid, r)
         /\ heap' = [heap EXCEPT ![r] = Free]
         /\ \A s \in Rec : InTable(s)' <=> InTable(s) /\ s # r
<1>0. PICK h \in Bucket : \E k \in DOMAIN buckets[h] :
           /\ buckets[h][k] = r
           /\ buckets' = [buckets EXCEPT ![h] = RemoveAt(buckets[h], k)]
           /\ heap' = [heap EXCEPT ![r] = Free]
  BY DeletionFinds
<1>1. PICK k \in DOMAIN buckets[h] :
           /\ buckets[h][k] = r
           /\ buckets' = [buckets EXCEPT ![h] = RemoveAt(buckets[h], k)]
           /\ heap' = [heap EXCEPT ![r] = Free]
  BY <1>0
<1>2. heap \in [Rec -> Key \cup {Free}] /\ BucketsTypeOK /\ NodesOwnRecords
  BY DEF TableInv, TableTypeOK
<1>3. heap'[r] = Free /\ \A q \in Rec : q # r => heap'[q] = heap[q]
  BY <1>1, <1>2
<1>4. /\ BucketsTypeOK' /\ NodesOwnRecords'
      /\ \A s \in Rec : InTable(s)' <=> InTable(s) /\ s # r
      /\ \A x, y \in Rec : NoLater(x, y)' <=> NoLater(x, y) /\ x # r /\ y # r
  <2>1. Unlinks(h, k, r)
    BY <1>1, <1>3 DEF Unlinks
  <2> QED BY <2>1, <1>2, Unlinked
<1>5. TableTypeOK' /\ NothingLost' /\ KeysDiffer' /\ AgesFall'
  <2>1. TableTypeOK'
    BY <1>1, <1>2, <1>4 DEF TableTypeOK
  <2>2. NothingLost'
    BY <1>3, <1>4 DEF TableInv, NothingLost, Allocated
  <2>3. KeysDiffer'
    BY <1>3, <1>4 DEF TableInv, KeysDiffer
  <2>4. AgesFall'
    BY <1>3, <1>4 DEF TableInv, AgesFall
  <2> QED BY <2>1, <2>2, <2>3, <2>4
<1>6. PICK pid \in Pid : pid = heap[r].pid
  BY <1>2, Standing, KeyFields
<1>7. r \in Map!Records(pid)
  BY <1>2, <1>6, HistRecords
<1>8. ASSUME NEW q \in Pid
      PROVE  Hist(q)' = IF q = pid THEN {e \in Hist(q) : e[1] # r /\ e[2] # r} ELSE Hist(q)
  <2>1. ASSUME NEW e \in Rec \X Rec
        PROVE  e \in Hist(q)' <=> e \in Hist(q) /\ e[1] # r /\ e[2] # r
    <3>1. e[1] \in Rec /\ e[2] \in Rec
      OBVIOUS
    <3>2. NoLater(e[1], e[2])' <=> NoLater(e[1], e[2]) /\ e[1] # r /\ e[2] # r
      BY <3>1, <1>4
    <3>3. /\ e \in Hist(q)' <=> NoLater(e[1], e[2])' /\ heap'[e[1]].pid = q /\ heap'[e[2]].pid = q
          /\ e \in Hist(q) <=> NoLater(e[1], e[2]) /\ heap[e[1]].pid = q /\ heap[e[2]].pid = q
      BY DEF Hist
    <3> QED BY <3>1, <3>2, <3>3, <1>3
  <2>2. Hist(q)' \subseteq Rec \X Rec /\ Hist(q) \subseteq Rec \X Rec
    BY DEF Hist
  <2>3. q # pid => \A e \in Hist(q) : e[1] # r /\ e[2] # r
    BY <1>6 DEF Hist
  <2> QED BY <2>1, <2>2, <2>3
<1>9. [q \in Pid |-> Hist(q)]' =
        [[q \in Pid |-> Hist(q)] EXCEPT ![pid] = {e \in @ : e[1] # r /\ e[2] # r}]
  BY <1>6, <1>8
<1>10. Map!Drop(pid, r)
  BY <1>7, <1>9 DEF Map!Drop, Hist
<1> QED BY <1>1, <1>4, <1>5, <1>6, <1>10 DEF TableInv

\* An empty table
LEMMA EmptyTable ==
  ASSUME buckets = [h \in Bucket |-> <<>>], heap \in [Rec -> Key \cup {Free}],
         \A r \in Rec : heap[r] = Free
  PROVE  TableInv /\ \A pid \in Pid : Hist(pid) = {}
<1>1. \A h \in Bucket : buckets[h] = <<>> /\ DOMAIN buckets[h] = {}
  OBVIOUS
<1>2. BucketsTypeOK
  <2>1. <<>> \in Seq(Rec)
    BY EmptySeq
  <2> QED BY <2>1 DEF BucketsTypeOK
<1>3. \A r \in Rec : ~InTable(r)
  BY <1>1 DEF InTable, InBucket
<1>4. NodesOwnRecords
  BY <1>1 DEF NodesOwnRecords
<1>5. NothingLost /\ KeysDiffer
  BY <1>3 DEF NothingLost, KeysDiffer, Allocated
<1>6. \A pid \in Pid : Hist(pid) = {}
  <2>1. \A x, y \in Rec : ~NoLater(x, y)
    BY <1>1 DEF NoLater
  <2> QED BY <2>1 DEF Hist
<1>7. AgesFall
  BY <1>1 DEF AgesFall, NoLater
<1> QED BY <1>2, <1>4, <1>5, <1>6, <1>7 DEF TableInv, TableTypeOK

\* The destruction of the table frees every record.
LEMMA DestroyStep ==
  ASSUME TableInv, proc_tabl_dest
  PROVE  TableInv' /\ Map!Clear /\ \A r \in Rec : heap'[r] = Free
<1>1. heap' \in [Rec -> Key \cup {Free}] /\ \A r \in Rec : heap'[r] = Free
  BY DEF proc_tabl_dest, TableInv, TableTypeOK, NothingLost, Allocated
<1>2. buckets' = [h \in Bucket |-> <<>>]
  BY DEF proc_tabl_dest
<1>3. TableInv' /\ \A pid \in Pid : Hist(pid)' = {}
  <2>1. ASSUME (buckets = [h \in Bucket |-> <<>>])', (heap \in [Rec -> Key \cup {Free}])',
               (\A r \in Rec : heap[r] = Free)'
        PROVE  (TableInv /\ \A pid \in Pid : Hist(pid) = {})'
    BY <2>1, EmptyTable, PTL
  <2> QED BY <1>1, <1>2, <2>1
<1>4. [pid \in Pid |-> Hist(pid)]' = [pid \in Pid |-> {}]
  BY <1>3
<1> QED BY <1>1, <1>3, <1>4 DEF Map!Clear, Hist

\* What a step of the table does, in the terms of the map
LEMMA TableStep ==
  ASSUME TableInv, [TableNext]_tableVars
  PROVE  TableInv' /\ (Map!MapNext \/ UNCHANGED [pid \in Pid |-> Hist(pid)])
<1>1. heap \in [Rec -> Key \cup {Free}] /\ BucketsTypeOK /\ NodesOwnRecords
  BY DEF TableInv, TableTypeOK
<1>2. \A s \in Rec : InTable(s) => heap[s] \in Key /\ s \in Allocated
  BY <1>1, Standing DEF Allocated
<1>3. ASSUME NEW r \in Rec, dele(r)
      PROVE  TableInv' /\ Map!MapNext
  <2>1. InTable(r) /\ proc_dele(r)
    BY <1>3 DEF dele
  <2>2. TableInv' /\ \E pid \in Pid : Map!Drop(pid, r)
    BY <2>1, DeleteStep
  <2> QED BY <2>2 DEF Map!MapNext
<1>4. ASSUME NEW r \in Rec, NEW pid \in Pid, inse_chil(r, pid)
      PROVE  TableInv' /\ Map!MapNext
  <2>1. PICK t \in 1..MaxTime :
               /\ \A b \in Births : b < t
               /\ heap' = [heap EXCEPT ![r] = [pid |-> pid, birth_time |-> t]]
    BY <1>4 DEF inse_chil
  <2>2. t \in 0..MaxTime /\ t \in Nat
    BY PidsAreNumbers
  <2>3. ASSUME NEW s \in Rec, InTable(s) PROVE heap[s].birth_time < t
    <3>1. heap[s].birth_time \in Births
      BY <2>3, <1>2 DEF Births
    <3> QED BY <3>1, <2>1, <2>2
  <2>4. TableInv' /\ Map!Push(pid, r)
    BY <1>4, <2>1, <2>2, <2>3, InsertStep DEF inse_chil
  <2> QED BY <2>4 DEF Map!MapNext
<1>5. ASSUME NEW r \in Rec, NEW pid \in Pid, inse_pare(r, pid)
      PROVE  TableInv' /\ Map!MapNext
  <2>1. pid \in Nat /\ 0 \in 0..MaxTime
    BY PidsAreNumbers
  <2>2. \A s \in Rec : InTable(s) => heap[s].pid # pid
    BY <1>1, <1>5, <2>1, LookupAnswers, NullNotRec DEF inse_pare
  <2>3. TableInv' /\ Map!Push(pid, r)
    BY <1>5, <2>1, <2>2, InsertStep DEF inse_pare
  <2> QED BY <2>3 DEF Map!MapNext
<1>6. CASE proc_tabl_dest
  BY <1>6, DestroyStep DEF Map!MapNext
<1>7. CASE UNCHANGED tableVars
  <2>1. TableInv'
    BY <1>7 DEF tableVars, TableInv, TableTypeOK, BucketsTypeOK, NodesOwnRecords, NothingLost,
                KeysDiffer, Allocated, InTable, InBucket, AgesFall, NoLater
  <2>2. UNCHANGED [pid \in Pid |-> Hist(pid)]
    BY <1>7 DEF tableVars, Hist, NoLater
  <2> QED BY <2>1, <2>2
<1> QED BY <1>3, <1>4, <1>5, <1>6, <1>7 DEF TableNext

-------------------------------------------------------------------------------
LEMMA TableStarts == TableInit => TableInv /\ \A pid \in Pid : Hist(pid) = {}
  BY EmptyTable DEF TableInit, proc_tabl_init

LEMMA TableInvariance == TableSpec => []TableInv
<1>1. TableInit => TableInv
  BY TableStarts
<1>2. TableInv /\ [TableNext]_tableVars => TableInv'
  BY TableStep
<1> QED BY <1>1, <1>2, PTL DEF TableSpec

(* The nodes own their records: what proc_tabl_dest frees was allocated, and *)
(* no record is freed twice (ser_proc.c:67-79).                              *)
THEOREM TableOwnsRecords == TableSpec => []NodesOwnRecords
<1>1. TableInv => NodesOwnRecords
  BY DEF TableInv
<1> QED BY <1>1, TableInvariance, PTL

(* No record that was allocated ever leaves the table without being freed    *)
(* (ser_proc.c:16-51).                                                       *)
THEOREM TableLosesNothing == TableSpec => []NothingLost
<1>1. TableInv => NothingLost
  BY DEF TableInv
<1> QED BY <1>1, TableInvariance, PTL

(* proc_dele frees the record it is given and no other, and every other      *)
(* record is where it was (ser_proc.c:31-51).                                *)
THEOREM DeletionIsExact == TableSpec => DeleteExact
<1> DEFINE Exact == \A r \in Rec :
      InTable(r) /\ proc_dele(r) =>
        /\ heap'[r] = Free
        /\ \A s \in Rec \ {r} : heap'[s] = heap[s] /\ InTable(s)' = InTable(s)
<1>1. TableInv /\ [TableNext]_tableVars => [Exact]_tableVars
  <2> SUFFICES ASSUME TableInv, NEW r \in Rec, InTable(r), proc_dele(r)
               PROVE  /\ heap'[r] = Free
                      /\ \A s \in Rec \ {r} : heap'[s] = heap[s] /\ InTable(s)' = InTable(s)
    OBVIOUS
  <2>1. heap' = [heap EXCEPT ![r] = Free] /\ \A s \in Rec : InTable(s)' <=> InTable(s) /\ s # r
    BY DeleteStep
  <2>2. \A s \in Rec : InTable(s) \in BOOLEAN /\ InTable(s)' \in BOOLEAN
    BY DEF InTable
  <2> QED BY <2>1, <2>2 DEF TableInv, TableTypeOK
<1>2. DeleteExact <=> [][Exact]_tableVars
  BY DEF DeleteExact
<1> QED BY <1>1, <1>2, TableInvariance, PTL DEF TableSpec

(* The table implements the map: each insertion puts one record in front of  *)
(* the records of its pid, each deletion takes one out of them, and pids     *)
(* that share a bucket do not see each other (ser_proc.c:16-79).             *)
THEOREM TableIsMap == TableSpec => ImplementsMap
<1> DEFINE hist == [pid \in Pid |-> Hist(pid)]
<1>1. TableInit => Map!MapInit
  BY TableStarts DEF Map!MapInit, Hist
<1>2. TableInv /\ [TableNext]_tableVars => [Map!MapNext]_hist
  BY TableStep
<1>3. ImplementsMap <=> Map!MapInit /\ [][Map!MapNext]_hist
  BY DEF ImplementsMap, Map!MapSpec, Hist
<1> QED BY <1>1, <1>2, <1>3, TableInvariance, PTL DEF TableSpec

(* In every state of TableSpec a lookup answers the newest record of its     *)
(* pid, and NULL only when the pid's history is empty, whatever other pids   *)
(* stand in front of it in the bucket (ser_proc.c:53-65, d13).               *)
LEMMA LookupNewest ==
  ASSUME TableInv, NEW pid \in Pid
  PROVE  \/ proc_look(pid) = NULL /\ Map!Records(pid) = {}
         \/ /\ proc_look(pid) \in Map!Records(pid)
            /\ \A s \in Map!Records(pid) : <<proc_look(pid), s>> \in Hist(pid)
<1> DEFINE h == proc_hash(pid)
           b == buckets[h]
           hits == {i \in DOMAIN b : heap[b[i]].pid = pid}
           x == proc_look(pid)
<1>1. BucketsTypeOK /\ NodesOwnRecords /\ pid \in Nat /\ h \in Bucket
  BY PidsAreNumbers, HashInBucket DEF TableInv, TableTypeOK
<1>2. Map!Records(pid) = {r \in Rec : InTable(r) /\ heap[r].pid = pid}
  BY <1>1, HistRecords
<1>3. CASE x = NULL
  <2>1. \A r \in Rec : InTable(r) => heap[r].pid # pid
    BY <1>1, <1>3, LookupAnswers, NullNotRec
  <2> QED BY <2>1, <1>2, <1>3
<1>4. CASE x # NULL
  <2>1. x \in Rec /\ InTable(x) /\ heap[x].pid = pid
    BY <1>1, <1>4, LookupAnswers
  <2>2. hits # {}
    BY <1>4 DEF proc_look
  <2>3. hits \subseteq Nat
    BY <1>1, BucketContents
  <2> DEFINE m == CHOOSE i \in hits : \A j \in hits : i <= j
  <2>4. m \in hits /\ \A j \in hits : m <= j
    BY <2>2, <2>3, MinExists
  <2>5. x = b[m]
    BY <2>2 DEF proc_look
  <2> HIDE DEF m, x
  <2>6. ASSUME NEW s \in Map!Records(pid) PROVE <<x, s>> \in Hist(pid)
    <3>1. s \in Rec /\ InTable(s) /\ heap[s].pid = pid
      BY <1>2
    <3>2. InBucket(h, s)
      BY <3>1, <1>1, Standing
    <3>3. PICK j \in DOMAIN b : b[j] = s
      BY <3>2 DEF InBucket
    <3>4. m \in DOMAIN b /\ m <= j
      BY <3>1, <3>3, <2>4
    <3>5. NoLater(x, s)
      BY <3>3, <3>4, <2>5, <1>1 DEF NoLater
    <3> QED BY <3>1, <3>5, <2>1 DEF Hist
  <2> QED BY <2>1, <2>6, <1>2 DEF x
<1> QED BY <1>3, <1>4

(* A lookup answers the record of the process that was created last under    *)
(* the pid, and NULL only when the table has none of the pid, whatever other *)
(* pids stand in front of it in the bucket (ser_proc.c:53-65, d13).          *)
THEOREM NewestIsFound == TableSpec => []NewestFound
<1>1. TableInv => NewestFound
  <2> SUFFICES ASSUME TableInv, NEW pid \in Pid
               PROVE  LET known == {r \in Rec : InTable(r) /\ heap[r].pid = pid}
                      IN  IF known = {} THEN proc_look(pid) = NULL
                          ELSE /\ proc_look(pid) \in known
                               /\ \A r \in known :
                                    heap[r].birth_time <= heap[proc_look(pid)].birth_time
    BY DEF NewestFound
  <2> DEFINE known == {r \in Rec : InTable(r) /\ heap[r].pid = pid}
  <2>1. Map!Records(pid) = known
    BY HistRecords DEF TableInv, TableTypeOK
  <2>2. CASE proc_look(pid) = NULL /\ known = {}
    BY <2>2
  <2>3. CASE proc_look(pid) \in known /\ \A s \in known : <<proc_look(pid), s>> \in Hist(pid)
    <3>1. \A s \in known : /\ NoLater(proc_look(pid), s)
                           /\ heap[proc_look(pid)].pid = heap[s].pid
      BY <2>3 DEF Hist
    <3>2. \A s \in known : heap[s].birth_time <= heap[proc_look(pid)].birth_time
      BY <2>3, <3>1 DEF TableInv, AgesFall
    <3> QED BY <2>3, <3>2
  <2> QED BY <2>1, <2>2, <2>3, LookupNewest
<1> QED BY <1>1, TableInvariance, PTL
===============================================================================

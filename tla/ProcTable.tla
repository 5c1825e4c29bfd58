------------------------------- MODULE ProcTable -------------------------------
(***************************************************************************)
(* The hash table of c_core/ser_proc.c: buckets of list nodes, newest      *)
(* first, that own the records. Serie calls the operations; ProcTableSpec  *)
(* is the component on its own.                                            *)
(***************************************************************************)
EXTENDS ProcRec, Naturals, Sequences, SequencesExt

CONSTANTS Free,            \* the content of an address that is not allocated
          PROC_BUCK_NODES  \* number of buckets, a power of two in the code

ASSUME BucketsExist == PROC_BUCK_NODES \in Nat \ {0}

VARIABLES heap,     \* heap[r]: the struct proc at r, or Free
          buckets   \* buckets[h]: the records of bucket h along next

tableVars == <<heap, buckets>>

Bucket == 0 .. PROC_BUCK_NODES - 1

\* pid & (PROC_BUCK_NODES - 1)
proc_hash(pid) == pid % PROC_BUCK_NODES

Allocated == {r \in Rec : heap[r] # Free}
InBucket(h, r) == \E i \in DOMAIN buckets[h] : buckets[h][i] = r
InTable(r) == \E h \in Bucket : InBucket(h, r)

\* A bug: the walk goes on after a match, and answers the last one.
proc_look_last(pid) ==
  LET b == buckets[proc_hash(pid)]
      hits == {i \in DOMAIN b : heap[b[i]].pid = pid}
  IN  IF hits = {} THEN NULL
      ELSE b[CHOOSE i \in hits : \A j \in hits : j <= i]

\* The first record of pid along the bucket, or NULL.
proc_look(pid) ==
  LET b == buckets[proc_hash(pid)]
      hits == {i \in DOMAIN b : heap[b[i]].pid = pid}
  IN  IF hits = {} THEN NULL
      ELSE b[CHOOSE i \in hits : \A j \in hits : i <= j]

\* Two bugs: the calloc'ed node is left without its record; the node goes to
\* the end of the bucket.
proc_inse_empty(r, pid) ==
  buckets' = [buckets EXCEPT ![proc_hash(pid)] = <<NULL>> \o @]
proc_inse_last(r, pid) ==
  buckets' = [buckets EXCEPT ![proc_hash(pid)] = Append(@, r)]

\* The new node becomes the head of its bucket. The caller handles the calloc
\* of the node that fails.
proc_inse(r, pid) ==
  buckets' = [buckets EXCEPT ![proc_hash(pid)] = <<r>> \o @]

\* A bug: the nodes in front of the deleted one are dropped.
proc_dele_front(r) ==
  LET h == proc_hash(heap[r].pid)
      b == buckets[h]
      hits == {i \in DOMAIN b : /\ heap[b[i]].pid = heap[r].pid
                                /\ heap[b[i]].birth_time = heap[r].birth_time}
  IN  \E i \in hits :
        /\ \A j \in hits : i <= j
        /\ buckets' = [buckets EXCEPT ![h] = SubSeq(b, i + 1, Len(b))]
        /\ heap' = [heap EXCEPT ![b[i]] = Free]

\* The node that is unlinked is the first one with the pid and the birth time
\* of the argument, and its record is the one that is freed.
proc_dele(r) ==
  LET h == proc_hash(heap[r].pid)
      b == buckets[h]
      hits == {i \in DOMAIN b : /\ heap[b[i]].pid = heap[r].pid
                                /\ heap[b[i]].birth_time = heap[r].birth_time}
  IN  \E i \in hits :
        /\ \A j \in hits : i <= j
        /\ buckets' = [buckets EXCEPT ![h] = RemoveAt(b, i)]
        /\ heap' = [heap EXCEPT ![b[i]] = Free]

\* A bug: the records are freed and the buckets keep their nodes.
proc_tabl_dest_half ==
  /\ UNCHANGED buckets
  /\ heap' = [r \in Rec |-> IF InTable(r) THEN Free ELSE heap[r]]

\* Every node frees its record and itself.
proc_tabl_dest ==
  /\ buckets' = [h \in Bucket |-> <<>>]
  /\ heap' = [r \in Rec |-> IF InTable(r) THEN Free ELSE heap[r]]

proc_tabl_init == buckets = [h \in Bucket |-> <<>>]

TableInit == heap = [r \in Rec |-> Free] /\ proc_tabl_init

(* A node's record is allocated, stands in the bucket of its pid, and no two *)
(* nodes share a record: proc_tabl_dest (ser_proc.c:67) frees every record   *)
(* once, and nothing it reads was freed.                                     *)
NodesOwnRecords ==
  \A h \in Bucket : \A i \in DOMAIN buckets[h] :
    /\ heap[buckets[h][i]] # Free
    /\ proc_hash(heap[buckets[h][i]].pid) = h
    /\ \A j \in DOMAIN buckets[h] : buckets[h][i] = buckets[h][j] => i = j
===============================================================================

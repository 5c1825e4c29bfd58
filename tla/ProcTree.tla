------------------------------- MODULE ProcTree -------------------------------
(***************************************************************************)
(* The pointer structure of the process tree, c_core/ser_proc.c:81-109.    *)
(* atta_chil pushes a record at the head of its parent's sibling list.     *)
(* deta_chil unlinks the head at once and finds any other child by walking *)
(* the list, one next_sibl per iteration: `call` is the local state of     *)
(* that loop.                                                              *)
(***************************************************************************)
EXTENDS ProcRec, Naturals, Sequences

VARIABLES pare, firs_chil, next_sibl,
          call   \* NULL, or the arguments and the cursor of a running deta_chil

vars == <<pare, firs_chil, next_sibl, call>>

Ptr == Rec \cup {NULL}
Call == [pare : Rec, chil : Rec, curr : Rec]

TypeOK ==
  /\ pare \in [Rec -> Ptr]
  /\ firs_chil \in [Rec -> Ptr]
  /\ next_sibl \in [Rec -> Ptr]
  /\ call \in Call \cup {NULL}

\* Every struct proc is calloc'ed, so its links start as NULL.
Init ==
  /\ pare = [c \in Rec |-> NULL]
  /\ firs_chil = [c \in Rec |-> NULL]
  /\ next_sibl = [c \in Rec |-> NULL]
  /\ call = NULL

\* Two bugs: the head of the list is overwritten without being linked behind the
\* new child; a child is attached to a second parent.
atta_chil_drop(p, c) ==
  /\ call = NULL /\ p # c /\ pare[c] = NULL
  /\ pare' = [pare EXCEPT ![c] = p]
  /\ firs_chil' = [firs_chil EXCEPT ![p] = c]
  /\ UNCHANGED <<next_sibl, call>>
atta_chil_twice(p, c) ==
  /\ call = NULL /\ p # c
  /\ pare' = [pare EXCEPT ![c] = p]
  /\ next_sibl' = [next_sibl EXCEPT ![c] = firs_chil[p]]
  /\ firs_chil' = [firs_chil EXCEPT ![p] = c]
  /\ UNCHANGED call

\* Callers attach only records that are detached (Serie keeps this contract).
atta_chil(p, c) ==
  /\ call = NULL
  /\ p # c
  /\ pare[c] = NULL
  /\ pare' = [pare EXCEPT ![c] = p]
  /\ next_sibl' = [next_sibl EXCEPT ![c] = firs_chil[p]]
  /\ firs_chil' = [firs_chil EXCEPT ![p] = c]
  /\ UNCHANGED call

\* A bug: the parent pointer is reset only when the walk was needed.
deta_head_half(p, c) ==
  /\ call = NULL
  /\ firs_chil[p] = c
  /\ firs_chil' = [firs_chil EXCEPT ![p] = next_sibl[c]]
  /\ next_sibl' = [next_sibl EXCEPT ![c] = NULL]
  /\ UNCHANGED <<pare, call>>

deta_head(p, c) ==
  /\ call = NULL
  /\ firs_chil[p] = c
  /\ firs_chil' = [firs_chil EXCEPT ![p] = next_sibl[c]]
  /\ pare' = [pare EXCEPT ![c] = NULL]
  /\ next_sibl' = [next_sibl EXCEPT ![c] = NULL]
  /\ UNCHANGED call

\* A bug: the cursor starts behind the first child.
deta_walk_second(p, c) ==
  /\ call = NULL
  /\ firs_chil[p] \notin {c, NULL}
  /\ call' = [pare |-> p, chil |-> c, curr |-> next_sibl[firs_chil[p]]]
  /\ UNCHANGED <<pare, firs_chil, next_sibl>>

\* The loop reads curr->next_sibl at once: a parent without children is
\* outside the contract of the call.
deta_walk(p, c) ==
  /\ call = NULL
  /\ firs_chil[p] \notin {c, NULL}
  /\ call' = [pare |-> p, chil |-> c, curr |-> firs_chil[p]]
  /\ UNCHANGED <<pare, firs_chil, next_sibl>>

deta_next ==
  /\ call # NULL
  /\ next_sibl[call.curr] \notin {call.chil, NULL}
  /\ call' = [call EXCEPT !.curr = next_sibl[call.curr]]
  /\ UNCHANGED <<pare, firs_chil, next_sibl>>

\* return -1: the record is no child of this parent
deta_miss ==
  /\ call # NULL
  /\ next_sibl[call.curr] = NULL
  /\ call' = NULL
  /\ UNCHANGED <<pare, firs_chil, next_sibl>>

\* Two bugs: the successor is cleared before it is read; it is not cleared.
deta_unlink_early ==
  /\ call # NULL
  /\ next_sibl[call.curr] = call.chil
  /\ next_sibl' = [next_sibl EXCEPT ![call.curr] = NULL, ![call.chil] = NULL]
  /\ pare' = [pare EXCEPT ![call.chil] = NULL]
  /\ call' = NULL
  /\ UNCHANGED firs_chil
deta_unlink_stale ==
  /\ call # NULL
  /\ next_sibl[call.curr] = call.chil
  /\ next_sibl' = [next_sibl EXCEPT ![call.curr] = next_sibl[call.chil]]
  /\ pare' = [pare EXCEPT ![call.chil] = NULL]
  /\ call' = NULL
  /\ UNCHANGED firs_chil

deta_unlink ==
  /\ call # NULL
  /\ next_sibl[call.curr] = call.chil
  /\ next_sibl' = [next_sibl EXCEPT ![call.curr] = next_sibl[call.chil],
                                    ![call.chil] = NULL]
  /\ pare' = [pare EXCEPT ![call.chil] = NULL]
  /\ call' = NULL
  /\ UNCHANGED firs_chil

Walk == deta_next \/ deta_miss \/ deta_unlink

Next ==
  \/ \E p, c \in Rec : atta_chil(p, c) \/ deta_head(p, c) \/ deta_walk(p, c)
  \/ Walk

Spec == Init /\ [][Next]_vars

\* The program is sequential: a call that is running goes on.
FairSpec == Spec /\ WF_vars(Walk)

-------------------------------------------------------------------------------
(* A parent that some record names always has a first child, so the loop of *)
(* deta_chil never dereferences NULL when it is called as                    *)
(* deta_chil(c->pare, c), the way even_exit calls it.                        *)
ParentHasKids == \A c \in Rec : pare[c] # NULL => firs_chil[pare[c]] # NULL

(* deta_chil(c->pare, c) never answers -1: while the walk looks for a child  *)
(* of its parent, the end of the list is still ahead.                        *)
WalkFinds ==
  call # NULL /\ pare[call.chil] = call.pare => next_sibl[call.curr] # NULL

(* Two siblings never share a successor and no head is anyone's successor:   *)
(* unlinking one child never drops another one from the tree.                *)
NoSharing ==
  /\ \A c, d \in Rec : next_sibl[c] = next_sibl[d] /\ next_sibl[c] # NULL => c = d
  /\ \A p, c \in Rec : firs_chil[p] # NULL => next_sibl[c] # firs_chil[p]

(* Every deta_chil returns: the sibling lists have no cycle.                 *)
WalkReturns == (call # NULL) ~> (call = NULL)

(* The list a pointer walk from firs_chil visits. *)
Chain(p) ==
  LET from[c \in Ptr] == IF c = NULL THEN <<>> ELSE <<c>> \o from[next_sibl[c]]
  IN  from[firs_chil[p]]

(* The pointers implement the forest of child lists: attaching conses,      *)
(* detaching removes exactly the given child and keeps the others in order, *)
(* and the walk itself changes nothing.                                     *)
Forest == INSTANCE ProcForest WITH kids <- [p \in Rec |-> Chain(p)]
ImplementsForest == Forest!ForestSpec
===============================================================================

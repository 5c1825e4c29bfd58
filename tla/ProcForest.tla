------------------------------ MODULE ProcForest ------------------------------
(***************************************************************************)
(* What the process tree of c_core/ser_proc.c promises its callers: every  *)
(* record has a list of children, newest first, and a parent pointer.      *)
(* ProcTree implements it with firs_chil / next_sibl pointers; Serie calls *)
(* it from the event handlers.                                             *)
(***************************************************************************)
EXTENDS ProcRec, Naturals, Sequences, SequencesExt

VARIABLES kids,  \* kids[p]: the children of p, from firs_chil along next_sibl
          pare   \* pare[c]: the parent pointer of c

forestVars == <<kids, pare>>

IsKid(p, c) == \E i \in DOMAIN kids[p] : kids[p][i] = c

\* firs_chil of p
FirstKid(p) == IF kids[p] = <<>> THEN NULL ELSE kids[p][1]

\* The call links c at the head of p's list; it answers -1 and changes
\* nothing when p or c is NULL, or p = c.
CanAttach(p, c) == p \in Rec /\ c \in Rec /\ p # c

atta_chil(p, c) ==
  /\ kids' = [kids EXCEPT ![p] = <<c>> \o @]
  /\ pare' = [pare EXCEPT ![c] = p]

\* A bug: the parent pointer of the child is not reset.
deta_chil_half(p, c) ==
  \E i \in DOMAIN kids[p] :
    /\ kids[p][i] = c
    /\ kids' = [kids EXCEPT ![p] = RemoveAt(@, i)]
    /\ UNCHANGED pare

\* The call unlinks c from p's list wherever it stands in it. It answers -1
\* and changes nothing when p or c is NULL or p has children and c is not one.
deta_chil(p, c) ==
  \E i \in DOMAIN kids[p] :
    /\ kids[p][i] = c
    /\ kids' = [kids EXCEPT ![p] = RemoveAt(@, i)]
    /\ pare' = [pare EXCEPT ![c] = NULL]

-------------------------------------------------------------------------------
ForestInit ==
  /\ kids = [p \in Rec |-> <<>>]
  /\ pare = [c \in Rec |-> NULL]

\* The callers attach only records that are in no list.
ForestNext ==
  \E p, c \in Rec :
    \/ CanAttach(p, c) /\ pare[c] = NULL /\ atta_chil(p, c)
    \/ deta_chil(p, c)

ForestSpec == ForestInit /\ [][ForestNext]_forestVars

\* The parent pointers and the child lists say the same thing, and no record
\* is in a list twice.
Consistent ==
  /\ \A p, c \in Rec : IsKid(p, c) <=> pare[c] = p
  /\ \A p \in Rec : \A i, j \in DOMAIN kids[p] : kids[p][i] = kids[p][j] => i = j
===============================================================================

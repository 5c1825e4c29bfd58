------------------------------ MODULE MCProcTree ------------------------------
EXTENDS ProcTree, TLC

\* The records differ only by address.
Symmetry == Permutations(Rec)
===============================================================================

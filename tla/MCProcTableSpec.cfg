SPECIFICATION TableSpec
CONSTANTS
  Rec = {r1, r2, r3, r4}
  NULL = NULL
  Free = Free
  Pid <- MCPid
  PROC_BUCK_NODES = 2
  MaxTime = 4
SYMMETRY Symmetry
INVARIANTS NodesOwnRecords NewestFound
PROPERTIES ImplementsMap DeleteExact

SPECIFICATION Spec
CONSTANTS
  Rec = {r1, r2, r3, r4}
  NULL = NULL
  Free = Free
  PROC_BUCK_NODES = 2
  Pid <- Pid3
  InitPid = 1
  Boot <- JustInit
  Subreaper <- Two
  Threads = TRUE
  Attr <- NameOnly
  Val <- OneValue
  Recycle = TRUE
  MaxClock = 5
  QMax = 2
  AllocMayFail = TRUE
SYMMETRY Symmetry
INVARIANTS TypeOK Consistent Ownership NoDangling KeyUnique DeadIsRoot
PROPERTIES ForestSpec

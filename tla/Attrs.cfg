SPECIFICATION Spec
CONSTANTS
  Rec = {r1, r2, r3}
  NULL = NULL
  Free = Free
  PROC_BUCK_NODES = 2
  Pid <- Pid3
  InitPid = 1
  Boot <- JustInit
  Subreaper <- Nobody
  Threads = FALSE
  Attr <- NameAndUid
  Val <- TwoValues
  Recycle = FALSE
  MaxClock = 4
  QMax = 4
  AllocMayFail = FALSE
SYMMETRY Symmetry
INVARIANTS AttrAgrees

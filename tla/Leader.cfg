SPECIFICATION FairSpec
CONSTANTS
  Rec = {r1, r2, r3}
  NULL = NULL
  Free = Free
  PROC_BUCK_NODES = 2
  Pid <- Pid4
  InitPid = 1
  Boot <- JustInit
  Subreaper <- Nobody
  Threads = TRUE
  Attr <- NameOnly
  Val <- OneValue
  Recycle = FALSE
  MaxClock = 4
  QMax = 4
  AllocMayFail = FALSE
PROPERTIES Drains

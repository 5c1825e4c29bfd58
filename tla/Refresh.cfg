SPECIFICATION Spec
CONSTANTS
  Rec = {"p", "q"}
  Size <- Sizes
  First = "p"
  NS = 3
  MaxTime = 7
  FDSize = {0, 1, 3}
  MaxLooks = 2
CHECK_DEADLOCK FALSE
INVARIANTS SafeToRepeat

SPECIFICATION Spec
CONSTANTS
  MaxLen = 8
  MaxBlanks = 1
  MaxPieces = 3
  MaxBytes = 6
  Lengths = {0, 1, 4, 7, 12, 16, 23, 40}
  INT_MAX = 48
  CJSON_NESTING_LIMIT = 2
  CJSON_CIRCULAR_LIMIT = 2
INVARIANTS
  ParseExact ParseClean LiteralExact MinifyExact PrintExact CompareExact DuplicateWhole
CHECK_DEADLOCK FALSE

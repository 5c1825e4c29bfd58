SPECIFICATION Spec
CONSTANTS
  Item = {i1, i2, i3, i4, i5}
  Key <- Names
  Lower <- LowerCase
  NULL = NULL
  Few = 3
SYMMETRY Symmetry
INVARIANTS MemoryInStep WellFormed AnswersExact
PROPERTY IsTree

SPECIFICATION FairSpec
CONSTANTS
  Rec = {r1, r2, r3, r4}
  NULL = NULL
INVARIANTS TypeOK ParentHasKids WalkFinds NoSharing
PROPERTIES WalkReturns ImplementsForest

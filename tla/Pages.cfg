CONSTANTS
  Rows = {r1, r2, r3, r4, r5}
  PageSize = 2
SPECIFICATION Spec
INVARIANT
  MissedByDeletionOnly
PROPERTY
  WalkEnds
CHECK_DEADLOCK FALSE

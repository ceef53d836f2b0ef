SPECIFICATION FollowFairSpec
CONSTANTS
  RotateAt = 2
  MaxLines = 7
INVARIANTS PrintedOnceInOrder
PROPERTIES LineAheadIsPrinted
CHECK_DEADLOCK FALSE

SPECIFICATION Spec
CONSTANTS
  MaxLen = 6
INVARIANTS
  OnlyFrontLost
CHECK_DEADLOCK FALSE

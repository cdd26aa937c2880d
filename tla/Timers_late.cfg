SPECIFICATION Spec
CONSTANTS
  Names = {a, b}
  Fxns = {f}
  Intervals = {2, 3}
  AtTimes = {0}
  MaxInterval = 3
  Ratio = 2
  MaxAdds = 3
  MaxSlow = 1
INVARIANTS
  TypeOK
  LateBound
CHECK_DEADLOCK FALSE

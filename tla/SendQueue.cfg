SPECIFICATION FairSpec
CONSTANTS
  Prios = {0, 1}
  Costs = {6}
  MaxCost = 6
  MaxLines = 3
  MaxConnects = 2
  MaxSkew = 1
INVARIANTS
  TypeOK
  FloodBound
  StopsAfterOne
  LineAfterSleep
PROPERTIES
  SendsHighestOldest
  LinesSent
  KillReturns
CHECK_DEADLOCK FALSE

SPECIFICATION FairSpec
CONSTANTS
  Conns = {c1}
  EvThreads = {e1}
  Waiter = Waiter
  NoThread = NoThread
  Cmds = {}
  Signals = TRUE
  Kills = TRUE
  MaxConnects = 1
  MaxMsgs = 0
PROPERTIES
  QuitAllExits
CHECK_DEADLOCK FALSE

SPECIFICATION FairSpec
CONSTANTS
  Conns = {c1}
  EvThreads = {e1}
  Waiter = Waiter
  NoThread = NoThread
  Cmds = {"quit", "disconnect"}
  Signals = FALSE
  Kills = FALSE
  MaxConnects = 2
  MaxMsgs = 2
INVARIANTS
  SenderGone
PROPERTIES
  QuitEnds
CHECK_DEADLOCK FALSE

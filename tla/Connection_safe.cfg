SPECIFICATION Spec
CONSTANTS
  Conns = {c1}
  EvThreads = {e1, e2}
  Waiter = Waiter
  NoThread = NoThread
  Cmds = {"quit", "disconnect", "reconnect", "force_kill", "quitall", "disconnectall"}
  Signals = TRUE
  Kills = TRUE
  MaxConnects = 1
  MaxMsgs = 0
INVARIANTS
  TypeOK
  NoUseAfterDelete
SYMMETRY Symmetry
CHECK_DEADLOCK FALSE

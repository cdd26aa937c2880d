SPECIFICATION FairSpec

CONSTANTS
  t1 = t1
  t2 = t2
  t3 = t3
  EvThreads = {t1, t2}
  InitThreads <- TwoThreads
  Conns = {c1}
  Timer = Timer
  Main = Main
  NoThread = NoThread
  NoEvent = NoEvent
  MaxEvents = 2
  MaxNest = 1
  Counts = {1}
  Spurious = FALSE
  Timeouts = FALSE

PROPERTIES
  KillHonoured

CHECK_DEADLOCK FALSE

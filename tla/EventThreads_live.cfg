SPECIFICATION FairSpec

CONSTANTS
  t1 = t1
  t2 = t2
  t3 = t3
  EvThreads = {t1}
  InitThreads <- OneThread
  Conns = {c1, c2}
  Timer = Timer
  Main = Main
  NoThread = NoThread
  NoEvent = NoEvent
  MaxEvents = 1
  MaxNest = 1
  Counts = {}
  Spurious = FALSE
  Timeouts = FALSE

PROPERTIES
  JobsEnd

CHECK_DEADLOCK FALSE

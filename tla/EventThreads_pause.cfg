SPECIFICATION Spec

CONSTANTS
  t1 = t1
  t2 = t2
  t3 = t3
  EvThreads = {t1, t2}
  InitThreads <- TwoThreads
  Conns = {c1}
  Timer = Timer
  Main = Main
  NoThread = NoThread
  NoEvent = NoEvent
  MaxEvents = 2
  MaxNest = 2
  Counts = {1, 2}
  Spurious = TRUE
  Timeouts = TRUE

INVARIANTS
  TypeOK
  ExclusivePause
  LateStartBound
  NoLostWakeup
  ThreadsRemain
PROPERTIES
  RefinesPauseLock

CHECK_DEADLOCK FALSE

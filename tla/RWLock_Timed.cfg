CONSTANTS
  Threads = {t1, t2, t3}
  TimedReaders = {t1}
  Destroyers = {}
  MaxNest = 1
  NoThread = NoThread
SPECIFICATION Spec
INVARIANT FailedWaiterIsQueued
CHECK_DEADLOCK FALSE

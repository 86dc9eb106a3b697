CONSTANTS
  Threads = {t1, t2, t3}
  Locks = {m}
  KDEBUG = TRUE
  GuardedBy = {}
  StaticLocks = {m}
  TimedLockers = {t1,t2}
  TryLockers = {t2}
  Destroyers = {t3}
  NoThread = NoThread
  ZeroThread = ZeroThread
  DeadThread = DeadThread
SPECIFICATION FairSpec
INVARIANTS MutualExclusion NoStrandedWaiter
PROPERTIES AssertionsHold NoStarvation
CHECK_DEADLOCK FALSE

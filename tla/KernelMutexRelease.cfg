CONSTANTS
  Threads = {t1, t2, t3}
  guard = guard
  m = m
  Locks = {guard, m}
  KDEBUG = FALSE
  GuardedBy <- GuardedMutex
  StaticLocks = {}
  TimedLockers = {}
  TryLockers = {t2}
  Destroyers = {t3}
  NoThread = NoThread
  ZeroThread = ZeroThread
  DeadThread = DeadThread
SPECIFICATION FairSpec
INVARIANTS TypeOK MutualExclusion NoStrandedWaiter CountAccounting NoUseAfterDestroy
PROPERTY NoStarvation
CHECK_DEADLOCK FALSE

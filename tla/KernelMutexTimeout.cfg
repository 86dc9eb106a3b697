CONSTANTS
  Threads = {t1, t2, t3}
  Locks = {m}
  KDEBUG = FALSE
  GuardedBy = {}
  StaticLocks = {}
  TimedLockers = {t1}
  TryLockers = {t2}
  Destroyers = {}
  NoThread = NoThread
  ZeroThread = ZeroThread
  DeadThread = DeadThread
SPECIFICATION Spec
INVARIANT MutualExclusion
CHECK_DEADLOCK FALSE

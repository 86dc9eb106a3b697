CONSTANTS
  Threads = {t1, t2, t3}
  TimedReaders = {t1}
  Destroyers = {t2}
  MaxNest = 2
  NoThread = NoThread
SPECIFICATION FairSpec
INVARIANTS TypeOK MutualExclusion ReaderAccounting NoStrandedWaiter AssertionsHold
PROPERTIES ImplementsReadersWriter NoStarvation
CHECK_DEADLOCK FALSE

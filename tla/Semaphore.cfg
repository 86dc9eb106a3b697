SPECIFICATION Spec
CONSTANTS
  Threads = {t1, t2, t3}
  Impatient = {t1, t2}
  Switching = {t1}
  sMaxSems = 2
  MaxID = 2
  InitialCounts = {1}
  AcquireCounts = {1, 2}
  ReleaseCounts = {1}
  MaxCount = 2
INVARIANTS NetCount UnitsConserved NoOrphanedWaiter
PROPERTIES FailedAcquisitionWakes
CHECK_DEADLOCK FALSE

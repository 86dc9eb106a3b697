SPECIFICATION Spec
CONSTANTS
  Threads = {t1, t2, t3}
  Impatient = {}
  Switching = {t1}
  sMaxSems = 1
  MaxID = 0
  InitialCounts = {2}
  AcquireCounts = {1, 2, 3}
  ReleaseCounts = {1, 3}
  MaxCount = 5
INVARIANTS NoLostWakeup
CHECK_DEADLOCK FALSE

SPECIFICATION Spec
CONSTANTS
  Threads = {t1, t2, t3}
  Impatient = {t1, t2}
  Entries = {e1, e2}
  InitialUnits = {0, 1}
  MaxUnits = 2
INVARIANTS TypeOK UnitsConserved NoForgottenWaiter EntryInUse
PROPERTIES SignalNotLost

SPECIFICATION Spec
CONSTANTS
  Blocks = {1, 2}
  LogSize = 4
  MaxTransactionSize = 2
  MaxRuns = 3
  MaxTransactions = 2
  MaxCrashes = 0
INVARIANTS ReplayRecoversLogged

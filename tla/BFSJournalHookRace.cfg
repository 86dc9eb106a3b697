SPECIFICATION Spec
CONSTANTS
  Blocks = {1, 2}
  LogSize = 7
  MaxTransactionSize = 2
  MaxRuns = 2
  MaxTransactions = 2
  MaxCrashes = 0
INVARIANTS ReplayRecoversLogged

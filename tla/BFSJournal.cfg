SPECIFICATION OrdinarySpec
CONSTANTS
  Blocks = {1, 2}
  LogSize = 7
  MaxTransactionSize = 3
  MaxRuns = 2
  MaxTransactions = 3
  MaxCrashes = 2
INVARIANTS TypeOK CacheCoherent LogSpaceAfterSync
PROPERTIES ImplementsAtomicVolume FlushedToDisk JournalUnlocked

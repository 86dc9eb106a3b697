CONSTANTS
  Waiters = {w1, w2}
  Notifiers = {n1, n2}
  Unpublishers = {n1}
  Nobody = Nobody
SPECIFICATION FairSpec
INVARIANTS TypeOK EntryAccessIsSafe VariableAccessIsSafe EntriesCounted NoStrayUnblock TruthfulStatus
PROPERTIES WatchingThreadWakes SpinsEnd

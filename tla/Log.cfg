SPECIFICATION Spec
CONSTANTS
  Procs = {1, 2}
  NBUF = 4
  Home = {1, 2, 8}
  LOGSIZE = 4
  MAXOPBLOCKS = 2
  logstart = 3
  nlog = 4
  MaxCalls = 2
  MaxCrashes = 2
INVARIANTS ReturnedIsDurable RefcntExact SleeperHasWaker 
PROPERTIES ImplementsTransactions

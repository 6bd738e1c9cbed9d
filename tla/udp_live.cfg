CONSTANTS
  c1 = c1
  c2 = c2
  c3 = c3
  None = None
  Err = Err
  Calls <- Two
  Cancellable <- OnlyFirst
  Duplicates = TRUE
  ConcurrentClose = FALSE
SPECIFICATION FairSpec
INVARIANTS NoNilConn
PROPERTIES EveryCallReturns EveryHelperEnds
CHECK_DEADLOCK FALSE

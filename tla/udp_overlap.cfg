CONSTANTS
  c1 = c1
  c2 = c2
  c3 = c3
  None = None
  Err = Err
  Calls <- Three
  Cancellable <- NoCalls
  Duplicates = FALSE
  ConcurrentClose = TRUE
SPECIFICATION Spec
SYMMETRY Symmetry
INVARIANTS TypeOK OneInProgress OwnAnswerUntilFailure LagBounded
PROPERTIES ImplementsSyncQuery
CHECK_DEADLOCK FALSE

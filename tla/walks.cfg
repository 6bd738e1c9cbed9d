CONSTANTS
  Ids <- FourIds
  Content <- Recs
  Traits <- Kinds
  Ops <- AllOps
  MaxChanges = 1
  FirstID = 0
  LastID = 65535
  Raws = {7, 9}
  Crossings <- SomeCrossings
  None = None
SPECIFICATION FairSpec
INVARIANTS NothingMissed InOrder FirstMatch SensorsComplete ThresholdsOfTheReading
PROPERTIES ScanEnds
CHECK_DEADLOCK FALSE

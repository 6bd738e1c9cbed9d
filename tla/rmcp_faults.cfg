CONSTANTS
  s1 = s1
  s2 = s2
  s3 = s3
  s4 = s4
  Sids <- TwoSids
  Garbage = Garbage
  NoSid = NoSid
  Explicits <- ReservedAnd3
  Lists <- ThreeAnd17
  MaxTries = 2
  GarbageSuites <- Some
  MaxConnects <- TwoIfExplicit
  Faults = TRUE
SPECIFICATION FairSpec
INVARIANTS Agreement ExplicitSuiteUsed
PROPERTIES ConnectReturns
CHECK_DEADLOCK FALSE

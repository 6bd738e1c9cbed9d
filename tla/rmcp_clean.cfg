CONSTANTS
  s1 = s1
  s2 = s2
  s3 = s3
  s4 = s4
  Sids <- FourSids
  Garbage = Garbage
  NoSid = NoSid
  Explicits <- AnyExplicit
  Lists <- AnyList
  MaxTries = 11
  GarbageSuites <- Some
  MaxConnects <- OneConnect
  Faults = FALSE
SPECIFICATION Spec
INVARIANTS RmcpTypeOK ConnectsWhenPossible
CHECK_DEADLOCK FALSE

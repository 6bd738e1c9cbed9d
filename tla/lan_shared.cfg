CONSTANTS
  u1 = u1
  u2 = u2
  t1 = t1
  t2 = t2
  k1 = k1
  k2 = k2
  c0 = c0
  None = None
  Err = Err
  Calls <- AllCalls
  Cancellable <- Nobody
  Duplicates = FALSE
  ConcurrentClose = TRUE
  Users <- OneUser
  Ticks <- OneTick
  Closes <- TwoCloses
  ConnectCall = c0
  IpmiSeqMax = 2
SPECIFICATION LanSpec
INVARIANTS LanTypeOK SequenceGapFree IpmiSeqWindow DiesOnlyUnderClose SocketOutlivesSession
CHECK_DEADLOCK FALSE

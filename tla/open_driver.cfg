CONSTANTS
  c1 = c1
  c2 = c2
  c3 = c3
  Calls <- ThreeCalls
  AnswerLen <- Lengths
  Event = Event
  EventLen = 2
  MaxEvents = 1
  BufSize = 4
  Nobody = Nobody
SPECIFICATION FairSpec
INVARIANTS WholeOwnAnswer NoLostWakeup
PROPERTIES CallsReturn
CHECK_DEADLOCK FALSE

CONSTANTS
  Commands <- AllCommands
  Pairs <- MCPairs
  NoCall = NoCall
  DropsArguments <- MCDropsArguments
  ReadsPastEnd <- MCReadsPastEnd
  SharesBits <- MCSharesBits
  ReadsBackLess <- MCReadsBackLess
SPECIFICATION Spec
INVARIANTS ArgumentsSent AnswerInside FieldsApart SettingsRoundTrip AnswerReadable
CHECK_DEADLOCK FALSE

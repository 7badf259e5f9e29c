CONSTANTS
  Bytes <- HostCommands
  Is1450 = TRUE
  LastFrame = 2
  Faulty = TRUE
  KeyedLimit = 1
  SpeedLimit = 6
  Patient = TRUE
SPECIFICATION FairHostSpec
INVARIANTS
  TypeOK
  
  DirectionLeadsToEnd
PROPERTIES
  ResultMeansRegularSearch
  RegularSearchGetsResult
  ResultIsOwed
  RepeatPlaysAsAsked
  EntryIsAnswered

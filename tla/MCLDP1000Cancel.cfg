CONSTANTS
  Bytes <- CancelCommands
  Is1450 = TRUE
  LastFrame = 2
  Faulty = FALSE
  KeyedLimit = 1
  SpeedLimit = 1
  Patient = FALSE
SPECIFICATION HostSpec
PROPERTY ResultMeansRegularSearch

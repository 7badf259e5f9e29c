CONSTANTS
  Bytes <- HostCommands
  Type = "STANDARD"
  Discs = {1, 2}
  LastFrame = 1
  Faulty = TRUE
  Resets = TRUE
  FrameLimit = 1
  Patient = TRUE
  ReadsReplies = TRUE
SPECIFICATION FairHostSpec
PROPERTIES
  OneCommandPerNoEntry
  
  PendingEnds
  

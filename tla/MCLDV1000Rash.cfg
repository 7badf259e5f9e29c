CONSTANTS
  Bytes <- RashCommands
  Type = "SUPER"
  Discs = {1, 2}
  LastFrame = 0
  Faulty = TRUE
  Resets = FALSE
  FrameLimit = 1
  Patient = FALSE
  ReadsReplies = TRUE
SPECIFICATION HostSpec
INVARIANTS
  TypeOK
  SoundIsAsSet
  
PROPERTY SearchLastsFourReads

CONSTANTS
  Bytes <- MCBytes
  Statuses <- MCStatuses
  Noisy = FALSE
SPECIFICATION FairHostSpec
PROPERTIES
  CommandsComeInFrames
  HeldKeyActsOnce
  AckSettles

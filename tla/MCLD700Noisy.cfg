CONSTANTS
  Bytes <- NoisyBytes
  Statuses <- NoisyStatuses
  Noisy = TRUE
SPECIFICATION HostSpec
PROPERTY CommandsComeInFrames

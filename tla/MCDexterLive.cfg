CONSTANTS
  Interpreters <- LiveInterpreters
  LastFrame = 1
  Faulty = TRUE
  VP932Chars <- LiveChars
  VP932RxSize = 3
  VIPBytes <- LiveVIPCommands
  VIPNumSize = 1
  VIPKeyedLimit = 1
  PR8210Messages <- LiveMessages
  PR8210MaxDigits = 1
  PR8210Blink = 1
  PR7820Bytes <- PR7820Commands
  PR7820FrameSize = 2
  VP931Buffers <- Buffers
SPECIFICATION FairSpec
PROPERTIES
  VP932SearchEnds
  VIPRequestsEnd
  PR8210BlinkingEnds
  VP931PlayTakesHold

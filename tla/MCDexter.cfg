CONSTANTS
  Interpreters <- AllInterpreters
  LastFrame = 1
  Faulty = TRUE
  VP932Chars <- Chars
  VP932RxSize = 3
  VIPBytes <- VIPCommands
  VIPNumSize = 2
  VIPKeyedLimit = 3
  PR8210Messages <- Messages
  PR8210MaxDigits = 2
  PR8210Blink = 2
  PR7820Bytes <- PR7820Commands
  PR7820FrameSize = 3
  VP931Buffers <- Buffers
SPECIFICATION Spec
INVARIANTS
  TypeOK
  PR8210LineIsBelieved
  VP931NumbersArrive
PROPERTIES
  VP932AnswersItsHost
  VIPAnswersItsHost
  VIPDropsAreReported
  VIPEntersLastDigits
  PR8210SecondCopyActs
  PR8210JumpsOnEdge
  PR7820SearchesKeyed
  

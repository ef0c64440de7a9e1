SPECIFICATION TalkSpec
CONSTANTS
  Letters <- MCLetters
  Lines <- MCLines
  MaxLine <- MCMaxLine
  Stamp <- MCStamp
  Terminated <- MCTerminated
  Garbage = {"NUL", "?"}
  MaxTyped = 3
  MaxCuts = 1
INVARIANTS EchoesInOrder OnlyLongLinesOverrun
PROPERTIES ExitEndsBoth
CHECK_DEADLOCK FALSE

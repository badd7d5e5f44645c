SPECIFICATION FairSpec
CONSTANTS
  Plain <- MCPlain
  Shift = 21
  Break = 22
  Question = 23
  Invalid = 24
  Quit = 25
  ChanCap = 1
  QueueCap = 1
  MaxTyped = 1
  Limit = 3
  MaxCell = 5
  MaxWord = 31
  ConfigWords = {0}
  MaxAccepted = 6
PROPERTIES
  StrokesArrive
  Quits
CHECK_DEADLOCK FALSE

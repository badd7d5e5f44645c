SPECIFICATION Spec
CONSTANTS
  Plain <- MCPlain
  Shift = 21
  Break = 22
  Question = 23
  Invalid = 24
  Quit = 25
  ChanCap = 1
  QueueCap = 1
  MaxTyped = 2
  Limit = 3
  MaxCell = 5
  MaxWord = 31
  ConfigWords = {0}
  MaxAccepted = 12
INVARIANTS
  TypeOK
  AsTyped
  Recovers
CONSTRAINT
  NotTorn
CHECK_DEADLOCK FALSE

SPECIFICATION FairSpec
CONSTANTS
  Programs <- MCPrograms
  GlobalAt <- MCGlobalAt
  GlobalInit <- MCGlobalInit
  HeapStart = 5
  Top = 60
  Garbage = 777
INVARIANTS
  TypeOK
  ResultRight
PROPERTIES
  CallsReturn
  Ends
CHECK_DEADLOCK FALSE

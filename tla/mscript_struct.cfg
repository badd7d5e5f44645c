SPECIFICATION Spec
CONSTANTS
  Programs <- StructPrograms
  GlobalAt <- MCGlobalAt
  GlobalInit <- MCGlobalInit
  HeapStart = 5
  Top = 60
  Garbage = 777
INVARIANTS
  FrameHolds
CHECK_DEADLOCK FALSE

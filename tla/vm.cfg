SPECIFICATION FairSpec
CONSTANTS
  Programs <- MCPrograms
  IrqData <- Payloads
  IrqQueueCap = 2
  VgaWidth = 2
  VgaHeight = 2
INVARIANTS
  TypeOK
  ConstRegs
  NoStaleIrq
PROPERTIES
  IrqTransparent
  PageIsolation
  RefusedIsInert
  LineSpec
  Delivery
CHECK_DEADLOCK FALSE

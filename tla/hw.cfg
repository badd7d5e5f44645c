SPECIFICATION FairSpec
CONSTANTS
  Base = 8
  Xor <- MCXor
  Roms <- MCRoms
  RomSize = 5
  HaltLimit = 3
  Rest <- Word
  Fresh = 0
  Found <- MCFound
  Refused <- MCRefused
  EepromAt <- MCEepromAt
  NextPC <- MCNextPC
  NewRest <- MCNewRest
  Shown <- MCShown
  DumpRegs <- MCDumpRegs
  MaxRun = 3
  Counts = {2}
  Targets = {2}
  MaxChanged = 1
  MayLose = TRUE
INVARIANTS
  TypeOK
  InStep
  ImageRight
  SanityRight
  Lockstep
  AlarmRight
PROPERTIES
  Responds
CHECK_DEADLOCK FALSE

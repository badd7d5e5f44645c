SPECIFICATION Spec
CONSTANTS
  x = x
  y = y
  g = g
  Locals = {x, y}
  Globals = {g}
  Pointed = {x, y}
  Forced = {x, y}
  Values = {0, 1}
  NumRegs = 2
  Order <- MCOrder
INVARIANTS
  TypeOK
  OneOwner
  ReadsRight
  MemoryCurrent
  NoInternalError
CHECK_DEADLOCK FALSE

SPECIFICATION Spec
CONSTANTS
  x = x
  y = y
  g = g
  Locals = {x, y}
  Globals = {g}
  Pointed = {}
  Forced = {x, y}
  Values = {0, 1}
  NumRegs = 2
  Order <- MCOrder
INVARIANTS
  FlushSavesScope
CHECK_DEADLOCK FALSE

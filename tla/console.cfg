SPECIFICATION Spec
CONSTANTS
  a = a
  nl = nl
  Blank = Blank
  Mark = Mark
  Width = 3
  Height = 3
  Chars = {a}
  NewLine = nl
  Prompt <- MCPrompt
  MaxInput = 5
INVARIANTS
  TypeOK
  LineShown
  NothingBehind
CHECK_DEADLOCK FALSE

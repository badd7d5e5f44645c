SPECIFICATION FairSpec
CONSTANTS
  Keys <- MCKeys
  Limit = 3
  MaxCell = 6
  MaxWord = 11
  ConfigWords = {0}
  MaxAccepted = 5
INVARIANTS
  TypeOK
  Conservation
PROPERTIES
  KeysArrive

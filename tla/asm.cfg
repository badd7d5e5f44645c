SPECIFICATION FairSpec
CONSTANTS
  NoLabel = NoLabel
  Files <- MCFiles
  Libs <- MCLibs
  Depth = 2
  Names <- MCNames
  Labels = {"x", "y"}
  Offsets = {0, 2, 4}
INVARIANTS
  TypeOK
  WordsRight
  LabelsRight
  StartsRight
PROPERTIES
  Terminates
CHECK_DEADLOCK FALSE

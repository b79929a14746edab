SPECIFICATION Spec
CONSTANTS
  v1 = v1
  v2 = v2
  Ids = {1}
  Values <- MCValues
  Blank = blank
  None = none
  MaxNodes = 2
  MaxMounts = 2
SYMMETRY Symmetry
INVARIANTS
  Inductive
  NoLostWrite
  SelectSettles
  WritesReachTheirNode
PROPERTIES
  EditingIsSafe
CHECK_DEADLOCK FALSE

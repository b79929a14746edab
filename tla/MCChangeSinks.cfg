SPECIFICATION Spec
CONSTANTS
  Records = {1, 2, 3, 4, 5}
  Inputs <- MCInputs
  Sources = {"count"}
  SourceOf <- MCSourceOf
  Scopes = {0, 1, 2}
  Root = 0
  Watched = {3, 4, 5}
  MaxSinks = 4
  MaxNew = 2
  MaxDue = 1
INVARIANTS
  TypeOK
  NeverRefused
  IndexesMirrorLane
  GraphMirrorsSinks
CHECK_DEADLOCK FALSE

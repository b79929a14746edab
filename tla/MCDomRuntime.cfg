SPECIFICATION Spec
CONSTANTS
  row = row
  cell = cell
  map = map
  chart = chart
  press = press
  release = release
  Ids <- MCIds
  Names <- MCNames
  Events <- MCEvents
  None = None
  MaxNodes = 3
  MaxOps = 5
  MaxFrames = 2
  Reentry = {"update"}
  Throwing = {"event"}
SYMMETRY Symmetry
INVARIANTS
  DocumentMirrorsEngine
  RegistrationsMirrorEngine
  WidgetsMirrorMarkers
  NothingActsAfterwards
PROPERTIES
  CleanedUpInPlace
CHECK_DEADLOCK FALSE

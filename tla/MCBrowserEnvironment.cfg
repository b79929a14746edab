SPECIFICATION FairSpec
CONSTANTS
  Sources <- MCSources
  Order <- MCOrder
  None = None
  Declared = 2
  MaxChanges = 2
  MaxMounts = 3
  MaxGrowth = 1
  MaxRefused = 1
  MaxStranded = 1
INVARIANTS
  Inductive
  PayloadsReturned
  EngineKnowsThePage
  ListenersFollowMount
PROPERTIES
  ChangesAreReported
CHECK_DEADLOCK FALSE

SPECIFICATION Spec
CONSTANTS
  Size = 5
  Values = {0, 1, 2}
  Programs <- MCPrograms
  Map <- MCMap
  Map2 <- MCMap2
  KeyOf <- MCKeyOf
INVARIANTS Inductive OverlayNeverClashes CachesSettled SinksSettled
PROPERTY ObserversRunOnce
CHECK_DEADLOCK FALSE

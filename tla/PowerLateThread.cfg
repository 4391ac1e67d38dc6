SPECIFICATION Spec

CONSTANTS
  Attempts = 2
  StaleThreshold = 3
  LanPossible = FALSE
  MayBeRemoved = FALSE
  MaxCalls = 2
  MaxUpdates = 0
  MaxLanChanges = 0

INVARIANTS
  OffStands

CHECK_DEADLOCK FALSE

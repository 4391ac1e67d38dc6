SPECIFICATION Spec

CONSTANTS
  Attempts = 1
  StaleThreshold = 2
  LanPossible = TRUE
  MayBeRemoved = TRUE
  MaxCalls = 3
  MaxUpdates = 2
  MaxLanChanges = 1

INVARIANTS
  
  
  PingAbortHolds
  LockIsReleased

CHECK_DEADLOCK FALSE

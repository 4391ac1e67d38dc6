SPECIFICATION FairSpec

CONSTANTS
  Threads = {1, 2}
  Attempts = 3
  Window = 2
  MaxTime = 3
  MaxRevocations = 1
  MaxExpiries = 1
  MaxFaults = 1

INVARIANTS
  OneTroubleIsSurvived

PROPERTIES
  TokenNeverGoesBack
  CallsEnd

CHECK_DEADLOCK FALSE

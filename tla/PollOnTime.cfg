SPECIFICATION Spec

CONSTANTS
  ScanInterval = 3
  ActiveInterval = 2
  FastInterval = 1
  FullInterval = 10
  Keepalive = 5
  StaleTimeout = 7
  FastWindow = 4
  RetryMax = 15
  CycleMax = 1
  StartTimes = {2, 10}
  States = {"Ready"}
  Profiles = {0}
  LanPossible = TRUE
  MayUnload = FALSE
  MaxTime = 23
  MaxFrames = 2
  MaxPushes = 1
  MaxRequests = 0
  MaxFaults = 2

INVARIANTS
  TypeOK
  
  FullRefreshOnTime

PROPERTIES
  NoFalseOff

CHECK_DEADLOCK FALSE

SPECIFICATION Spec

CONSTANTS
  ScanInterval = 3
  ActiveInterval = 2
  FastInterval = 1
  FullInterval = 6
  Keepalive = 30
  StaleTimeout = 4
  FastWindow = 3
  RetryMax = 40
  CycleMax = 1
  StartTimes = {2}
  States = {"Ready", "Brewing"}
  Profiles = {0, 1, 2}
  LanPossible = TRUE
  MayUnload = TRUE
  MaxTime = 10
  MaxFrames = 2
  MaxPushes = 1
  MaxRequests = 2
  MaxFaults = 0

INVARIANTS
  IntervalMatchesMode
  SelectedProfileKept

CHECK_DEADLOCK FALSE

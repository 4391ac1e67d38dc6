SPECIFICATION Spec

CONSTANTS
  Peers = {m, o}
  AllowedPeers = {}
  Loopback = {}
  MaxSkew = 1
  Threshold = 8
  StaleAfter = 1
  Machine = m
  UptimeClock = TRUE
  OtherTime1 = {20}
  MaxTime = 3
  MaxHandshakes = 2
  MaxOthers = 1
  MaxCommands = 1
  MaxIdlePolls = 0
  MaxPushes = 3
  MaxLosses = 1
  MaxReboots = 0
  MaxRestarts = 1

INVARIANTS
  GapsCostOne
  MachineNeverStale

PROPERTIES
  NoNonceRollback

CHECK_DEADLOCK FALSE

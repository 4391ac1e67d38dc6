SPECIFICATION FairSpec

CONSTANTS
  Peers = {m}
  AllowedPeers = {m}
  Loopback = {}
  MaxSkew = 1
  Threshold = 8
  StaleAfter = 1
  Machine = m
  UptimeClock = FALSE
  OtherTime1 = {}
  MaxTime = 2
  MaxHandshakes = 2
  MaxOthers = 0
  MaxCommands = 3
  MaxIdlePolls = 2
  MaxPushes = 0
  MaxLosses = 2
  MaxReboots = 1
  MaxRestarts = 1

INVARIANTS
  QueueInOrder
  NoIvReuse

PROPERTIES
  ChannelSpec
  AcceptedExecuted

CHECK_DEADLOCK FALSE

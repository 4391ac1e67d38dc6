CONSTANTS
  Ordinary = {0, 2}
  Inverted = {13, 18}
  BlockingBits = {0, 13, 18}
  BrewBlocking = {0, 13, 18}
  MaxFrames = 3
  MaxChanges = 2
SPECIFICATION Spec
INVARIANTS
  NoPhantomAlarm
  ShownAlarmsAreFresh
CHECK_DEADLOCK FALSE

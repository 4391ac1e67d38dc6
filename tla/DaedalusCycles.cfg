CONSTANTS
  MaxSessions = 3
  MaxEvents = 4
SPECIFICATION FairSpec
INVARIANTS
  NoSocketLeftBehind
  EscalationNeedsAnswer
  LoginKept
PROPERTIES
  RejectionReachesUser
CHECK_DEADLOCK FALSE

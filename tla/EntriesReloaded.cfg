CONSTANTS
  Entry = {e1, e2}
  Watched = {e1}
  Machine = {m1, m2}
  Flow = {f1}
  NoMachine = none
  MaxChanges = 1
  MaxFaults = 1
SPECIFICATION FairSpec
INVARIANTS
  ServicesMatchEntries
  NothingLeftBehind
  OneEntryPerMachine
PROPERTIES
  RejectedRecovers

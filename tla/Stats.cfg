SPECIFICATION StatsFairSpec
CONSTANTS
  c1 = c1
  c2 = c2
  c3 = c3
  Client <- MCClient
  Nobody = Nobody
  EmptyEntry = EmptyEntry
  ZeroEntry = ZeroEntry
  NEntries = 2
CHECK_DEADLOCK FALSE
INVARIANTS
  PidIsAlive
PROPERTIES
  InterruptedEnds

SPECIFICATION Spec
CONSTANTS
  NPROC = 4
  NCPU = 2
  MaxPid = 4
  MaxSpace = 5
  Syscalls <- ThreadCalls
  KillArgs <- KillOthers
  MemoryFails = TRUE
  JoinFirst = TRUE
INVARIANTS
  PidUnique
  ParentIsAlive
  SleeperHasReason
  SpacesInOrder
  NumChildCounts

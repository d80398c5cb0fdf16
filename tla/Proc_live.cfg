SPECIFICATION FairSpec
CONSTANTS
  NPROC = 3
  NCPU = 1
  MaxPid = 4
  MaxSpace = 4
  Syscalls <- SleepCalls
  KillArgs <- KillOthers
  MemoryFails = FALSE
  JoinFirst = TRUE
INVARIANTS
  KilledWasNamed
PROPERTIES
  ImplementsLifecycle
  OrphanIsCollected
  KilledEnds

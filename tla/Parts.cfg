SPECIFICATION Spec
CHECK_DEADLOCK FALSE
CONSTANTS
  Pid = {1, 2}
  MaxJid = 3
  Chunk = 6
  Page = 2
  Start = 1
  MaxBrk = 18
  Wanted = {1, 3}
  NInodes = 4
  DataStart = 3
  Size = 10
  NDirect = 1
  NIndirect = 1
  DPB = 4
  MaxDamage = 2
  Cpu = {cpu0, cpu1}
  Boot = cpu0
  Process = {1, 2}
  TickWrap = 2
  Nap = 1
  Frame = {1, 2, 3, 4, 5, 6, 7, 8, 9}
  NTables = 1
  PGSIZE = 2
  USERTOP = 6
  Width = 16
  Slots = {1, 2, 3}
  Sbrk <- SbrkSizes
  Images = {3}
  Reader = {p1, p2}
  INPUT_BUF = 3
  UWrap = 6
  MaxTyped = 7
  Asked = {2}
INVARIANTS
  JobsAreListed
  HeapInOrder
  VerdictIsRight
  LocksInOrder
  MemoryInOrder
  LinesKept

SPECIFICATION KernelsSpec
CONSTANTS
  NPROC = 2
  CPU = {1}
  bootcpu = 1
  MaxPid = 3
  Quantum <- Allow1
  RoundRobin = 1
  QLEN = 1
  SizeCap = 1
  BumpEvery = 2
  Ends = TRUE
  Sleepers = {2}
  ForkIsSlow = TRUE
  p1 = p1
  p2 = p2
  p3 = p3
  p4 = p4
  a = a
  b = b
  c = c
  d = d
  Process <- MCProcess
  Init1 = p1
  Key <- MCKey
  MaxPages = 2
  Page <- MCPage
  NoPage = NoPage
  Reuse = FALSE
CHECK_DEADLOCK FALSE
SYMMETRY MCSymmetry
INVARIANTS
  Allowances
  PagesInOrder

SPECIFICATION FairSpec
CONSTANTS
  w1 = w1
  w2 = w2
  Worker <- MCWorker
  Fd <- MCFd
  nbuffers = 2
  MaxConn = 4
CHECK_DEADLOCK FALSE
INVARIANTS
  RingIsFifo
  DescriptorHasOneOwner
  NoLostWakeup
  ChildForEveryWaiter
PROPERTIES
  ImplementsFifo
  EveryConnectionEnds

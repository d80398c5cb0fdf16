SPECIFICATION FairSpec
CONSTANTS
  p1 = p1
  p2 = p2
  p3 = p3
  Proc <- MCTwo
  Maker = p1
  Nobody = Nobody
  PIPESIZE = 2
  Width = 4
  MaxBytes = 4
  MaxChunk = 3
CHECK_DEADLOCK FALSE
PROPERTIES
  EveryCallReturns

SPECIFICATION FairSpec
CONSTANTS
  p1 = p1
  p2 = p2
  b1 = b1
  b2 = b2
  s1 = s1
  s2 = s2
  s3 = s3
  Proc <- TwoProcs
  Buf <- TwoBufs
  Sector <- ThreeSectors
  NoSector = NoSector
  Nobody = Nobody
  Data = {0, 1}
  Written <- WrittenOne
  Blank = 0
  MaxSpurious = 1
  Errors = TRUE
CHECK_DEADLOCK FALSE
INVARIANTS
  BuffersInOrder
PROPERTIES
  ImplementsStore
  RequestServed

SPECIFICATION Spec
CONSTANTS
  p1 = p1
  p2 = p2
  Proc <- TwoProcs
  Name <- TwoNames
  NINODES = 3
  NINODE = 3
  NoSlot = NoSlot
  Calls <- MCCalls
SYMMETRY MCSymmetry
CHECK_DEADLOCK FALSE
INVARIANTS
  CacheInOrder
  AssertionsHold
  LinksAreNames
  SomeCallGoesOn

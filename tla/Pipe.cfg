SPECIFICATION Spec
CONSTANTS
  p1 = p1
  p2 = p2
  p3 = p3
  Proc <- MCThree
  Maker = p1
  Nobody = Nobody
  PIPESIZE = 2
  Width = 4
  MaxBytes = 5
  MaxChunk = 3
SYMMETRY MCSymmetry
CHECK_DEADLOCK FALSE
INVARIANTS
  SleepersWait
  FreedMeansUnused
PROPERTIES
  EofIsFinal
  ImplementsFifo

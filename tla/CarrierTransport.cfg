CONSTANTS
  Sizes = {1, 2}
  Marks = {0}
  None = None
  DefaultHigh = 2
  MaxWrites = 2
SPECIFICATION Spec
INVARIANTS WritesInOrder CloseKeepsData
PROPERTIES EndsFollow PauseEnds ClosedLayerRaises
CHECK_DEADLOCK FALSE

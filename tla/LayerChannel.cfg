CONSTANTS
  Depth = 2
  MaxWrites = 4
  MaxBytes = 3
  MaxChunk = 2
SPECIFICATION Spec
INVARIANTS WritesOnce EofAfterData
PROPERTIES EndsPropagate WriteSettles
CHECK_DEADLOCK FALSE

CONSTANTS
  HighWater = 1
  MaxWritten = 4
SPECIFICATION Spec
INVARIANTS FinAfterAll DrainMeansSent
PROPERTIES WritesSent CloseEnds
CHECK_DEADLOCK FALSE

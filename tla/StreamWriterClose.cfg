CONSTANTS
  HighWater = 1
  MaxWritten = 2
SPECIFICATION Spec
PROPERTY CloseFinishes
CHECK_DEADLOCK FALSE

CONSTANTS
  Sizes = {1}
  Marks = {}
  None = None
  DefaultHigh = 2
  MaxWrites = 1
SPECIFICATION Spec
PROPERTY LayerErrorRaises
CHECK_DEADLOCK FALSE

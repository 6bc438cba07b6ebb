CONSTANTS
  s1 = s1
  read = read
  Calls = {write, read, finish}
  Streams = {s1, s2}
  PartOf <- MCPartOf
  Blocking = {write, read}
  Numbered = {s2}
SPECIFICATION PartsSpec
INVARIANTS BusyMeansInProgress PairsUsedUp
PROPERTY FinishGoesThrough
CHECK_DEADLOCK FALSE

CONSTANTS
  Carriers = {c1}
  Loops = {p1, p2}
  NoLoop = NoLoop
  CallAsks = {}
  CoroAsks = {}
  KeptAsks = {}
  Listeners = {l1}
  Serves = {s1}
SPECIFICATION Spec
INVARIANTS ServingInv DecidesAtHome TransformReleases CloseEndsLoops
PROPERTY CloseEndsCoroutines
CHECK_DEADLOCK FALSE

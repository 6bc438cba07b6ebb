CONSTANTS
  Carriers = {c1}
  Loops = {p1, p2}
  NoLoop = NoLoop
  CallAsks = {}
  CoroAsks = {}
  KeptAsks = {}
  Listeners = {l1}
  Serves = {s1}
SPECIFICATION Spec
INVARIANT DecidesOnListenerLoop
CHECK_DEADLOCK FALSE

CONSTANTS
  Carriers = {c1}
  Loops = {l1}
  NoLoop = NoLoop
  CallAsks = {c1}
  CoroAsks = {c1}
  KeptAsks = {c1}
SPECIFICATION AdmissionSpec
INVARIANTS AsyncExportAnswered
CHECK_DEADLOCK FALSE

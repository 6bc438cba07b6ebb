CONSTANTS
  Carriers = {c1, c2}
  Loops = {p1, p2}
  NoLoop = NoLoop
  CallAsks = {c1}
  CoroAsks = {c1}
  KeptAsks = {c2}
SPECIFICATION AdmissionSpec
INVARIANT CallExportAnswered
PROPERTIES ExportEnds DecisionEnds
CHECK_DEADLOCK FALSE

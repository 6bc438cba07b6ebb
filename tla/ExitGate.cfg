CONSTANTS
  Threads = {t1, t2, t3}
  PyThreads = {p1}
  Main = main
  NoThread = none
  Nesting = 2
SPECIFICATION Spec
INVARIANT NoEntryWhileFinalizing
PROPERTIES ShutForGood ExitCompletes
CHECK_DEADLOCK FALSE

CONSTANTS
  Threads = {t1, t2}
  PyThreads = {p1}
  Main = main
  NoThread = none
  Nesting = 2
SPECIFICATION Spec
PROPERTY NeverHeld
CHECK_DEADLOCK FALSE

CONSTANTS
  Procs = 1
  Tiles = 3
  Nets <- OneProcess
SPECIFICATION Spec
CHECK_DEADLOCK FALSE
PROPERTY ShutdownEnds

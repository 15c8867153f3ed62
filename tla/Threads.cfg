SPECIFICATION Spec
CONSTANTS
  N = 3
  K = 2
  MaxTid = 2
  MaxYields = 4
  Masks <- TwoMasks
  Parents <- ZeroAndOne
  Targets <- TileOne
  Mode = "FULL"
INVARIANTS
  JoinAfterExit
  SlotOfThread
  
CHECK_DEADLOCK FALSE

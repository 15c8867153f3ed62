\* Three tiles, three lines, a slice with room for two of them; and three
\* tiles whose homes are locked by atomic instructions.
SPECIFICATION BothSpec
CONSTANTS
  t1 = t1
  t2 = t2
  t3 = t3
  a1 = a1
  a2 = a2
  a3 = a3
  None = None
  Tiles = {t1, t2, t3}
  Addrs = {a1, a2, a3}
  InstrAddrs = {a3}
  DataAddrs = {a1, a2}
  Home <- AllAtT1
  DramHome <- DramAtT2
  Values = {0, 1}
  InitVal = 0
  L1Ways = 1
  L2Ways = 2
  ReplacementPolicy = "round_robin"
  DirectoryType = "limited_broadcast"
  MaxHwSharers = 1
  MaxInFlight = 1
  Plan <- Steps
  Lines = {0, 1, 3, 6}
INVARIANTS NoAssertionFails CopiesAreCurrent NoLostWrite SliceKeepsWrites AtomicInstructions
PROPERTY AccessCompletes

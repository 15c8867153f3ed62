\* Two lines in L2, one in L1: accesses hit in L2.  One sharer is tracked.
SPECIFICATION Spec
CONSTANTS
  t1 = t1  t2 = t2  t3 = t3  a1 = a1  a2 = a2  a3 = a3  None = None
  Tiles = {t1, t2}
  Addrs = {a1, a2}
  InstrAddrs = {}
  DataAddrs = {a1, a2}
  Home <- OneHome
  Values = {0, 1}
  InitVal = 0
  L1Ways = 1  L2Ways = 2  DirWays = 2
  ReplacementPolicy = "lru"
  DirectoryType = "limited_no_broadcast"
  MaxHwSharers = 1
  MaxInFlight = 1
INVARIANTS Handover
PROPERTIES AtomicInstructions ImplementsCoherentMemory

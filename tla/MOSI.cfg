SPECIFICATION Spec
CONSTANTS
  t1 = t1
  t2 = t2
  t3 = t3
  a1 = a1
  a2 = a2
  a3 = a3
  None = None
  Tiles <- ThreeTiles
  Addrs = {a1, a2, a3}
  InstrAddrs = {a2, a3}
  DataAddrs = {a1}
  Home <- AllAtT1
  Values = {0, 1}
  InitVal = 0
  L1Ways = 1
  L2Ways = 1
  DirWays = 2
  ReplacementPolicy = "lru"
  DirectoryType = "limited_no_broadcast"
  MaxHwSharers = 2
  MaxInFlight = 1
  Plans <- Steps
INVARIANTS
  NoAssertionFails
  OneOwner
  NoLostWrite
SYMMETRY FetchedLines

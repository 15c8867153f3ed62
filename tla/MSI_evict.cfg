\* Three lines, one-line caches, a directory set of two entries: evictions cross
\* requests, and entries are replaced and nullified.  One sharer is tracked in hardware.
SPECIFICATION Spec
CONSTANTS
  t1 = t1  t2 = t2  t3 = t3  a1 = a1  a2 = a2  a3 = a3  None = None
  Tiles = {t1, t2}
  Addrs = {a1, a2, a3}
  InstrAddrs = {a2, a3}
  DataAddrs = {a1}
  Home <- OneHome
  Values = {0, 1}
  InitVal = 0
  L1Ways = 1  L2Ways = 1  DirWays = 2
  ReplacementPolicy = "lru"
  DirectoryType = "ackwise"
  MaxHwSharers = 1
  MaxInFlight = 1
INVARIANTS NoAssertionFails DirectoryKnowsHolders NoLostWrite
SYMMETRY FetchedLines

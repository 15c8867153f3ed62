\* Four threads and at most three units; two tiles and one line.
SPECIFICATION BothSpec
CONSTANTS
  t1 = t1  t2 = t2  a1 = a1  None = None
  Threads = {t1, t2, t3, t4}
  InitCount = 0
  MaxCount = 3
INVARIANTS NoLostWakeup
PROPERTIES ImplementsCounting AccessCompletes

CONSTANTS
  t1 = t1  t2 = t2  t3 = t3
  Threads = {t1, t2, t3}
  cond = cond  mutex = mutex
  Words = {cond, mutex}
  None = None
  Programs <- Both
  Kernel = "SQUEEZE"
  AddressSpace = 32
  StartData = 2
  StartStack = 6
  EndStack = 10
  StartDynamic = 20
  MaxBuff = 2
SPECIFICATION Spec
INVARIANTS PacketsUnderstood  MappingsDisjoint
PROPERTY AllReturn
CHECK_DEADLOCK FALSE

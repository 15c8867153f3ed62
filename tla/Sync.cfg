\* Three cores, one of them faster, a mutex, a condition and a barrier.
SPECIFICATION FairSpec
CONSTANTS
  c1 = c1  c2 = c2  c3 = c3  None = None
  Cores = {c1, c2, c3}
  Ops = {"mutexInit", "mutexLock", "mutexUnlock", "condInit", "condWait", "condSignal", "condBroadcast", "barrierInit", "barrierWait"}
  MaxMutexes = 1  MaxConds = 1  MaxBarriers = 1
  Counts = {2}
  MaxTime = 1  Unit = 1
  Freq <- OneFast
INVARIANTS MutualExclusion QueuesMatchCalls OneAnswer
PROPERTIES BarrierHolds WokenReturns
CHECK_DEADLOCK FALSE

\* Liveness: an idle thread and two others, every store through NULL ignored.
CONSTANTS
  NUMTHREADS = 3
  MAX_PRIORITY_PLUS_ONE = 3
  IdlePriority = 2
  Semaphores = {"s1"}
  InitialValue <- MCInitialValue
  MaxValue = 1
  MaxSleep = 2
  NullStore = {"ignored"}
SPECIFICATION FairSpec
PROPERTIES NoLastingInversion RoundRobin SleepersWake

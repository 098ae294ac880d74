\* An idle thread and three that block, sleep, kill themselves and add others.
CONSTANTS
  NUMTHREADS = 4
  MAX_PRIORITY_PLUS_ONE = 3
  IdlePriority = 2
  Semaphores = {"s1"}
  InitialValue <- MCInitialValue
  MaxValue = 1
  MaxSleep = 1
  NullStore = {"ignored", "fault"}
SPECIFICATION Spec
INVARIANTS TypeOK CountMatchesList SignalNeverSpins Placement WaitersSorted RunningNotFree RunsOnlyAlive SchedulerFindsThread
PROPERTIES NoOvertaking SwitchesToHighest ImplementsSemaphore
\* A hard fault stops the machine.
CHECK_DEADLOCK FALSE

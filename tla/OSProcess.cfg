\* No thread is bound to stay runnable: the scheduler may find no thread.
CONSTANTS
  NUMTHREADS = 3
  MAX_PRIORITY_PLUS_ONE = 1
  IdlePriority = 1
  Semaphores = {"s1"}
  InitialValue <- MCInitialValue
  MaxValue = 1
  MaxSleep = 1
  NullStore = {"ignored"}
  NUM_PROCESSES = 2
SPECIFICATION ProcessSpec
INVARIANTS ProcessTypeOK CountsThreads ImageLivesWithThreads
\* Without a runnable thread the machine stops.
CHECK_DEADLOCK FALSE

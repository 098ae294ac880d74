\* Three TCBs, any of which may block: up to three waiters of three priorities.
CONSTANTS
  NUMTHREADS = 3
  MAX_PRIORITY_PLUS_ONE = 3
  IdlePriority = 3
  Semaphores = {"s1"}
  InitialValue <- MCInitialValue
  MaxValue = 1
  MaxSleep = 1
  NullStore = {"ignored", "fault"}
SPECIFICATION Spec
INVARIANTS DoublyLinked
PROPERTIES ImplementsKernel
\* A hard fault stops the machine.
CHECK_DEADLOCK FALSE

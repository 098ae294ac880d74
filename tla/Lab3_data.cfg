CONSTANTS
  FIFOSIZE = 2
  BATCH = 3
  RUNLENGTH = 6
  Overrun = FALSE
SPECIFICATION Spec
INVARIANTS TypeOK BatchesInOrder
PROPERTIES ImplementsQueue ImplementsBox DisplayFinishes
\* The data path stops at the end of the run.
CHECK_DEADLOCK FALSE

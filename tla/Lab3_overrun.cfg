CONSTANTS
  FIFOSIZE = 2
  BATCH = 3
  RUNLENGTH = 6
  Overrun = TRUE
SPECIFICATION Spec
INVARIANTS BatchesInOrder

\* The data path stops at the end of the run.
CHECK_DEADLOCK FALSE

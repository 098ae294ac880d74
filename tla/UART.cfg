CONSTANTS
  FIFOSIZE = 2
  INDEXES = 4
  HWSIZE = 2
  LEVEL = 1
  LENGTH = 5
  Collide = FALSE

SPECIFICATION Spec
CHECK_DEADLOCK FALSE

INVARIANTS
  TypeOK
  SentInOrder
  NothingDropped

PROPERTIES
  ImplementsChannel
  AllSent

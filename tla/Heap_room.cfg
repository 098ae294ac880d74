\* Blocks of 2 and 4 words in an array of 14: room for three blocks and a gap.
CONSTANTS
  HEAP_SIZE = 14
  Requests = {0, 5, 9}
  Data <- MCData
  WordAfterHeap = 8
SPECIFICATION Spec
PROPERTIES NullOnlyWithoutRoom

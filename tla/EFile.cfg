CONSTANTS
  a = a
  b = b
  c = c
  Names = {a, b, c}
  NoName = NoName
  NUM_FILES = 3
  NUM_SECTORS = 4
  MAX_SECTOR_DATA = 2

SPECIFICATION Spec
SYMMETRY Symmetry

INVARIANTS
  TypeOK
  ChainsApart
  BytesKept
  SurvivesPowerLoss

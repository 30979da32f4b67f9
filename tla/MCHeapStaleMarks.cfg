SPECIFICATION Spec
CONSTANTS
  BIN_LIMIT = 2
  MIN_ALLOCATION_SIZE = 1
  CellsIn <- MCCellsIn
  LargeCells = 1
  Pages <- PagesLarge
  Sizes = {1, 3}
  MaxMappings = 3
  MaxFrames = 1
  Null = NULL
INVARIANT LiveAllocated
CHECK_DEADLOCK FALSE

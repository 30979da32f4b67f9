SPECIFICATION Spec
CONSTANTS
  BIN_LIMIT = 2
  MIN_ALLOCATION_SIZE = 1
  CellsIn <- MCCellsIn
  LargeCells = 1
  Pages <- PagesBins
  Sizes = {0, 2, 3}
  MaxMappings = 3
  MaxFrames = 1
  Null = NULL
INVARIANTS
  CellsAccounted
  MarksClear
  LiveAllocated
PROPERTIES
  ImplementsManagedHeap
  GarbageFreed
  OwnBin
CHECK_DEADLOCK FALSE

SPECIFICATION Spec
CONSTANTS
  HeaderSize = 2
  MapHeaderSize = 2
  Alignment = 2
  MIN_ALLOCATION_SIZE = 1
  PAGE_SIZE = 12
  Sizes = {0, 7, 9}
  Pages = 3
  TopDown = TRUE
INVARIANTS
  TypeOK
  Tiled
  FreeListExact
  ListOrdered
  Joined
  WalkOnCells
  SweepExact
PROPERTIES
  AllocateServes
  ImplementsBlockAllocator

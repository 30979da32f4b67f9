SPECIFICATION Spec
CONSTANTS
  a = a
  b = b
  c = c
  d = d
  e = e
  Null = NULL
  Obj = {a, b, c, d, e}
  NUM_WORKERS = 3
  Capacity = 4
  Heaps <- WideHeap
  Stacks <- RootA
  Stale = {d}
  LeftTasks <- Nothing
  LeftRoots <- RootLeft
  LeftMarks <- NoMarks
INVARIANTS
  DoneMeansMarked
  GarbageBounded
  MarkingInv
  QueuesAreRemainders
PROPERTIES
  DequesAreTaskDeques
  ImplementsAtomicMarking
CHECK_DEADLOCK FALSE

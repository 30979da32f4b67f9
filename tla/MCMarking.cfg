SPECIFICATION FairSpec
CONSTANTS
  a = a
  b = b
  c = c
  d = d
  e = e
  Null = NULL
  Obj = {a, b, c, d}
  NUM_WORKERS = 2
  Capacity = 4
  Heaps <- MCHeaps
  Stacks <- MCStacks
  Stale = {}
  LeftTasks <- NullsMadeUp
  LeftRoots <- Nothing
  LeftMarks <- BMarked
INVARIANTS
  TypeOK
  NothingMissed
  OnlyTracedMarked
  QueuesDryAfterJoin
PROPERTIES
  EventuallyMarked
  ImplementsAtomicMarking
CHECK_DEADLOCK FALSE

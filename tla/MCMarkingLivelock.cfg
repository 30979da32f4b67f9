SPECIFICATION FairSpec
CONSTANTS
  a = a
  b = b
  c = c
  d = d
  e = e
  Null = NULL
  Obj = {a, b, c, d}
  NUM_WORKERS = 2
  Capacity = 2
  Heaps <- TreeHeap
  Stacks <- RootA
  Stale = {}
  LeftTasks <- Nothing
  LeftRoots <- Nothing
  LeftMarks <- NoMarks
PROPERTY EventuallyMarked
CHECK_DEADLOCK FALSE

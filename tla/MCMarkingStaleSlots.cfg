SPECIFICATION Spec
CONSTANTS
  a = a
  b = b
  c = c
  d = d
  e = e
  Null = NULL
  Obj = {a, b, c, d}
  NUM_WORKERS = 2
  Capacity = 4
  Heaps <- MCHeaps
  Stacks <- RootA
  Stale = {d}
  LeftTasks <- Nothing
  LeftRoots <- Nothing
  LeftMarks <- NoMarks
INVARIANT OnlyTracedMarked
CHECK_DEADLOCK FALSE

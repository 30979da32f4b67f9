SPECIFICATION Spec
CONSTANTS
  Thief = {w1, w2}
  Capacity = 4
  Null = NULL
  MaxIndex = 5
SYMMETRY ThiefSymmetry
INVARIANTS
  TypeOK
  NoTaskLost
  RepeatsAreLostRaces
PROPERTY ImplementsTaskDeque
CHECK_DEADLOCK FALSE

SPECIFICATION Spec
SYMMETRY Symmetry
CONSTANTS
  Ent = {e1, e2, e3}
  Table = {t1, t2, t3}
  ZOrder = {0}
  Time = {0}
  MaxDrift = 1
  Careful = FALSE
  Rewind = FALSE
  NULL = NULL
  NIL = NIL
INVARIANTS
  HandlesCurrent
  ListsPartitionHeap
  CountNeverExceedsAttachers
  CursorAllocated

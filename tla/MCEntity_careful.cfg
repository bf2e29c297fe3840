SPECIFICATION Spec
SYMMETRY Symmetry
CONSTANTS
  Ent = {e1, e2, e3}
  Table = {t1, t2, t3}
  ZOrder = {0, 1}
  Time = {0}
  MaxDrift = 0
  Careful = TRUE
  Rewind = FALSE
  NULL = NULL
  NIL = NIL
INVARIANTS
  Sorted
  OnlyListedReached
  WalkVisitsAll

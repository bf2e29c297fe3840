SPECIFICATION TimerSpec
CONSTANTS
  Ent = {e1, e2}
  Table = {t1, t2}
  ZOrder = {0, 1}
  Time = {0, 1, 2, 3}
  MaxDrift = 0
  Careful = FALSE
  Rewind = FALSE
  NULL = NULL
  NIL = NIL
PROPERTIES
  WalkEnds

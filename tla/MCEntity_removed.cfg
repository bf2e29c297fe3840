SPECIFICATION Spec
SYMMETRY Symmetry
CONSTANTS
  Ent = {e1, e2}
  Table = {t1, t2}
  ZOrder = {0}
  Time = {0}
  MaxDrift = 0
  Careful = FALSE
  Rewind = FALSE
  NULL = NULL
  NIL = NIL
PROPERTIES
  NoThinkWithoutHandlers

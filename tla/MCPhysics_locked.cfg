SPECIFICATION Spec
SYMMETRY Symmetry
CONSTANTS
  Ent = {e1, e2}
  Data = {d1, d2}
  Shape = {s1, s2}
  MaxShapes = 2
  MaxContacts = 2
  Steps = 2
  NULL = NULL
  NONE = NONE
  JUNK = JUNK
  p1 = p1
  p2 = p2
  p3 = p3
  Obj = {s1, s2}
  Hand = {e1, e2}
  Cell = {"c1", "c2"}
  Pos = {p1, p2, p3}
  CellOf <- MCCellOf
  Boxes <- MCBoxes
  Pairs <- MCPairs
  Many <- MCMany
  BufSize = 2
  MaxPer = 1
  MaxBuf = 3
  MaxSpeed = 1
  MaxPlace = 1
  MaxSteps = 1
  MaxTable = 3
  Room = 4
INVARIANTS
  SetsUnlocked

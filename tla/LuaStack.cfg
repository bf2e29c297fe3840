SPECIFICATION StackSpec
CONSTANTS
  MainReturns = {1}
  MaxFrames = 2
  MaxLeft = 1
  Ent = {e1}
  JUNK = JUNK
  NONE = NONE
INVARIANT
  NothingBelow

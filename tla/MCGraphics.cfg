SPECIFICATION GraphicsSpec
CONSTANTS
  n1 = n1
  n2 = n2
  t1 = t1
  t2 = t2
  Ent = {e1, e2}
  Slot = {s1, s2, s3}
  Name = {n1, n2}
  Tex = {t1, t2}
  Frames <- MCFrames
  MaxFrames = 3
  JUNK = JUNK
  LUA = LUA
  NONE = NONE
  Image = {p1, p2}
  BLANK = BLANK
  MaxName = 3
  Colour = {0, 1}
  Strip = {i1, i2}
  MaxOthers = 1
  Table <- MCTable
  Given <- MCGiven
  WORD = WORD
  Wide = 6
  MaxGlyphs = 3
  MaxSide = 10
  MinDim = 4
  MaxDim = 8
  IntMax = 524287
  MaxClock = 2
  Speeds = {1, 2}
  Alphas = {0, 2}
  Lengths = {0, 2}
  MaxAlpha = 4
SYMMETRY Symmetry
INVARIANTS
  CountsExact
  ShowsWanted
  FrameShowsEntities
  BeamKept
  FadeKept
  GivenKept

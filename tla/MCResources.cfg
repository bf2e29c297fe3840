SPECIFICATION Spec
CONSTANTS
  Ent = {e1, e2}
  Addr = {a1, a2, a3}
  FontName = {n1, n2}
  PtSize = {1}
  Chars = {c1}
  Games <- MCGames
  MaxLost = 1
  Sound = {d1, d2, d3}
  Source = {s1, s2}
  Usable = {"png", "jpg", "jpeg", "wav", "ogg", "flac"}
  JUNK = JUNK
  NONE = NONE
SYMMETRY Symmetry
INVARIANTS
  FontsKept
  SourcesOwned
  LoadsGiveBack

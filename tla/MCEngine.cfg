SPECIFICATION FairSpec
CONSTANTS
  Key = {k1}
  Var = {"m_sens", "z_far"}
  Val = {plain, torn, listed, long}
  Torn = {torn}
  Listed = {listed}
  Long = {long}
  Stump = plain
  Brief = plain
  Scraps = {plain}
  Rest <- MCRest
  Beyond <- MCBeyond
  Owner <- MCOwner
  Saved <- MCSaved
  Default <- MCDefault
  ReadMax = 2
  FileMax = 3
  MaxChanges = 1
  MaxLost = 0
  NONE = NONE
INVARIANTS
  NeedsUp
  Written
  RoundTrip
PROPERTIES
  FailedStartKeeps
  StopEnds

SPECIFICATION SpecH
CONSTANTS
  Client = {c1, c2}
  BackendMax = 1
  Compiled = {0}
  Guarded = {}
  Ids <- TwoIds
  Callback = {m1}
  NoCallback = NoCallback
  AppSerialises = FALSE
SYMMETRY ClientSymmetry
INVARIANT FaultNeedsOverlap
CHECK_DEADLOCK FALSE

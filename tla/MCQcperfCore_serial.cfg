SPECIFICATION Spec
CONSTANTS
  Client = {c1, c2}
  BackendMax = 3
  Compiled = {0, 1}
  Guarded = {1}
  Ids <- LegalIds
  Callback = {m1}
  NoCallback = NoCallback
  AppSerialises = TRUE
SYMMETRY ClientSymmetry
INVARIANTS TypeOK NoFault ConnectedIsUsable NothingLeftBehind
PROPERTIES ConnectReportsState DeinitReleasesAll

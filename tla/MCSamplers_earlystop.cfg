SPECIFICATION Spec
CONSTANTS
  Thread = {t1, t2}
  NoThread = NoThread
  Request <- OneRequest
  NoRequest = NoRequest
  SamplingRates <- Rates
  StreamingRates <- Streams
  StopsFirst = TRUE
  AppWaits = FALSE
INVARIANT QuietUnlessStarted
CHECK_DEADLOCK FALSE

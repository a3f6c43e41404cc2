SPECIFICATION Spec
CONSTANTS
  Thread = {t1, t2}
  NoThread = NoThread
  Request <- FewRequests
  NoRequest = NoRequest
  SamplingRates <- Rates
  StreamingRates <- Streams
  StopsFirst = FALSE
  AppWaits = FALSE
INVARIANTS BufferNeverFull EagerFlagIsSafe TelemetryClosed
SYMMETRY Threads
VIEW AllButSent
CHECK_DEADLOCK FALSE

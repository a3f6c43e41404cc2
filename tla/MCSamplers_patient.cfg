SPECIFICATION Spec
CONSTANTS
  Thread = {t1, t2}
  NoThread = NoThread
  Request <- ManyRequests
  NoRequest = NoRequest
  SamplingRates <- Rates
  StreamingRates <- Streams
  StopsFirst = TRUE
  AppWaits = TRUE
INVARIANTS TypeOK NoFault QuietUnlessStarted Timely
  CallbackIsCurrent
PROPERTY KeepsPromise

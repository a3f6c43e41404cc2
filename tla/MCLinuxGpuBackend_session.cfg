SPECIFICATION Spec
CONSTANTS
  Thread = {t1, t2}
  NoThread = NoThread
  Metric = {utilization, clock}
  Request <- Requests
  NoRequest = NoRequest
  Capability <- KnownCapability
  SamplingRates <- Rates
  StreamingRates <- Streams
  StopsFirst = TRUE
  CallbackStops = FALSE
INVARIANTS TypeOK NoFault CollectorOwned QuietUnlessStarted BufferNeverFull
PROPERTY KeepsPromise

SPECIFICATION Spec
CONSTANTS
  Thread = {t1, t2}
  NoThread = NoThread
  Metric = {utilization, clock}
  Request <- OneRequest
  NoRequest = NoRequest
  Capability <- KnownCapability
  SamplingRates <- Rates
  StreamingRates <- Streams
  StopsFirst = FALSE
  CallbackStops = FALSE
PROPERTY DisconnectStopsSessions
CHECK_DEADLOCK FALSE

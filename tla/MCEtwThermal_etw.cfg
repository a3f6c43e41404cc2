SPECIFICATION Spec
CONSTANTS
  Session <- Sessions
  QcSession <- QcSessions
  Zone <- Zones
  MaxZoneId = 100
  MaxZones = 2
  MaxInstances = 2
  NoMap = NoMap
  NoZone = NoZone
INVARIANTS TypeOK ListenerHasTools SessionsRestored TemperaturesOwn
PROPERTY CallsReturn

SPECIFICATION FairSpec
CONSTANTS
  ip = ip
  Clients = {ip}
  Devices = {d1, d2}
  Address <- SharedAddress
  MaxRequests = 2
  Window = 1
  MaxTime = 1
  MaxAge = 0
  MaxAttempts = 2
  MaxReadings = 1
INVARIANTS
  TypeOK
  WindowRespected
  SentWasStored
  StoredAsReported
PROPERTIES
  ReadingsResolved
CHECK_DEADLOCK FALSE

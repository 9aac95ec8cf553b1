SPECIFICATION Spec
CONSTANTS
  t1 = t1
  t2 = t2
  Threads = {t1, t2}
  Receivers = {r1}
  Names = {n1}
  Assignments <- OrphanAssignments
  MaxSensorId = 1
  MaxReadingId = 1
  MaxKey = 1
  MaxStamp = 1
  MaxDay = 0
  MaxBatch = 1
INVARIANTS
  NoOrphanReadings

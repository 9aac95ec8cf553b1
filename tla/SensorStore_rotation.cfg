SPECIFICATION Spec
CONSTANTS
  t1 = t1
  t2 = t2
  Threads = {t1, t2}
  Receivers = {r1}
  Names = {n1}
  Assignments <- RotationAssignments
  MaxSensorId = 1
  MaxReadingId = 1
  MaxKey = 3
  MaxStamp = 1
  MaxDay = 0
  MaxBatch = 1
PROPERTIES
  RotationReplacesPresentedKey

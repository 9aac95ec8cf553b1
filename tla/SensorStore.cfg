SPECIFICATION Spec
CONSTANTS
  t1 = t1
  t2 = t2
  Threads = {t1, t2}
  Receivers = {r1}
  Names = {n1, n2}
  Assignments <- StoreAssignments
  MaxSensorId = 2
  MaxReadingId = 2
  MaxKey = 3
  MaxStamp = 2
  MaxDay = 2
  MaxBatch = 2
INVARIANTS
  TypeOK
  OrphansComeFromStaleWrites
  ReadingsBelongToOwner
  IdOrderIsCommitOrder
  LiveSensorsDistinct
PROPERTIES
  RetiredKeysStayRetired
  DeletionsAreSelected
  ImplementsAtomic
SYMMETRY Symmetry

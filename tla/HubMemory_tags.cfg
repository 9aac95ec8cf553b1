SPECIFICATION Spec
CONSTANTS
  t1 = t1
  t2 = t2
  t3 = t3
  Threads = {t1, t2}
  Sensors = {s1}
  Keys = {k1, k2}
  Rules = {r1}
  MaxEntries = 1
  Assignments <- AddingAssignments
PROPERTIES
  TagsLeaveByRemoval

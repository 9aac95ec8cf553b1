SPECIFICATION Spec
CONSTANTS
  t1 = t1
  t2 = t2
  t3 = t3
  Threads = {t1, t2, t3}
  Sensors = {s1, s2}
  Keys = {k1, k2}
  Rules = {r1, r2, r3}
  MaxEntries = 1
  Assignments <- WatchedAssignments
INVARIANTS
  TypeOK
  SearchesComplete
  RulesAppliedOnce
SYMMETRY Symmetry

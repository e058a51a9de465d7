CONSTANTS
  k1 = k1
  k2 = k2
  v1 = v1
  v2 = v2
  t1 = t1
  t2 = t2
  Absent = Absent
  NoThread = NoThread
  Keys = {k1, k2}
  Values = {v1, v2}
  Template <- MCTemplate
  Threads = {t1, t2}
  Edits <- MCEdits
  MaxClock = 1
  Faults = {}
SPECIFICATION Spec
INVARIANTS MutexHeld
PROPERTIES ImplementsStore

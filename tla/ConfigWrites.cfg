CONSTANTS
  k1 = k1
  k2 = k2
  v1 = v1
  v2 = v1
  t1 = t1
  t2 = t2
  Absent = Absent
  NoThread = NoThread
  Keys = {k1, k2}
  Values = {v1}
  Template <- MCTemplate
  Threads = {t1}
  Edits <- MCOneEdit
  MaxClock = 1
  Faults = {"edit", "delete", "denied", "full", "status", "crash"}
SPECIFICATION FairSpec
CHECK_DEADLOCK FALSE
PROPERTIES WritesOnlyWhatWasSet CallsReturn

SPECIFICATION Spec
CONSTANTS
  Absent = Absent
  Configs <- MCConfigs
  MaxCalls = 2
  MaxChanges = 1
  Faults = {"collector", "scan", "memory"}
INVARIANTS
  
  GoodInitLogs

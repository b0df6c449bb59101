SPECIFICATION EsxiRunSpec
CONSTANTS
  Nobody = Nobody
  v1 = v1
  v2 = v2
  Guest = {v1}
  Vm = {v1}
  MaxSteps <- WithFallback
  MaxSessions = 1
CHECK_DEADLOCK FALSE
INVARIANTS
  EsxiRunTypeOK
  NoLateSnapshot
  StrictMeansFrozen

SPECIFICATION EsxiRunConnectedSpec
CONSTANTS
  Nobody = Nobody
  v1 = v1
  v2 = v2
  Guest = {v2}
  Vm = {v2}
  MaxSteps <- WithFallback
  MaxSessions = 1
CHECK_DEADLOCK FALSE
PROPERTY SnapshotInAnyCase

SPECIFICATION EsxiRunAnsweredSpec
CONSTANTS
  Nobody = Nobody
  v1 = v1
  v2 = v2
  Guest = {v1, v2}
  Vm = {v1, v2}
  MaxSteps <- WithFallback
  MaxSessions = 1
CHECK_DEADLOCK FALSE
INVARIANTS
  FrozenOwnsSnapshot
  ThawedIsGone
  LeftoverIsReported
  ForceMeansFrozen
  SlotsComeBack
PROPERTIES
  ImplementsPromise
  RunEnds
  SnapshotInAnyCase

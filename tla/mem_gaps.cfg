SPECIFICATION MemSpec
CONSTANTS
  Run = {1, 2}
  NameOf <- OwnNames
  Foreign = {1}
  Unanswered = {"disk", "state"}
  Caps = {0}
  Grace = 1
  MaxTime = 1
CHECK_DEADLOCK FALSE
INVARIANTS
  MemTypeOK
PROPERTIES
  SlowRunKept
  ForeignUntouched
  RestoreSnapshotKept

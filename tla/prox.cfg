SPECIFICATION ProxFairSpec
CONSTANTS
  Nobody = Nobody
  v1 = v1
  c1 = c1
  Guest = {v1, c1}
  VM = {v1}
  CT = {c1}
  Switched = {v1}
  QemuChains <- AllChains
CHECK_DEADLOCK FALSE
INVARIANTS
  NothingLeftAtExit
  ReportMatchesEnd
  ThawedMeansRunning
PROPERTIES
  SnapshotInsideFreeze
  ImplementsPromise
  QuietAtSnapshot
  ImplementsRun
  RunEnds

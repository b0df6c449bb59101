SPECIFICATION ProxSpec
CONSTANTS
  Nobody = Nobody
  v1 = v1
  c1 = c1
  Guest = {v1, c1}
  VM = {v1}
  CT = {c1}
  Switched = {v1}
  QemuChains <- FallbackChains
CHECK_DEADLOCK FALSE
INVARIANTS
  ProxTypeOK
  CtThawKnowsHow
  NoMemLeftover
  ReportedThawedIsReal
  ThawedCpuRuns
PROPERTIES
  StoppedIsQuietAtSnapshot
  PauseStopsCpu

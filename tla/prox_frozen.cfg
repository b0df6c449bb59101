SPECIFICATION ProxSpec
CONSTANTS
  Nobody = Nobody
  v1 = v1
  c1 = c1
  Guest = {v1, c1}
  VM = {v1}
  CT = {c1}
  Switched = {}
  QemuChains <- FallbackChains
CHECK_DEADLOCK FALSE
INVARIANT NobodyLeftFrozen

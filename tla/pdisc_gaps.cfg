SPECIFICATION ProxDiscSpec
CONSTANTS
  v1 = v1
  c1 = c1
  va = va
  vb = vb
  ca = ca
  cb = cb
  VM = {v1}
  CT = {c1}
  Disk = {va, vb, ca, cb}
  Owner <- OwnerOf
  MaxMoves = 0
CHECK_DEADLOCK FALSE
INVARIANTS
  ProxDiscTypeOK
  AllDisksAtRest
  IncludeOnlyDecides
  FailedCheckIsWarned

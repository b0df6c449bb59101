SPECIFICATION SessHangsSpec
CONSTANTS
  Guest = {g1, g2}
  Nobody = Nobody
INVARIANTS
  SessTypeOK
PROPERTIES
  ThawsStartInParallel

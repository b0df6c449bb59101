SPECIFICATION SessFairSpec
CONSTANTS
  Guest = {g1, g2, g3}
  Nobody = Nobody
INVARIANTS
  ThawTouchesOnlyFrozen
  ClosedLeavesNobody
  ResultsComplete
PROPERTIES
  ResultsOnlyGainThaw
  CallsReturn

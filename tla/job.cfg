SPECIFICATION JobFairSpec
CONSTANTS
  Vm = {v1, v2}
  Slow = {v1}
  SlowRuns = {1}
  Protos = {"soap"}
  MaxRuns = 2
INVARIANTS
  NothingForgotten
  CleanupIsComplete
PROPERTIES
  ThawConverges

SPECIFICATION JobSpec
CONSTANTS
  Vm = {v1, v2}
  Slow = {v1}
  SlowRuns = {1}
  Protos = {"soap", "ssh"}
  MaxRuns = 2
PROPERTY DeletedFileMeansRemoved

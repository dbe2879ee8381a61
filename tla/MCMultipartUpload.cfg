CONSTANTS
  Ours = {u1, u2}
  Foreign = {}
  Key = {k1}
  Parts = 3
  InFlight = 2
  MayOutlast = FALSE
  MaxCrashes = 1
  MaxAborts = 0
  None = None
SPECIFICATION UploadFairSpec
CHECK_DEADLOCK FALSE
INVARIANTS WholeObject TracesAreKept
PROPERTY EveryUploadEnds

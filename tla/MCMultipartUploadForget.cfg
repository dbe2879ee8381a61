CONSTANTS
  Ours = {u1, u2}
  Foreign = {}
  Key = {k1}
  Parts = 1
  InFlight = 1
  MayOutlast = FALSE
  MaxCrashes = 0
  MaxAborts = 1
  None = None
SPECIFICATION MultipartSpec
CHECK_DEADLOCK FALSE
INVARIANT WorkIsTracked

CONSTANTS
  Ours = {u1, u2}
  Foreign = {f1}
  Key = {key}
  Parts = 1
  InFlight = 1
  MayOutlast = TRUE
  MaxCrashes = 1
  MaxAborts = 1
  None = None
  Caller = {c1, c2, c3}
  CacheKey = {k1, k2}
  Value = {v1, v2}
  Scope <- MCScope
  MaxEntries = 1
  Gone = Gone
SPECIFICATION PersistedSpec
CHECK_DEADLOCK FALSE
SYMMETRY PersistedSymmetry
INVARIANTS NoOldEntry
PROPERTY ForeignAskedFirst

CONSTANTS
  Profile = {p1}
  Bucket = {b1}
  k1 = k1
  k2 = k2
  Chunk <- MCChunk
  Key <- MCKey
  Prefix = {}
  None = None
  LockId = {t1, t2}
  TransferId = {t1, t2}
  TTL = 1
  Free = Free
  TheProfile = p1
  TheBucket = b1
  Caps = {1}
  MaxRebuilds = 1
  MayOutlast = TRUE
SPECIFICATION QueueFairSpec
CHECK_DEADLOCK FALSE
INVARIANTS NoLeakedLock EndsAreTold
PROPERTIES NothingTakenBack EveryTransferEnds CanceledDownloadStops

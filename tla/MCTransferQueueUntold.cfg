CONSTANTS
  Profile = {p1}
  Bucket = {b1}
  k1 = k1
  k2 = k2
  Chunk <- MCChunk
  Key <- MCOneKey
  Prefix = {}
  None = None
  LockId = {t1, t2}
  TransferId = {t1, t2}
  TTL = 1
  Free = Free
  TheProfile = p1
  TheBucket = b1
  Caps = {2}
  MaxRebuilds = 0
  MayOutlast = FALSE
SPECIFICATION QueueSpec
CHECK_DEADLOCK FALSE
INVARIANT EveryEndIsTold

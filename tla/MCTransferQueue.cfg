CONSTANTS
  Profile = {p1}
  Bucket = {b1}
  k1 = k1
  k2 = k2
  Chunk <- MCChunk
  Key <- MCKey
  Prefix = {}
  None = None
  LockId = {t1, t2, t3}
  TransferId = {t1, t2, t3}
  TTL = 0
  Free = Free
  TheProfile = p1
  TheBucket = b1
  Caps = {1}
  MaxRebuilds = 1
  MayOutlast = FALSE
SPECIFICATION QueueSpec
CHECK_DEADLOCK FALSE
SYMMETRY TransferSymmetry
INVARIANTS ExclusiveWork PermitsBoundWork

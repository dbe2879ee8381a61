CONSTANTS
  Profile = {p1}
  Bucket = {b1, b2}
  a = a
  b = b
  Chunk <- MCChunk
  Key <- MCKey
  Prefix <- MCPrefix
  None = None
  LockId = {l1, l2}
  TTL = 1
  Free = Free
SPECIFICATION FairSpec
INVARIANTS TypeOK MutualExclusion NoFalseConflict
PROPERTIES ImplementsOwnership LeakedLockExpires
CHECK_DEADLOCK FALSE

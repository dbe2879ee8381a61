CONSTANTS
  d = d
  e = e
  s = s
  x = x
  y = y
  Profile = {p1}
  Bucket = {b1}
  TheProfile = p1
  TheBucket = b1
  Chunk <- MCChunk
  Key <- MCRenameKey
  Prefix <- MCPrefix
  Folder <- MCFolder
  Rank <- MCRank
  LockId <- MCLockId
  Op = {o1}
  Job <- MCRename
  Page = {}
  Existing <- MCExisting
  Fetch = {}
  ChunkSize = 1
  TTL = 1
  Free = Free
  None = None
  Absent = Absent
SPECIFICATION MutationSpec
INVARIANT NotInItsOwnWay
CHECK_DEADLOCK FALSE

CONSTANTS
  d = d
  e = e
  s = s
  x = x
  y = y
  Profile = {p1}
  Bucket = {b1}
  TheProfile = p1
  TheBucket = b1
  Chunk <- MCChunk
  Key <- MCKey
  Prefix <- MCPrefix
  Folder <- MCFolder
  Rank <- MCRank
  LockId <- MCLockId
  Op = {o1, o2}
  Job <- MCJob
  Page <- MCPage
  Existing <- MCExisting
  Fetch = {f1}
  ChunkSize = 1
  TTL = 1
  Free = Free
  None = None
  Absent = Absent
SPECIFICATION MutationSpec
SYMMETRY OpSymmetry
INVARIANTS MutationsExclude LocksReturned BatchesDoNotRefuseEachOther ListingsFollow
CHECK_DEADLOCK FALSE

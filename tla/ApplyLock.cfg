SPECIFICATION FairSpec
CONSTANTS
  Procs = {p1, p2, p3}
  Inodes = {i1, i2}
  NoProc = NoProc
  NoInode = NoInode
INVARIANTS ExclusiveUntilRemoved LockOwnedByHolder HolderIsRecorded
PROPERTY AcquireDecides

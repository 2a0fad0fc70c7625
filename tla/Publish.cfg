SPECIFICATION FairSpec
CONSTANTS
  Files = {unit}
  Scanned = {unit}
  Dirs = {"dir"}
  DirOf <- MCDirOf
  Contents = {c1, c2}
  Torn = torn
  Absent = absent
  Pids = {p1, p2}
  NoPid = noPid
  MaxWrites = 1
  MaxPowerLoss = 1
INVARIANTS AckedIsDurable RollbackRestores
PROPERTIES ImplementsAtomicFile LeftoversCollected

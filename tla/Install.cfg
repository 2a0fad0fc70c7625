SPECIFICATION FairSpec
CONSTANTS
  Versions = {v1, v2}
  NoVersion = none
  Pids = {p1, p2}
  NoPid = noPid
  KeepVersions = 1
  LocalTarballs = {v2}
  MaxStaging = 1
  MaxPowerLoss = 1
  MaxClockSteps = 1
INVARIANT UnitHasTree
PROPERTY StagingSwept

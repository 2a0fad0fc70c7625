SPECIFICATION FairFleetSpec
CONSTANTS
  own1 = own1
  own2 = own2
  own3 = own3
  b1 = b1
  b2 = b2
  None = None
  Runners = {1, 2}
  Pools = {1}
  Owns = {own1, own2, own3}
  Bodies <- MCBodies
  Uses <- MCUses
  Ident <- MCIdent
  Options <- MCOptions
  MaxFaults = 1
  MaxEdits = 1
INVARIANTS
  SuccessIsApplied
  NoDanglingPool
  ChangedRunnersRun
  PoolOutlivesItsRunners
PROPERTIES
  FilesConverge

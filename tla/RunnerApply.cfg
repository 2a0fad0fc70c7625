SPECIFICATION Spec
CONSTANTS
  base = base  trim = trim  other = other  moved = moved
  idA = idA  idB = idB  dflt = dflt  zoneB = zoneB
  None = None
  Specs = {base, trim, other, moved}
  Ids = {idA, idB}
  Zones = {dflt, zoneB}
  DefaultZone = dflt
  Identity <- MCIdentity
  TrustZone <- MCTrustZone
  Optional <- MCOptional
  MaxDropIn = 2
  RollbackModes = {TRUE, FALSE}
  NoRestartModes = {TRUE, FALSE}
  Siblings = {zoneB}
  EditKinds = {"config", "impatient", "unit", "registration"}
  FaultKinds = {"before", "after", "undo", "reconcile", "read", "start"}
  MaxFaults = 1
  MaxCrashes = 1
  MaxEdits = 2
INVARIANTS CreatedIsComplete UpdatedIsExact RemovedIsGone RollbackRestoresFiles RollbackStopsNewProcess KeepsContract

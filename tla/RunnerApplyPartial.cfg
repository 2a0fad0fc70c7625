SPECIFICATION Spec
CONSTANTS
  base = base  trim = trim  other = other  moved = moved
  idA = idA  idB = idB  dflt = dflt  zoneB = zoneB
  None = None
  Specs = {base}
  Ids = {idA, idB}
  Zones = {dflt, zoneB}
  DefaultZone = dflt
  Identity <- MCIdentity
  TrustZone <- MCTrustZone
  Optional <- MCOptional
  MaxDropIn = 2
  RollbackModes = {FALSE}
  NoRestartModes = {FALSE}
  Siblings = {}
  EditKinds = {"config"}
  FaultKinds = {"before"}
  MaxFaults = 1
  MaxCrashes = 0
  MaxEdits = 0
INVARIANT NoOpIsComplete

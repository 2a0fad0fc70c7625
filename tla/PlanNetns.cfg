SPECIFICATION Spec
CONSTANTS
  None = None
  Files <- MCFiles
  MaxCount = 1024
  NetnsPoolSlots = 64
  HostArch <- MCHostArch
  DefaultZone <- MCDefaultZone
  Configs <- MCConfigs
  Releases <- MCReleases
  Schemas <- MCSchemas
  MaxEdits = 1
INVARIANT NetnsFollows

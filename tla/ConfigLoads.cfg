SPECIFICATION FairSpec
CONSTANTS
  Absent = Absent
  Malformed = Malformed
  Nothing = Nothing
  Zero <- None
  Characters <- MCCharacters
  Dash = "-"
  DNS1123LabelMaxLength = 8
  Suffix <- MCSuffix
  HashLen = 2
  Hash <- MCHash
  KeyApplicationsNS = "applications-namespace"
  PlatformNS <- MCPlatformNS
  PlatformGrid <- MCPlatformGrid
  Keys <- MCKeys
  Values <- MCValues
  Defaults <- MCDefaults
  Unfit <- MCUnfit
  Files <- MCFiles
  Skipped <- MCSkipped
  Volumes <- MCVolumes
  Environments <- MCEnvironments
  Paths = {"unset", "directory", "file"}
  MaxUpdates = 3
  MaxKills = 1
INVARIANTS TypeOK LoadedFromOneVersion GridNamespaceFits
PROPERTIES ConfigComes
CHECK_DEADLOCK FALSE

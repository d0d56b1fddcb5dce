SPECIFICATION FairSpec
CONSTANTS
  rbac = rbac
  gateway = gateway
  Absent = Absent
  Companions <- MCOneCompanion
  ManagementStates <- UserStates
  InfraSeparate = TRUE
  LegacyUpgrade = TRUE
  RecreationMayFail = TRUE
  EarlyReenable = FALSE
  MaxEdits = 2
  MaxFaults = 1
  MaxLag = 0
PROPERTIES RuntimeEventuallyCleaned
CHECK_DEADLOCK FALSE

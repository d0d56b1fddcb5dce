SPECIFICATION Spec
CONSTANTS
  rbac = rbac
  gateway = gateway
  Absent = Absent
  Companions <- MCOneCompanion
  ManagementStates <- UserStates
  InfraSeparate = TRUE
  LegacyUpgrade = FALSE
  RecreationMayFail = FALSE
  EarlyReenable = TRUE
  MaxEdits = 3
  MaxFaults = 0
  MaxLag = 0
PROPERTIES ManagedNeverCollected
CHECK_DEADLOCK FALSE

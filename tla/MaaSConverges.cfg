SPECIFICATION FairSpec
CONSTANTS
  rbac = rbac
  gateway = gateway
  Absent = Absent
  Companions <- MCOneCompanion
  ManagementStates <- AllStates
  InfraSeparate = TRUE
  LegacyUpgrade = TRUE
  RecreationMayFail = TRUE
  EarlyReenable = TRUE
  MaxEdits = 3
  MaxFaults = 2
  MaxLag = 2
INVARIANTS SettledMatchesSpec
PROPERTIES RemovedEventuallyGone ManagedEventuallyInstalled
CHECK_DEADLOCK FALSE

SPECIFICATION FairSpec
CONSTANTS
  rbac = rbac
  gateway = gateway
  Absent = Absent
  Companions <- MCCompanions
  ManagementStates <- UserStates
  InfraSeparate = TRUE
  LegacyUpgrade = TRUE
  RecreationMayFail = FALSE
  EarlyReenable = FALSE
  MaxEdits = 4
  MaxFaults = 2
  MaxLag = 0
INVARIANTS TypeOK NoOrphanedRuntime
PROPERTIES ManagedNeverCollected InfraHeldUntilTornDown RemovedNeverReinstalls ImplementsHandshake TeardownSeenThrough RuntimeEventuallyCleaned
CHECK_DEADLOCK FALSE

SPECIFICATION FairSpec
CONSTANTS
  Absent = Absent
  MaaSStates = {"Managed", "Removed"}
  GridStates = {TRUE}
  InfraSeparate = TRUE
  Beginnings <- Mixed
  MaxEvents = 2
  MaxFaults = 1
INVARIANTS TypeOK SettledRights SettledNamespaces
PROPERTIES OthersLabelsKept PassesStop
CHECK_DEADLOCK FALSE

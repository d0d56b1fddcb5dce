SPECIFICATION FairSpec
CONSTANTS
  Toggled <- MaaSGrid
  Operands <- FewOperands
  GridCRDs = {crd1}
  MaxEdits = 3
  MaxChanges = 2
  MaxFaults = 1
INVARIANTS TypeOK SettledSubModules SettledAvailability
PROPERTIES GridCRDsKept ConditionsConverge
CHECK_DEADLOCK FALSE

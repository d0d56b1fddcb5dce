SPECIFICATION Spec
CONSTANTS
  Toggled <- BatchGrid
  Operands <- NoOperands
  GridCRDs = {crd1}
  MaxEdits = 2
  MaxChanges = 2
  MaxFaults = 0
INVARIANT AvailableMeansAllReady
CHECK_DEADLOCK FALSE

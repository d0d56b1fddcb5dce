SPECIFICATION Spec
CONSTANTS
  MaxVersion = 1
  MaxBinary = 2
  Withdrawals = FALSE
  MaxUpdates = 1
  MaxFaults = 0
  MaxMisreads = 1
  MaxLag = 0
INVARIANTS EchoStaysCurrent

SPECIFICATION FairSpec
CONSTANTS
  MaxVersion = 2
  MaxBinary = 2
  Withdrawals = TRUE
  MaxUpdates = 2
  MaxFaults = 2
  MaxMisreads = 1
  MaxLag = 1
INVARIANTS TypeOK SettledEcho
PROPERTIES FailureKeepsEntry UpgradedBeforeRecorded EchoNeverRegresses EchoConverges

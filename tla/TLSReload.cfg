SPECIFICATION FairSpec
CONSTANTS
  Profiles <- ThreeProfiles
  Unusable <- OneUnusable
  MaxEdits = 3
  MaxFaults = 2
INVARIANTS TypeOK SettledProfile RestartsHaveCause
PROPERTIES ProfileConverges
CHECK_DEADLOCK FALSE

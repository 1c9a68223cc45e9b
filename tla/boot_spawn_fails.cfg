SPECIFICATION FairSpec
CONSTANTS
  NbClusters = 3
  PciSpawn = TRUE
  SpawnMayFail = TRUE
PROPERTY ExitSent
CHECK_DEADLOCK FALSE

SPECIFICATION AllSpec
CONSTANTS
  Parts = {"clusters", "boot"}
  NbClusters = 3
  Duration = 20
  Monitoring = TRUE
  PutsLandFirst = TRUE
  MayFail = TRUE
  PciSpawn = TRUE
  SpawnMayFail = TRUE
INVARIANTS
  SameSite
  ReadsCurrentStep
  TotalOfThisStep
  NoUseAfterFree
  ServedWhileRunning
PROPERTIES
  ImplementsLoop
  ClustersEnd
  ItAllEnds
CHECK_DEADLOCK FALSE

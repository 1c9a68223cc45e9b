SPECIFICATION FairSpec
CONSTANTS
  NbClusters = 2
  Duration = 10
  Monitoring = TRUE
  PutsLandFirst = TRUE
  MayFail = TRUE
PROPERTIES
  EveryClusterReturns
CHECK_DEADLOCK FALSE

SPECIFICATION FairSpec
CONSTANTS
  NbClusters = 2
  Duration = 10
  Monitoring = TRUE
  PutsLandFirst = TRUE
  MayFail = FALSE
PROPERTIES
  FirstPicture
CHECK_DEADLOCK FALSE

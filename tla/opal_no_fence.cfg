SPECIFICATION Spec
CONSTANTS
  NbClusters = 2
  Duration = 10
  Monitoring = TRUE
  PutsLandFirst = FALSE
  MayFail = FALSE
INVARIANTS
  TotalOfThisStep

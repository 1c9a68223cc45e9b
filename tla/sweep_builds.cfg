SPECIFICATION Spec
CONSTANTS
  Layouts <- BothBuilds
  NbSteps = 2
  PutsLandFirst = TRUE
INVARIANTS
  GetInBounds
  StencilFetched
  ExclusivePuts
  ConsistentRead
PROPERTIES
  ImplementsLbm

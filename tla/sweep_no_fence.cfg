SPECIFICATION Spec
CONSTANTS
  Layouts <- EvenBuild
  NbSteps = 2
  PutsLandFirst = FALSE
INVARIANTS
  ConsistentRead

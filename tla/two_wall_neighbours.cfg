SPECIFICATION Spec
CONSTANTS
  NbCores = 2
  LenY = 2
  LenZ = 2
  NbCubes = 1
INVARIANTS
  PreviousWallKept

SPECIFICATION Spec
CONSTANTS
  Depth = 1
  NbCubes = 2
  HasTrailing = TRUE
  PE0 = pe0
  Clients = {pe1}
  NbSteps = 1
INVARIANT CubeHasArrived

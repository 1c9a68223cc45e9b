SPECIFICATION Spec
CONSTANTS
  Depth = 2
  NbCubes = 3
  HasTrailing = FALSE
  PE0 = pe0
  Clients = {pe1}
  NbSteps = 1
INVARIANT GetsOnlyOwnCubes

SPECIFICATION Spec
CONSTANTS
  Depth = 2
  NbCubes = 1
  HasTrailing = FALSE
  Picture = {}
  PE0 = pe0
  Clients = {pe1}
  NbCalls = 1
INVARIANTS
  SourceHasArrived

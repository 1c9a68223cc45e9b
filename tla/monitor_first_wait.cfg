SPECIFICATION Spec
CONSTANTS
  Depth = 2
  NbCubes = 3
  HasTrailing = FALSE
  Picture = {}
  PE0 = pe0
  Clients = {pe1}
  NbCalls = 1
INVARIANTS
  NoGetUnderPut

SPECIFICATION Spec
CONSTANTS
  Depth = 1
  NbCubes = 2
  HasTrailing = FALSE
  PE0 = pe0
  Clients = {pe1}
INVARIANTS
  NoGetUnderPut

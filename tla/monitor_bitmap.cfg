SPECIFICATION Spec
CONSTANTS
  Depth = 3
  NbCubes = 2
  HasTrailing = FALSE
  Picture = {0, 1}
  PE0 = pe0
  Clients = {pe1}
  NbCalls = 1
INVARIANTS
  PictureOfOneCube

SPECIFICATION Spec
CONSTANTS
  Depth = 2
  NbCubes = 3
  HasTrailing = TRUE
  Picture = {0, 1, 2, 4}
  PE0 = pe0
  Clients = {pe1}
  NbCalls = 2
INVARIANTS
  MonitorReadsOwnCube
  LaterPutsSafe
  BitmapKept
  MonitorComplete
  DeltaExact

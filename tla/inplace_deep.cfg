SPECIFICATION FairSpec
CONSTANTS
  Depth = 2
  NbCubes = 5
  HasTrailing = TRUE
  PE0 = pe0
  Clients = {pe1, pe2}
INVARIANTS
  CollideOwnsCube
  SecondTurnSafe
PROPERTIES
  LaterCubesSent

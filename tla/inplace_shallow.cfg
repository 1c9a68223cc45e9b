SPECIFICATION FairSpec
CONSTANTS
  Depth = 4
  NbCubes = 3
  HasTrailing = TRUE
  PE0 = pe0
  Clients = {pe1, pe2}
INVARIANTS
  NoGetUnderPut
PROPERTIES
  EveryCubeSent

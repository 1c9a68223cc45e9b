SPECIFICATION FairSpec
CONSTANTS
  Depth = 2
  NbCubes = 3
  HasTrailing = TRUE
  PE0 = pe0
  Clients = {pe1, pe2}
  NbSteps = 2
INVARIANTS
  TypeOK
  CollideReadsOwnCube
  PutCarriesWholeCube
  NoWriteUnderPut
  Lockstep
  StepComplete
PROPERTIES
  GetTicketKept
  EveryCubeUpdated

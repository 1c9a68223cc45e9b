SPECIFICATION AllSpec
CONSTANTS
  Programs = {"cluster", "walls", "device"}
  Lx = 3
  Ly = 4
  Lz = 3
  NbCores = 4
  LenY = 3
  LenZ = 3
  NbCubes = 2
  Nx = 3
  Ny = 2
  WgSize = 4
INVARIANTS
  MovesByVelocity
  LidPushesReflected
  RowOfOneColumn
  CurrentWallKept
  NextWallNotUpdated
  OwnPreviousWallKept
  CubeUpdated

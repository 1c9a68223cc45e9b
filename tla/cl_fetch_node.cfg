SPECIFICATION Spec
CONSTANTS
  Lx = 4
  Ly = 2
  Nx = 2
  Ny = 1
  WgSize = 2
INVARIANT FetchedForOwnNode

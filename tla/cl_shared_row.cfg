SPECIFICATION Spec
CONSTANTS
  Lx = 4
  Ly = 2
  Nx = 2
  Ny = 2
  WgSize = 2
INVARIANT RowOfOneItem

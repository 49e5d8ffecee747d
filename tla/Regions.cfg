SPECIFICATION Spec
CONSTANTS
  Rgid = {x, y, z}
  MaxSize = 4
  MaxFree = 5
  MaxFresh = 2
SYMMETRY RegionsSymmetry
INVARIANT Conserved
PROPERTIES OthersKept

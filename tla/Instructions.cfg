SPECIFICATION InstSpec
CONSTANTS
  Proc = {p1, p2}
  Page = {0, 1, 2}
  PAGESZ = 2
  Value = {1}
  NULL = NULL
  RamFrames = 2
  SwpFrames = 1
  FPNS = 8192
  SWPSTRIDE = 32
  SWPOFFS = 2097152
  Rgid = {x}
  Size = {1, 3}
  Offsets = {1, 4}
  MaxFree = 2
SYMMETRY InstSymmetry
CONSTRAINT Tame
VIEW View
CHECK_DEADLOCK FALSE
PROPERTY ImplementsMemory

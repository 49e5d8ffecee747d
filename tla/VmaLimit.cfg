SPECIFICATION LimitSpec
CONSTANTS
  Frames = 4
  Owner = {mm1, mm2}
  FPNS = 8192
  SWPSTRIDE = 32
  SWPOFFS = 2097152
  PAGESZ = 2
  Base = 4
  IncSz = {0, 1, 3}
  MaxPgn = 4
CHECK_DEADLOCK FALSE
SYMMETRY OwnerSymmetry
INVARIANTS FramesPartitioned AreasApart BreakMapped
PROPERTIES OwnerKept

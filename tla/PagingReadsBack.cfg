SPECIFICATION Spec
CONSTANTS
  Proc = {p1, p2}
  Page = {g1, g2, g3}
  PAGESZ = 1
  Value = {1}
  NULL = NULL
  RamFrames = 2
  SwpFrames = 2
  FPNS = 8192
  SWPSTRIDE = 32
  SWPOFFS = 2097152
SYMMETRY PagingSymmetry
CHECK_DEADLOCK FALSE
INVARIANT ReadsBack

SPECIFICATION Spec
CONSTANTS
  WIDTH = 2
  Pgn = {15, 16, 17}
  FPNS = 8
  SWPSTRIDE = 4
  SWPOFFS = 2
  Fpn = {1}
  Swpoff = {1}
  Ranges = {2}
INVARIANT TreeShaped
PROPERTIES ImplementsFlat NeverRelinked EachFreedOnce

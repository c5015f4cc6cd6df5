SPECIFICATION Spec
CONSTANTS
  Null = Null
  Bearings = {1, 2}
  Radii = {1, 3}
  Limit = 2
  kTrackMax = 4
  kTrackBands = 3
  MaxDrops = 2
  MaxSwings = 3
  MaxBuilds = 2
INVARIANT Inv
PROPERTY DialComesAlive
CHECK_DEADLOCK FALSE

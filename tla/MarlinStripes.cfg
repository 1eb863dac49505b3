SPECIFICATION Spec
CONSTANTS
  Grid = 3
  KTiles = {2, 3, 5}
  Parallels = {1, 5}
  NTiles = {1, 2}
  Rasters = {"stripes", "groupedM4", "bStationary"}
  MaxLaunches = 2
CHECK_DEADLOCK FALSE
INVARIANTS
  LockProtocol
  LaunchIsSound
PROPERTY
  LaunchEnds

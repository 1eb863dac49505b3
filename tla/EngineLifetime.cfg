SPECIFICATION LifeSpec
CONSTANTS
  Workers = 2
  ChunkBytes = 2
  Alignment = 2
  MaxCopies = 9
  MaxFaults = 1
  Manifests <- MCManifests
  LayerIds = {1, 2}
  PinnedLayers = 1
  Routes <- MCRoutes
  Capacity = 4
  First = 1
  Last = 2
  Tokens = {0, 1}
  CaptureToken = 0
  MaxHandles = 5
  MaxRequests = 3
CHECK_DEADLOCK FALSE
INVARIANTS
  CopiesAreSafe
  LoadIsSound
  EngineIsSound
  HandlesAreSound
  ReplaysOwnStep
  CreationIsSound

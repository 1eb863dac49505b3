SPECIFICATION Spec
CONSTANTS
  Capacity = 5
  Prompts = {1, 3, 4}
  MaxNews = {1, 3}
  Chunk = 2
  Segments = {2}
  WholePasses = 2
INVARIANTS
  RequestsAreIsolated
  ReuseIsEarned
  GenerationIsSound
PROPERTY
  RequestEnds

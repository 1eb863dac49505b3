SPECIFICATION Spec
CONSTANTS
  Token = {1, 2, 3}
  Stop = 3
  MaxNew = 6
  DraftLength = 3
  Capacity = 5
INVARIANTS StateMatchesOutput FailsOnlyOnFault
PROPERTIES ImplementsGreedy

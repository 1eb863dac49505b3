SPECIFICATION Spec
CONSTANTS
  Bytes = {65, 133, 149, 165, 195, 224, 225, 237, 240, 244}
  MaxBytes = 5
  MaxDelta = 2
  MaxTokens = 4
CHECK_DEADLOCK FALSE
INVARIANTS
  StreamMatchesReference

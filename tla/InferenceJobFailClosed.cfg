CONSTANTS
    EventCapacity = 1
    MaxTokens = 1
SPECIFICATION Spec
INVARIANT FailureFailsClosed

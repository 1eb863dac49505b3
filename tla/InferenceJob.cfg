CONSTANTS
    EventCapacity = 2
    MaxTokens = 3
SPECIFICATION FairSpec
INVARIANTS
    StreamIsFifo
    SuccessIsSound
    OneKindOfAnswer
    StreamWellFormed
    AnsweredInFull
PROPERTIES
    NeitherStranded

SPECIFICATION FairSpec
CONSTANTS
    CONCURRENT = TRUE
    MaxStreams = 3
    MaxChunks = 2
    MaxDrops = 1
INVARIANTS
    TypeOK
    ChunksConserved
    AnswersWhole
    InputIsLastQuestion
PROPERTIES
    ResponseArchived
    ConversationKept
CHECK_DEADLOCK FALSE

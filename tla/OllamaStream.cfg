SPECIFICATION FairSpec
CONSTANTS
    Chunk <- MCChunk
    Pieces = 2
    MaxChunks <- MCMaxChunks
INVARIANTS
    TypeOK
    OneFinalLine
    CountedOnce
    ProseDelivered
    ToolCallsWhole
PROPERTIES
    StreamAnswered

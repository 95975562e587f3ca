SPECIFICATION FairSpec
CONSTANTS
    Chunk <- MCChunk
    MaxChunks = 4
INVARIANTS
    TypeOK
    NothingLost
    ToolCallsIntact
PROPERTIES
    ImplementsProtocol
    MessageStops

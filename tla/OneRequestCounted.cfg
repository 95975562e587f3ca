SPECIFICATION Spec
CONSTANTS
    Chunk <- MCChunk
    Pieces = 2
    MaxChunks <- MCMaxChunks
INVARIANT OneRequestCounted

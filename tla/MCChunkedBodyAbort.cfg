CONSTANTS
    ChunkSize = 2
    MaxBytes = 3
    MaxChunks = 3
SPECIFICATION Spec
INVARIANT
    AbortReported

CONSTANTS
    ChunkSize = 3
    MaxBytes = 7
    MaxChunks = 5
SPECIFICATION FairSpec
INVARIANTS
    TypeOK
    WholeAtEOF
    NoEmptyChunk
    ShortOnlyLast
PROPERTY
    ReceiveReturns

SPECIFICATION Spec

CONSTANTS
    Files = {f1}
    ChunkSize = 2
    MaxBuf = 5
    MaxLen = 6
    None = None

INVARIANT TypeOK
INVARIANT FilesBacked
INVARIANT ReadsExact
PROPERTY WritesDurable

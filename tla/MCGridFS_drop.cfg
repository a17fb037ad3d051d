SPECIFICATION Spec

CONSTANTS
    Files = {f1}
    ChunkSize = 2
    MaxBuf = 3
    MaxLen = 3
    None = None

PROPERTY DropRemovesAll

\* A blob of five bytes, buffers of two, a disk that may fill up at any byte.
CONSTANTS
    Bytes = {1, 2}
    Blob <- MCBlob
    ChunkSize = 2
    Bodies <- MCBodies
    MaxSpace = 6
SPECIFICATION Spec
INVARIANTS
    TypeOK
    HashedIsWritten
    OkMeansVerified
    CancelledSoon

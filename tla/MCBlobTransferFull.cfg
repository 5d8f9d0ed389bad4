\* The same instance: the disk is full when output is dropped.
CONSTANTS
    Bytes = {1, 2}
    Blob <- MCBlob
    ChunkSize = 2
    Bodies <- MCBodies
    MaxSpace = 6
SPECIFICATION Spec
INVARIANT
    FileIsBlob

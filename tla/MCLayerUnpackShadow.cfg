\* A lower layer with nested directories, an upper one with a file over them.
CONSTANTS
    Names = {a, b}
    NameLen <- MCNameLen
    MaxDepth = 2
    MaxLayers = 2
    Shapes <- MCShadow
    FdsCache = 2
SPECIFICATION Spec
SYMMETRY NameSymmetry
INVARIANT
    MetadataNeverFails

\* Two layers with the types and the numbers of entries of MCShapes.
CONSTANTS
    Names = {a, b}
    NameLen <- MCNameLen
    MaxDepth = 2
    MaxLayers = 2
    Shapes <- MCShapes
    FdsCache = 2
SPECIFICATION Spec
SYMMETRY NameSymmetry
INVARIANTS
    TypeOK
    TreeIsOverlay
    DirModesApplied
PROPERTY
    ChildrenFirst

\* Three workers, three layers of at most two entries.
CONSTANTS
    Workers = {w1, w2, w3}
    Main = main
    NumLayers = 3
    Size <- MCSize
    MaxBody = 2
    MaxEntries = 2
SPECIFICATION Spec
SYMMETRY WorkerSymmetry
INVARIANTS
    TypeOK
    LastLineIsComplete
    LineIsOrdered
PROPERTY
    LinesNeverGoBack

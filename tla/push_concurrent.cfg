SPECIFICATION Spec
CONSTANTS
    Pushes = {p1, p2}
    Paths = {a, b}
    NoFile = NoFile
    MaxLen = 2
    ChunkSize = 1
    Exclusive = FALSE
SYMMETRY Symmetry
INVARIANTS Delivered RefusalMeansInterference
CHECK_DEADLOCK FALSE

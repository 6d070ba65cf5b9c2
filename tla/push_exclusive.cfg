SPECIFICATION Spec
CONSTANTS
    Pushes = {p1, p2}
    Paths = {a, b}
    NoFile = NoFile
    MaxLen = 3
    ChunkSize = 2
    Exclusive = TRUE
SYMMETRY Symmetry
PROPERTIES ConfirmedFileIsWhole ImplementsDelivery
CHECK_DEADLOCK FALSE

SPECIFICATION Spec
CONSTANTS
    Pulls = {p1, p2}
    Sources = {s1, s2}
    Stems = {a}
    Exts = {txt, log}
    Partial = Partial
    NoFile = NoFile
    MaxLen = 2
    MaxVersion = 1
    ChunkSize = 1
    Exclusive = FALSE
SYMMETRY Symmetry
INVARIANTS Delivered LeftoversAreInterrupted
 
CHECK_DEADLOCK FALSE

SPECIFICATION Spec
CONSTANTS
    Pulls = {p1, p2}
    Sources = {s1, s2}
    Stems = {a}
    Exts = {txt, log}
    Partial = Partial
    NoFile = NoFile
    MaxLen = 2
    MaxVersion = 0
    ChunkSize = 1
    Exclusive = TRUE
INVARIANTS LockstepNeverRefused
CHECK_DEADLOCK FALSE

SPECIFICATION FairSpec
CONSTANTS
    Procs = {c, g}
    Child = c
    Capacity = 1
    MaxOutput = 4
INVARIANTS
    NothingOutlivesExec
    OutputComplete
    PunctualNotTimedOut
PROPERTIES
    WritersProceed
    ReturnsUnlessHeld
CHECK_DEADLOCK FALSE

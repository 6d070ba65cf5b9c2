SPECIFICATION FairSpec
CONSTANTS
    Commands = {c1, c2}
    Pids = {p1, p2}
    NoPid = NoPid
    MaxLooks = 2
INVARIANTS
    NoSecondVm
    SingleViewer
PROPERTIES
    LaunchesOnWholeFiles
    ReportsAreTrue
    CommandsReturn
CHECK_DEADLOCK FALSE

SPECIFICATION Spec
CONSTANTS
    Commands = {c1, c2}
    Jobs <- McJobs
    Widths = {8, 640}
    Nobody = Nobody
INVARIANTS
    NothingLeftHeld
    KeysArrive
    RefusedSendsNothing
    ClickLands
CHECK_DEADLOCK FALSE

SPECIFICATION FairSpec
CONSTANTS
    Runs = {r1, r2}
    Tags = {s, t}
    Suspend = s
    Old = Old
    Nothing = Nothing
INVARIANTS ConclusionNotLost
PROPERTIES SuccessIsReal CliReturns
CHECK_DEADLOCK FALSE

SPECIFICATION FairSpec
CONSTANTS
    Callers = {c1, c2}
    NoCaller = NoCaller
    MaxStarts = 2
    MaxRequests = 2
INVARIANTS AnswersOnRecord AttemptBeforeOutcome
PROPERTIES RequestAnswered WaitingCallerServed
CHECK_DEADLOCK FALSE

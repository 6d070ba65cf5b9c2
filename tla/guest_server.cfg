SPECIFICATION FairSpec
CONSTANTS
    Conns = {c1, c2}
    MAX_CONNECTIONS = 1
    MaxRequests = 2
INVARIANTS ConnectionsBounded RepliesMatchRequests MismatchEndsSession
PROPERTIES ListenerAvailable NobodyLeftWaiting

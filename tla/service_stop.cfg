SPECIFICATION FairSpec
CONSTANTS
    Conns = {c1}
    MAX_CONNECTIONS = 1
    MaxRequests = 1
PROPERTIES StopIsNoticed

CONSTANTS
    c1 = c1
    c2 = c2
    Client = {c1, c2}
    Leavers = {c1}
    Proc = {p1}
    Null = Null
    Requests <- LongRequests
    max_child = 1
    MAX_STUCK_COUNTER = 1
    BUFFER_SIZE = 3
    POST_BUFFER_SIZE = 1
    PipeRoom = 1
    SocketRoom = 2
    Terminal = TRUE
    Faults = 0
SPECIFICATION FairSpec
PROPERTIES CleanUpEnds
CHECK_DEADLOCK FALSE

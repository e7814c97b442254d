CONSTANTS
    c1 = c1
    c2 = c2
    Client = {c1, c2}
    Leavers = {c1}
    Proc = {p1, p2}
    Null = Null
    Requests <- MCRequests
    max_child = 2
    MAX_STUCK_COUNTER = 1
    BUFFER_SIZE = 2
    POST_BUFFER_SIZE = 3
    PipeRoom = 1
    SocketRoom = 2
    Terminal = FALSE
    Faults = 2
SPECIFICATION FairSpec
INVARIANTS ChildrenCounted AnswersSound
PROPERTIES ConnectionEnds
\* The clients connect once.
CHECK_DEADLOCK FALSE

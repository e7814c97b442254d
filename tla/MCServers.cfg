SPECIFICATION Spec
CONSTANTS
    c1 = c1
    c2 = c2
    c3 = c3
    Client = {c1, c2}
    PIDNUMB = 2
    POOLSIZE = 2
    NoClient = NoClient
    SelectClient = {c1, c2, c3}
    CLIENTNUM = 3
    SizeOfInt = 2
    OpenMax = 2
    MaxRefused = 1
    Empty = Empty
    Stdin = Stdin
    EchoClient = {c1, c2}
    MAX_EVENT_COUNT = 4
    BUF_SIZE = 2
    SendRoom = 1
    MaxSent <- EchoMaxSent
    NoEcho = NoEcho
    ReuseClient = {c1, c2, c3}
    BACKLOG = 2
    MaxSaid <- ReuseMaxSaid
    NoReuse = NoReuse
INVARIANTS EachServesItsOwn SelectTableSound EchoSound ReuseSound
PROPERTIES TimeIsTold SelectClientsAnswered LoopServesAll SpeakersAreServed
\* The servers end, or have no client left.
CHECK_DEADLOCK FALSE

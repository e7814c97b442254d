CONSTANTS
    m1 = m1
    m2 = m2
    m3 = m3
    Cell = {m1, m2, m3}
    NoRule = NoRule
    Opts <- MCOpts
    Addr = {0}
    c1 = c1
    c2 = c2
    Client = {c1, c2}
    Rooms = {2, 3}
    Budget <- MCBudget
    Peer = {p1, p2, p3}
    Own = p3
    Hardware = {h1, h2}
    OwnHardware = h2
    ArpTableSize = 2
    ArpLiveTime = 1
    MaxClock = 2
SPECIFICATION MCSpec
INVARIANTS AnswersSound
PROPERTIES ToolEnds ArpTableSound
\* The clients may have run the tool as often as they will, and a stack that has died
\* stays so.
CHECK_DEADLOCK FALSE

SPECIFICATION Spec
CONSTANTS
    c1 = c1
    s1 = s1
    WRITELEN = 4
    PipeSize = 2
    READLEN = 1
    SemStart = 2
    MaxSem = 3
    MaxItems = 4
    TableSize = 2
    SeqBase = 6
    MaxPackets = 4
    FileClient = {c1, c2}
    MaxCommands = 4
    MaxOpens = 3
    Asking = {c1, c2}
    Answering = {s1, s2}
    times = 2
    Room = 2
    CountClient = {c1, c2}
    MaxTyped = 2
    NoPeer07 = none
    MaxOld = 2
INVARIANTS SharingSound StatisticsSound RoundsSound
PROPERTIES TasksEnd InterruptEnds OffsetIsShared FileClientsAnswered DatagramsEnd CountingSound CountersServe OpenKeepsWord
\* The programs end.
CHECK_DEADLOCK FALSE

CONSTANTS
    Cell = {m1, m2}
    NoRule = NoRule
    Opts <- MCOpts
    Addr = {0}
    c1 = c1
    c2 = c2
    Client = {c1}
    Rooms = {2, 3}
    Budget <- MCBudgetAlone
SPECIFICATION FairNetSpec
PROPERTIES EveryToolEnds
CHECK_DEADLOCK FALSE
